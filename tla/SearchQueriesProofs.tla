------------------------ MODULE SearchQueriesProofs ------------------------
(***************************************************************************)
(* Proved for all lists of attributes, documents, spellings and requests:  *)
(* pages and exports are whole, a filter whose literals end where their    *)
(* values do selects what was asked for, and what is refused is refused    *)
(* for dates, literals that do not end, or bounds that are not finite.     *)
(***************************************************************************)
EXTENDS SearchQueries, TLAPS, SequenceTheorems, FiniteSetTheorems, WellFoundedInduction

\* One step of a recursion: c is what it starts from and what is done so far.
FlattenStep(c, i) == IF i = 1 THEN c[1][i] ELSE c[2][i - 1] \o c[1][i]
EvalStep(c, node) ==
  IF node.t = "cond" THEN EvalCond(c[1], node)
  ELSE IF node.t = "group" THEN EvalGroup(node.op, [n \in DOMAIN node.items |-> c[2][node.items[n]]])
  ELSE Result(<<>>, <<>>)
SaysStep(c, node) ==
  IF node.t = "cond" THEN SaysCond(c[1], node)
  ELSE IF node.t = "group" THEN SaysGroup(node.op, UNION {c[2][node.items[n]] : n \in DOMAIN node.items})
  ELSE {}

Suggesting == INSTANCE SequenceFolds WITH Step <- AddLabelled
Conjoining == INSTANCE SequenceFolds WITH Step <- WithAnd
Disjoining == INSTANCE SequenceFolds WITH Step <- WithOr
Adding == INSTANCE SequenceFolds WITH Step <- Param
Flattening == INSTANCE SequenceFolds WITH Step <- FlattenStep
Evaluating == INSTANCE SequenceFolds WITH Step <- EvalStep
Saying == INSTANCE SequenceFolds WITH Step <- SaysStep
ReadingChars == INSTANCE SequenceFolds WITH Step <- ReadChar
ReadingValues == INSTANCE SequenceFolds WITH Step <- ReadValue

-----------------------------------------------------------------------------
(* Hits *)

\* Hits are a sequence.
LEMMA HitsSeq ==
  ASSUME NEW q, NEW documents
  PROVE  Hits(q, documents) \in Seq(Range(Hits(q, documents)))
<1> DEFINE found == Found(q, documents)
           n == Cardinality(found)
           hits == Hits(q, documents)
<1>1. IsFiniteSet(found)
  <2>1. found \subseteq DOMAIN Value
    BY DEF Found, Selected, Docs, TextHits
  <2>2. QED
    BY <2>1, FS_Subset, SizesAssumption
<1>2. n \in Nat
  BY <1>1, FS_CardinalityType
<1>3. hits = [k \in 1 .. n |-> hits[k]]
  <2> DEFINE nth(k) ==
        CHOOSE d \in found : Cardinality({e \in found : Before(q.sort, e, d)}) = k - 1
  <2>1. hits = [k \in 1 .. n |-> nth(k)]
    BY Zenon DEF Hits, InOrder
  <2> HIDE DEF hits, nth, n
  <2>2. QED
    BY <2>1
<1> HIDE DEF found, n, hits
<1>4. \A k \in 1 .. n : hits[k] \in Range(hits)
  BY <1>3 DEF Range
<1>5. hits \in Seq(Range(hits))
  BY <1>2, <1>3, <1>4
<1>6. QED
  BY <1>5 DEF hits

\* The same is asked for, whatever the page and whatever it is taken for.
SameRequest(p, q) ==
  /\ p.index = q.index /\ p.filter = q.filter /\ p.sort = q.sort
  /\ p.words = q.words /\ p.strategy = q.strategy /\ p.fields = q.fields

\* What is searched for does not depend on the page.
SameSearch(p, q) == SameRequest(p, q) /\ p.reading = q.reading

LEMMA HitsOfSame ==
  ASSUME NEW p, NEW q, SameSearch(p, q)
  PROVE  \A documents : Hits(p, documents) = Hits(q, documents)
<1> TAKE documents
<1>1. p.sort = q.sort /\ p.index = q.index /\ p.reading = q.reading
  BY DEF SameSearch, SameRequest
<1>2. TextHits(p) = TextHits(q)
  <2>1. Lifted(p.filter.spec.words, p.index) = Lifted(q.filter.spec.words, q.index)
    BY Zenon DEF SameSearch, SameRequest
  <2>2. QueryText(p) = QueryText(q)
    BY <2>1, Zenon DEF SameSearch, SameRequest, QueryText
  <2>3. SearchedIn(p) = SearchedIn(q)
    BY Zenon DEF SameSearch, SameRequest, SearchedIn
  <2>4. QED
    BY <2>2, <2>3, Zenon DEF TextHits, SameSearch, SameRequest
<1>3. Found(p, documents) = Found(q, documents)
  BY <1>1, <1>2, Zenon DEF Found
<1>4. QED
  BY <1>1, <1>3, Zenon DEF Hits

\* A page added to those before it.
LEMMA NextPage ==
  ASSUME NEW all, all \in Seq(Range(all)), NEW a \in 0 .. Len(all), NEW l \in Nat \ {0}
  PROVE  LET page == Page(all, a, l)
             b == IF a + l < Len(all) THEN a + l ELSE Len(all)
         IN /\ SubSeq(all, 1, a) \o page.hits = SubSeq(all, 1, b)
            /\ page.total = Len(all) /\ page.limit = l
            /\ page.hits = <<>> <=> a = Len(all)
            /\ Len(SubSeq(all, 1, b)) = b
<1> DEFINE b == IF a + l < Len(all) THEN a + l ELSE Len(all)
<1>1. Len(all) \in Nat
  OBVIOUS
<1>2. b \in a .. Len(all) /\ (a < Len(all) => b > a) /\ 1 \in 1 .. Len(all) + 1 /\ a \in 0 .. Len(all)
  BY <1>1
<1> HIDE DEF b
<1>3. SubSeq(all, 1, a) \o SubSeq(all, a + 1, b) = SubSeq(all, 1, b)
  BY <1>2, ConcatAdjacentSubSeq
<1>4. SubSeq(all, a + 1, b) = <<>> <=> a = Len(all)
  <2>1. Len(SubSeq(all, a + 1, b)) = b - a
    BY <1>1, <1>2
  <2>2. CASE a = Len(all)
    BY <1>1, <1>2, <2>2
  <2>3. CASE a < Len(all)
    BY <1>1, <1>2, <2>1, <2>3
  <2>4. QED
    BY <2>2, <2>3
<1>5. Len(SubSeq(all, 1, b)) = b
  BY <1>1, <1>2
<1> DEFINE page == Page(all, a, l)
<1>6. page.hits = SubSeq(all, a + 1, b) /\ page.total = Len(all) /\ page.limit = l
  BY DEF Page, b
<1> HIDE DEF page
<1>7. /\ SubSeq(all, 1, a) \o page.hits = SubSeq(all, 1, b)
      /\ page.total = Len(all) /\ page.limit = l
      /\ page.hits = <<>> <=> a = Len(all)
      /\ Len(SubSeq(all, 1, b)) = b
  BY <1>3, <1>4, <1>5, <1>6, Zenon
<1>8. QED
  BY <1>7, Zenon DEF b, page

\* The first rows are a sequence of rows.
LEMMA PrefixSeq ==
  ASSUME NEW all, all \in Seq(Range(all)), NEW m \in Nat
  PROVE  Prefix(all, m) \in Seq(Range(Prefix(all, m)))
<1> DEFINE n == IF m < Len(all) THEN m ELSE Len(all)
           s == SubSeq(all, 1, n)
<1>1. n \in Nat /\ n <= Len(all)
  OBVIOUS
<1> HIDE DEF n
<1>2. s \in Seq(Range(all))
  BY <1>1
<1> HIDE DEF s
<1>3. \A k \in DOMAIN s : s[k] \in Range(s)
  BY DEF Range
<1>4. s \in Seq(Range(s))
  BY <1>2, <1>3
<1>5. QED
  BY <1>4 DEF Prefix, n, s

\* The first rows of the first rows.
LEMMA PrefixOfPrefix ==
  ASSUME NEW all, all \in Seq(Range(all)), NEW b \in 0 .. Len(all), NEW m \in Nat,
         b = Len(all) \/ b >= m
  PROVE  Prefix(SubSeq(all, 1, b), m) = Prefix(all, m)
<1> DEFINE n == IF m < Len(all) THEN m ELSE Len(all)
           s == SubSeq(all, 1, b)
<1>1. Len(all) \in Nat /\ s \in Seq(Range(all)) /\ Len(s) = b
  OBVIOUS
<1>2. (IF m < b THEN m ELSE b) = n /\ n \in 0 .. b
  BY <1>1
<1>3. \A i \in 1 .. b : s[i] = all[i]
  OBVIOUS
<1> HIDE DEF s, n
<1>4. SubSeq(s, 1, n) = SubSeq(all, 1, n)
  <2>1. Len(SubSeq(s, 1, n)) = n /\ Len(SubSeq(all, 1, n)) = n
    BY <1>1, <1>2
  <2>2. \A i \in 1 .. n : SubSeq(s, 1, n)[i] = s[i] /\ SubSeq(all, 1, n)[i] = all[i]
    BY <1>1, <1>2
  <2>3. SubSeq(s, 1, n) \in Seq(Range(all)) /\ SubSeq(all, 1, n) \in Seq(Range(all))
    BY <1>1, <1>2
  <2>4. QED
    BY <1>2, <1>3, <2>1, <2>2, <2>3
<1>5. Prefix(s, m) = SubSeq(s, 1, n) /\ Prefix(all, m) = SubSeq(all, 1, n)
  BY <1>1, <1>2 DEF Prefix, n
<1>6. QED
  BY <1>4, <1>5 DEF s

-----------------------------------------------------------------------------
(* Suggestions *)

\* The fold of the model is that of SequenceFolds.
LEMMA FoldsLabelled ==
  \A base, seq : FoldLeft(AddLabelled, base, seq) = Suggesting!Folded(base, seq)
BY Zenon DEF FoldLeft, MapThenFoldSet, Suggesting!Folded, Suggesting!FoldLeft, Suggesting!MapThenFoldSet,
             Max, Suggesting!Max

Chosen(docs) == FoldLeft(AddLabelled, <<>>, docs)

\* Of the first k documents, one of each label.
OneOfEach(chosen, docs, k) ==
  /\ chosen \in Seq(Range(docs))
  /\ \A n \in 1 .. Len(chosen) : Label(chosen[n]) # {} /\ \E j \in 1 .. k : chosen[n] = docs[j]
  /\ \A j \in 1 .. k : Label(docs[j]) = {} \/ \E n \in 1 .. Len(chosen) : Label(chosen[n]) = Label(docs[j])
  /\ \A m, n \in 1 .. Len(chosen) : Label(chosen[m]) = Label(chosen[n]) => m = n

LEMMA OneMore ==
  ASSUME NEW docs, docs \in Seq(Range(docs)), NEW k \in Nat, k < Len(docs),
         NEW chosen, OneOfEach(chosen, docs, k)
  PROVE  OneOfEach(AddLabelled(chosen, docs[k + 1]), docs, k + 1)
<1> DEFINE d == docs[k + 1]
           more == AddLabelled(chosen, d)
<1>1. /\ chosen \in Seq(Range(docs)) /\ Len(chosen) \in Nat /\ DOMAIN chosen = 1 .. Len(chosen)
      /\ d \in Range(docs)
  BY DEF OneOfEach, Range
<1>2. \A j \in 1 .. k + 1 : j \in 1 .. k \/ j = k + 1
  OBVIOUS
<1>3. k + 1 \in 1 .. k + 1 /\ 1 .. k \subseteq 1 .. k + 1
  OBVIOUS
<1>4. CASE Label(d) = {} \/ \E n \in DOMAIN chosen : Label(chosen[n]) = Label(d)
  <2>1. more = chosen
    BY <1>4 DEF AddLabelled
  <2>2. Label(d) = {} \/ \E n \in 1 .. Len(chosen) : Label(chosen[n]) = Label(d)
    BY <1>1, <1>4
  <2> HIDE DEF more
  <2>3. \A n \in 1 .. Len(chosen) : Label(chosen[n]) # {} /\ \E j \in 1 .. k + 1 : chosen[n] = docs[j]
    BY <1>3 DEF OneOfEach
  <2>4. \A j \in 1 .. k + 1 :
          Label(docs[j]) = {} \/ \E n \in 1 .. Len(chosen) : Label(chosen[n]) = Label(docs[j])
    BY <1>2, <2>2 DEF OneOfEach
  <2>5. OneOfEach(chosen, docs, k + 1)
    BY <2>3, <2>4 DEF OneOfEach
  <2>6. QED
    BY <2>1, <2>5 DEF more
<1>5. CASE ~(Label(d) = {} \/ \E n \in DOMAIN chosen : Label(chosen[n]) = Label(d))
  <2>1. more = Append(chosen, d)
    BY <1>5 DEF AddLabelled
  <2>2. Label(d) # {} /\ \A n \in 1 .. Len(chosen) : Label(chosen[n]) # Label(d)
    BY <1>1, <1>5
  <2> HIDE DEF more
  <2>3. /\ more \in Seq(Range(docs)) /\ Len(more) = Len(chosen) + 1 /\ more[Len(chosen) + 1] = d
        /\ \A n \in 1 .. Len(chosen) : more[n] = chosen[n]
    BY <1>1, <2>1
  <2>4. \A n \in 1 .. Len(more) : n \in 1 .. Len(chosen) \/ n = Len(chosen) + 1
    BY <1>1, <2>3
  <2>5. Len(chosen) + 1 \in 1 .. Len(more) /\ 1 .. Len(chosen) \subseteq 1 .. Len(more)
    BY <1>1, <2>3
  <2>6. ASSUME NEW n \in 1 .. Len(more)
        PROVE  Label(more[n]) # {} /\ \E j \in 1 .. k + 1 : more[n] = docs[j]
    <3>1. CASE n \in 1 .. Len(chosen)
      BY <1>3, <2>3, <3>1 DEF OneOfEach
    <3>2. CASE n = Len(chosen) + 1
      BY <1>3, <2>2, <2>3, <3>2
    <3>3. QED
      BY <2>4, <3>1, <3>2
  <2>7. ASSUME NEW j \in 1 .. k + 1
        PROVE  Label(docs[j]) = {} \/ \E n \in 1 .. Len(more) : Label(more[n]) = Label(docs[j])
    <3>1. CASE j \in 1 .. k /\ Label(docs[j]) # {}
      <4>1. PICK n \in 1 .. Len(chosen) : Label(chosen[n]) = Label(docs[j])
        BY <3>1, Zenon DEF OneOfEach
      <4>2. n \in 1 .. Len(more) /\ Label(more[n]) = Label(docs[j])
        BY <2>3, <2>5, <4>1
      <4>3. QED
        BY <4>2
    <3>2. CASE j = k + 1
      BY <2>3, <2>5, <3>2
    <3>3. QED
      BY <1>2, <3>1, <3>2
  <2>8. ASSUME NEW m \in 1 .. Len(more), NEW n \in 1 .. Len(more), Label(more[m]) = Label(more[n])
        PROVE  m = n
    <3>1. CASE m \in 1 .. Len(chosen) /\ n \in 1 .. Len(chosen)
      BY <2>3, <2>8, <3>1 DEF OneOfEach
    <3>2. CASE m = Len(chosen) + 1 /\ n \in 1 .. Len(chosen)
      BY <2>2, <2>3, <2>8, <3>2
    <3>3. CASE m \in 1 .. Len(chosen) /\ n = Len(chosen) + 1
      BY <2>2, <2>3, <2>8, <3>3
    <3>4. QED
      BY <2>4, <3>1, <3>2, <3>3
  <2>9. OneOfEach(more, docs, k + 1)
    BY <2>3, <2>6, <2>7, <2>8 DEF OneOfEach
  <2>10. QED
    BY <2>9 DEF more
<1>6. QED
  BY <1>4, <1>5

\* The documents that suggestions choose.
LEMMA ChosenIs ==
  ASSUME NEW docs, docs \in Seq(Range(docs))
  PROVE  OneOfEach(Chosen(docs), docs, Len(docs))
<1>1. Len(docs) \in Nat /\ DOMAIN docs = 1 .. Len(docs)
  OBVIOUS
<1>2. PICK c : Suggesting!Makes(c, <<>>, docs, Len(docs))
  BY <1>1, Suggesting!FoldChain
<1> DEFINE n == Len(docs)
           S == {k \in Nat : k <= n => OneOfEach(c[k], docs, k)}
<1>3. c[0] = <<>> /\ (\A i \in 1 .. n : c[i] = AddLabelled(c[i - 1], docs[i])) /\ Chosen(docs) = c[n]
  BY <1>2, FoldsLabelled, Zenon DEF Suggesting!Makes, Chosen
<1>4. 0 \in S
  <2>1. OneOfEach(<<>>, docs, 0)
    <3>1. Len(<<>>) = 0 /\ 1 .. 0 = {} /\ <<>> \in Seq(Range(docs))
      OBVIOUS
    <3>2. QED
      BY <3>1, Zenon DEF OneOfEach
  <2>2. QED
    BY <1>3, <2>1
<1>5. ASSUME NEW k \in Nat, k \in S PROVE k + 1 \in S
  <2>1. CASE k < n
    <3>1. c[k + 1] = AddLabelled(c[k], docs[k + 1])
      <4>1. k + 1 \in 1 .. n /\ (k + 1) - 1 = k
        BY <1>1, <2>1
      <4>2. QED
        BY <1>3, <4>1
    <3>2. OneOfEach(c[k], docs, k)
      BY <1>1, <1>5, <2>1
    <3>3. OneOfEach(c[k + 1], docs, k + 1)
      BY <2>1, <3>1, <3>2, OneMore
    <3>4. QED
      BY <3>3
  <2>2. CASE ~(k < n)
    <3>1. ~(k + 1 <= n)
      BY <1>1, <2>2
    <3>2. QED
      BY <3>1
  <2>3. QED
    BY <2>1, <2>2
<1> HIDE DEF S
<1>6. n \in S
  BY <1>1, <1>4, <1>5, Suggesting!Induction
<1>7. OneOfEach(c[n], docs, n)
  BY <1>1, <1>6 DEF S
<1>8. QED
  BY <1>3, <1>7

\* Suggestions lose no label of the first hits, and show none twice.
SuggestsAll(items, docs) ==
  /\ {item.label : item \in Range(items)} = {Label(d) : d \in Range(docs)} \ {{}}
  /\ IsInjective([n \in DOMAIN items |-> items[n].label])

LEMMA SuggestionsWhole ==
  ASSUME NEW i, NEW word, NEW most \in Nat
  PROVE  SuggestsAll(Suggestions(i, word, FirstHits(i, word, most)), FirstHits(i, word, most))
<1> DEFINE docs == FirstHits(i, word, most)
           chosen == Chosen(docs)
           items == Suggestions(i, word, docs)
           shown(d) == "content" \in Searchable(i) /\ word \in Values(d, "content")
<1>1. docs \in Seq(Range(docs))
  BY HitsSeq, PrefixSeq DEF FirstHits
<1>2. OneOfEach(chosen, docs, Len(docs))
  BY <1>1, ChosenIs
<1>3. items = [n \in DOMAIN chosen |->
                [id |-> chosen[n], label |-> Label(chosen[n]), snippet |-> shown(chosen[n])]]
  BY Zenon DEF Suggestions, Chosen
<1> HIDE DEF docs, chosen, items, shown
<1>4. /\ DOMAIN items = DOMAIN chosen
      /\ \A n \in DOMAIN chosen : items[n].label = Label(chosen[n])
  BY <1>3
<1>5. DOMAIN docs = 1 .. Len(docs) /\ DOMAIN chosen = 1 .. Len(chosen)
  BY <1>1, <1>2 DEF OneOfEach
<1>6. {item.label : item \in Range(items)} = {Label(d) : d \in Range(docs)} \ {{}}
  <2>1. ASSUME NEW l \in {item.label : item \in Range(items)}
        PROVE  l \in {Label(d) : d \in Range(docs)} \ {{}}
    <3>1. PICK n \in DOMAIN items : l = items[n].label
      BY DEF Range
    <3>2. n \in 1 .. Len(chosen) /\ l = Label(chosen[n])
      BY <1>4, <1>5, <3>1
    <3>3. l = Label(chosen[n]) /\ l # {} /\ \E j \in 1 .. Len(docs) : chosen[n] = docs[j]
      BY <1>2, <3>2, Zenon DEF OneOfEach
    <3>4. chosen[n] \in Range(docs)
      BY <1>5, <3>3 DEF Range
    <3>5. QED
      BY <3>3, <3>4
  <2>2. ASSUME NEW l \in {Label(d) : d \in Range(docs)} \ {{}}
        PROVE  l \in {item.label : item \in Range(items)}
    <3>1. PICK j \in DOMAIN docs : l = Label(docs[j]) /\ l # {}
      BY DEF Range
    <3>2. j \in 1 .. Len(docs) /\ Label(docs[j]) # {}
      BY <1>5, <3>1
    <3>3. PICK n \in 1 .. Len(chosen) : Label(chosen[n]) = Label(docs[j])
      BY <1>2, <3>2, Zenon DEF OneOfEach
    <3>4. n \in DOMAIN items /\ items[n].label = l
      BY <1>4, <1>5, <3>1, <3>3
    <3>5. items[n] \in Range(items)
      BY <3>4 DEF Range
    <3>6. QED
      BY <3>4, <3>5
  <2>3. QED
    BY <2>1, <2>2
<1>7. IsInjective([n \in DOMAIN items |-> items[n].label])
  BY <1>2, <1>4, <1>5 DEF OneOfEach, IsInjective
<1>8. QED
  BY <1>6, <1>7 DEF SuggestsAll, docs, items

-----------------------------------------------------------------------------
(* The invariant of paging *)

Asking == {"asked", "walking", "facets", "shown", "ended", "exporting", "exported"}

\* query is a request with what it was parsed to.
ParsedQuery(q) ==
  /\ q = [index |-> q.index, filter |-> q.filter, reading |-> q.reading, sort |-> q.sort,
          words |-> q.words, strategy |-> q.strategy, fields |-> q.fields,
          limit |-> q.limit, offset |-> q.offset]
  /\ q.limit \in Nat \ {0} /\ q.offset \in Nat

FromStart == query[1].offset = Null

\* What has been collected of all the hits.
SoFar(all) ==
  /\ job.at = "asked" => rows = <<>> /\ (FromStart => query[2].offset = 0)
  /\ job.at = "walking" /\ FromStart =>
       query[2].offset \in 0 .. Len(all) /\ rows = SubSeq(all, 1, query[2].offset)
  /\ job.at \in {"facets", "shown"} /\ FromStart =>
       /\ job.next = Null => rows = all
       /\ job.next # Null => job.next \in 0 .. Len(all) /\ rows = SubSeq(all, 1, job.next)
  /\ job.at = "ended" /\ FromStart => rows = all
  /\ job.at = "exporting" => job.next \in 0 .. Len(all) /\ rows = SubSeq(all, 1, job.next)
  /\ job.at = "exported" => rows = Prefix(all, MaxRows)

\* The suggestions are those that the indexes give.
Suggested ==
  \E word, most :
     /\ query[1].word = word /\ query[1].most = most /\ most \in Nat
     /\ \A i \in DOMAIN rows : rows[i] = Suggestions(i, word, FirstHits(i, word, most))

JobInv ==
  /\ job = [at |-> job.at, next |-> job.next]
  /\ job.at \in Asking => query = <<query[1], query[2]>> /\ ParsedQuery(query[2])
  /\ job.at = "facets" => job.next = Null \/ job.next \in Nat
  /\ job.at = "shown" => job.next \in Nat
SteadyInv ==
  steady =>
    /\ job.at \in Asking => SoFar(Hits(query[2], live))
    /\ job.at = "suggested" => Suggested
PagesInv == JobInv /\ SteadyInv

LEMMA PagesInit == QueryInit => PagesInv
BY DEF QueryInit, PagesInv, JobInv, SteadyInv, Nothing, Asking

\* A step that changes neither the query nor the documents.
LEMMA SameHits ==
  ASSUME query' = query, live' = live
  PROVE  /\ Hits(query[2], live)' = Hits(query[2], live)
         /\ ParsedQuery(query[2])' = ParsedQuery(query[2]) /\ FromStart' = FromStart
<1>1. Hits(query[2], live)' = Hits(query[2], live)
  BY Zenon DEF Hits
<1>2. QED
  BY <1>1 DEF ParsedQuery, FromStart

LEMMA ClampIs ==
  /\ \A n \in Int : Clamp(n, 20, 1, MaxLimit) \in Nat \ {0}
  /\ \A n \in Int : FromZero(n) \in Nat
  /\ FromZero(Null) = 0
  /\ \A n \in Int : Clamp(n, 5, 1, MaxSuggestions) \in Nat
BY SizesAssumption DEF Clamp, FromZero, Null

\* What is asked of an index, and taken for.
AskedAs(r, reading) == [ParseSearchQuery(r) EXCEPT !.reading = reading]

LEMMA AskedAsIs ==
  ASSUME NEW r, NEW reading
  PROVE  LET q == AskedAs(r, reading)
         IN /\ q = [index |-> q.index, filter |-> q.filter, reading |-> q.reading, sort |-> q.sort,
                    words |-> q.words, strategy |-> q.strategy, fields |-> q.fields,
                    limit |-> q.limit, offset |-> q.offset]
            /\ q.limit = Clamp(r.limit, 20, 1, MaxLimit) /\ q.offset = FromZero(r.offset)
            /\ q.reading = reading /\ SameRequest(q, ParseSearchQuery(r))
<1> DEFINE p == ParseSearchQuery(r)
           q == AskedAs(r, reading)
<1>1. /\ p = [index |-> p.index, filter |-> p.filter, reading |-> p.reading, sort |-> p.sort,
              words |-> p.words, strategy |-> p.strategy, fields |-> p.fields,
              limit |-> p.limit, offset |-> p.offset]
      /\ p.limit = Clamp(r.limit, 20, 1, MaxLimit) /\ p.offset = FromZero(r.offset)
  BY DEF ParseSearchQuery
<1>2. q = [p EXCEPT !.reading = reading]
  BY DEF AskedAs
<1> HIDE DEF p, q
<1>3. q = [index |-> p.index, filter |-> p.filter, reading |-> reading, sort |-> p.sort,
           words |-> p.words, strategy |-> p.strategy, fields |-> p.fields,
           limit |-> p.limit, offset |-> p.offset]
  BY <1>1, <1>2
<1>4. /\ q.index = p.index /\ q.filter = p.filter /\ q.reading = reading /\ q.sort = p.sort
      /\ q.words = p.words /\ q.strategy = p.strategy /\ q.fields = p.fields
      /\ q.limit = p.limit /\ q.offset = p.offset
  BY <1>3
<1>5. SameRequest(q, p)
  BY <1>4 DEF SameRequest
<1>6. q = [index |-> q.index, filter |-> q.filter, reading |-> q.reading, sort |-> q.sort,
           words |-> q.words, strategy |-> q.strategy, fields |-> q.fields,
           limit |-> q.limit, offset |-> q.offset]
  BY <1>3, <1>4
<1>7. QED
  BY <1>1, <1>4, <1>5, <1>6 DEF p, q

\* Asking: nothing has been collected.
LEMMA AskStep == PagesInv /\ Ask => PagesInv'
<1> SUFFICES ASSUME Ask PROVE PagesInv'
  OBVIOUS
<1>0. PICK r \in Requests : \E reading \in Readings(r.index, FilterOf(ParseFilterSpec(r))) :
        query' = <<r, AskedAs(r, reading)>> /\ job' = [at |-> "asked", next |-> Null]
  BY Zenon DEF Ask, AskedAs
<1>1. PICK reading \in Readings(r.index, FilterOf(ParseFilterSpec(r))) :
        query' = <<r, AskedAs(r, reading)>> /\ job' = [at |-> "asked", next |-> Null]
  BY <1>0
<1>2. rows' = <<>>
  BY DEF Ask
<1>3. r.limit \in Int /\ r.offset \in Int
  BY SizesAssumption
<1> DEFINE q == AskedAs(r, reading)
<1>4. /\ q.limit = Clamp(r.limit, 20, 1, MaxLimit) /\ q.offset = FromZero(r.offset)
      /\ q = [index |-> q.index, filter |-> q.filter, reading |-> q.reading, sort |-> q.sort,
              words |-> q.words, strategy |-> q.strategy, fields |-> q.fields,
              limit |-> q.limit, offset |-> q.offset]
  BY AskedAsIs
<1> HIDE DEF q
<1>5. ParsedQuery(q) /\ (r.offset = Null => q.offset = 0)
  BY <1>3, <1>4, ClampIs DEF ParsedQuery
<1>6. query' = <<r, q>>
  BY <1>1 DEF q
<1>7. query'[1] = r /\ query'[2] = q
  BY <1>6
<1>8. job'.at = "asked" /\ job' = [at |-> job'.at, next |-> job'.next]
  BY <1>1
<1>9. JobInv'
  BY <1>5, <1>6, <1>7, <1>8 DEF JobInv, Asking, ParsedQuery
<1>10. SteadyInv'
  BY <1>2, <1>5, <1>7, <1>8 DEF SteadyInv, SoFar, FromStart
<1>11. QED
  BY <1>9, <1>10 DEF PagesInv

LEMMA FacetsPageStep == PagesInv /\ FacetsPage => PagesInv'
<1> SUFFICES ASSUME PagesInv, FacetsPage PROVE PagesInv'
  OBVIOUS
<1> DEFINE q == query[2]
           all == Hits(q, live)
           page == Page(all, q.offset, q.limit)
<1>1. job.at \in {"asked", "walking"} /\ query' = query /\ live' = live /\ steady' = steady
  BY DEF FacetsPage
<1>2. query = <<query[1], query[2]>> /\ ParsedQuery(q)
  BY <1>1 DEF PagesInv, JobInv, Asking
<1>3. all' = all /\ ParsedQuery(q)' = ParsedQuery(q) /\ FromStart' = FromStart
  BY <1>1, SameHits
<1>4. all \in Seq(Range(all)) /\ Len(all) \in Nat
  BY HitsSeq
<1>5. CASE job' = Error
  <2>1. job'.at = "refused" /\ job' = [at |-> job'.at, next |-> job'.next]
    BY <1>5 DEF Error
  <2>2. QED
    BY <2>1 DEF PagesInv, JobInv, SteadyInv, Asking
<1>6. CASE job' # Error
  <2>1. /\ rows' = rows \o page.hits
        /\ job' = [at |-> "facets",
             next |-> IF q.offset + q.limit < page.total THEN q.offset + q.limit ELSE Null]
    BY <1>6 DEF FacetsPage
  <2>2. q.offset \in Nat /\ q.limit \in Nat \ {0}
    BY <1>2 DEF ParsedQuery
  <2>3. page.total = Len(all)
    BY DEF Page
  <2> HIDE DEF page
  <2>4. /\ job'.at = "facets" /\ job' = [at |-> job'.at, next |-> job'.next]
        /\ job'.next = IF q.offset + q.limit < Len(all) THEN q.offset + q.limit ELSE Null
    BY <2>1, <2>3
  <2> HIDE DEF q, all
  <2>5. job'.next = Null \/ job'.next \in Nat
    BY <2>2, <2>4
  <2>6. JobInv'
    BY <1>1, <1>2, <1>3, <2>4, <2>5 DEF JobInv, Asking, q
  <2>7. ASSUME steady, FromStart
        PROVE  /\ job'.next = Null => rows' = all
               /\ job'.next # Null => job'.next \in 0 .. Len(all) /\ rows' = SubSeq(all, 1, job'.next)
    <3>1. q.offset \in 0 .. Len(all) /\ rows = SubSeq(all, 1, q.offset)
      <4>1. SoFar(all)
        BY <1>1, <2>7 DEF PagesInv, SteadyInv, Asking, all, q
      <4>2. CASE job.at = "asked"
        <5>1. rows = <<>> /\ q.offset = 0
          BY <2>7, <4>1, <4>2 DEF SoFar, q
        <5>2. SubSeq(all, 1, 0) = <<>>
          BY <1>4
        <5>3. QED
          BY <1>4, <5>1, <5>2
      <4>3. CASE job.at = "walking"
        BY <2>7, <4>1, <4>3 DEF SoFar, q
      <4>4. QED
        BY <1>1, <4>2, <4>3
    <3> DEFINE b == IF q.offset + q.limit < Len(all) THEN q.offset + q.limit ELSE Len(all)
    <3>2. SubSeq(all, 1, q.offset) \o page.hits = SubSeq(all, 1, b)
      <4> DEFINE k == q.offset
                 l == q.limit
                 p == Page(all, k, l)
                 e == IF k + l < Len(all) THEN k + l ELSE Len(all)
      <4>1. all \in Seq(Range(all)) /\ k \in 0 .. Len(all) /\ l \in Nat \ {0}
        BY <1>4, <2>2, <3>1
      <4>2. page = p /\ b = e
        BY Zenon DEF page
      <4> HIDE DEF k, l
      <4>3. SubSeq(all, 1, k) \o p.hits = SubSeq(all, 1, e)
        BY <4>1, NextPage, Zenon
      <4>4. QED
        BY <4>2, <4>3, Zenon DEF k, l
    <3>3. rows' = SubSeq(all, 1, b)
      BY <2>1, <3>1, <3>2
    <3>4. SubSeq(all, 1, Len(all)) = all
      BY <1>4
    <3>5. CASE q.offset + q.limit < Len(all)
      BY <1>4, <2>2, <2>4, <3>3, <3>5 DEF Null
    <3>6. CASE ~(q.offset + q.limit < Len(all))
      BY <2>4, <3>3, <3>4, <3>6
    <3>7. QED
      BY <3>5, <3>6
  <2>8. SteadyInv'
    BY <1>1, <1>3, <2>4, <2>7 DEF SteadyInv, SoFar, all, q
  <2>9. QED
    BY <2>6, <2>8 DEF PagesInv
<1>7. QED
  BY <1>5, <1>6

LEMMA FacetsCountStep == PagesInv /\ FacetsCount => PagesInv'
<1> SUFFICES ASSUME PagesInv, FacetsCount PROVE PagesInv'
  OBVIOUS
<1> DEFINE all == Hits(query[2], live)
<1>1. job.at = "facets" /\ UNCHANGED <<live, query, rows, steady>>
  BY DEF FacetsCount
<1>2. all' = all /\ ParsedQuery(query[2])' = ParsedQuery(query[2]) /\ FromStart' = FromStart
  BY <1>1, SameHits
<1>3. job = [at |-> job.at, next |-> job.next] /\ (job.next = Null \/ job.next \in Nat)
  BY <1>1 DEF PagesInv, JobInv
<1>4. query = <<query[1], query[2]>> /\ ParsedQuery(query[2])
  BY <1>1 DEF PagesInv, JobInv, Asking
<1>5. CASE job' = Error
  <2>1. job'.at = "refused" /\ job' = [at |-> job'.at, next |-> job'.next]
    BY <1>5 DEF Error
  <2>2. QED
    BY <2>1 DEF PagesInv, JobInv, SteadyInv, Asking
<1>6. CASE job' # Error
  <2>1. job' = [job EXCEPT !.at = IF job.next = Null THEN "ended" ELSE "shown"]
    BY <1>6 DEF FacetsCount
  <2>2. /\ job' = [at |-> job'.at, next |-> job'.next] /\ job'.next = job.next
        /\ job'.at = IF job.next = Null THEN "ended" ELSE "shown"
    BY <1>3, <2>1
  <2>3. JobInv'
    BY <1>1, <1>2, <1>3, <1>4, <2>2 DEF JobInv
  <2>4. steady => SoFar(all)
    BY <1>1 DEF PagesInv, SteadyInv, Asking
  <2>5. SteadyInv'
    BY <1>1, <1>2, <2>2, <2>4 DEF SteadyInv, SoFar
  <2>6. QED
    BY <2>3, <2>5 DEF PagesInv
<1>7. QED
  BY <1>5, <1>6

\* The next page is of the same search.
LEMMA FollowNextStep == PagesInv /\ FollowNext => PagesInv'
<1> SUFFICES ASSUME PagesInv, FollowNext PROVE PagesInv'
  OBVIOUS
<1> DEFINE q == query[2]
           next == [q EXCEPT !.offset = job.next]
           all == Hits(q, live)
<1>1. /\ job.at = "shown" /\ query' = [query EXCEPT ![2].offset = job.next]
      /\ job' = [at |-> "walking", next |-> Null] /\ UNCHANGED <<live, rows, steady>>
  BY DEF FollowNext
<1>2. query = <<query[1], query[2]>> /\ ParsedQuery(q)
  BY <1>1 DEF PagesInv, JobInv, Asking
<1>3. job.next \in Nat /\ Null \notin Nat
  BY <1>1 DEF PagesInv, JobInv, Null
<1>4. DOMAIN query = {1, 2}
  BY <1>2
<1>5. query'[1] = query[1] /\ query'[2] = next /\ query' = <<query'[1], query'[2]>>
  BY <1>1, <1>2, <1>4
<1>6. ParsedQuery(next) /\ next.offset = job.next /\ SameSearch(next, q)
  BY <1>2, <1>3 DEF ParsedQuery, SameSearch, SameRequest
<1>7. Hits(next, live) = all
  BY <1>6, HitsOfSame
<1>8. job'.at = "walking" /\ job' = [at |-> job'.at, next |-> job'.next]
  BY <1>1
<1>9. JobInv'
  <2> HIDE DEF next
  <2>1. ParsedQuery(query'[2])
    BY <1>5, <1>6
  <2>2. ParsedQuery(query[2])'
    BY <2>1 DEF ParsedQuery
  <2>3. QED
    BY <1>5, <1>8, <2>2 DEF JobInv
<1>10. Hits(query[2], live)' = all
  <2> HIDE DEF next, q
  <2>1. Hits(query'[2], live') = all
    BY <1>1, <1>5, <1>7
  <2>2. QED
    BY <2>1, Zenon DEF Hits
<1>11. SteadyInv'
  <2> HIDE DEF all, next
  <2>1. steady /\ FromStart => job.next \in 0 .. Len(all) /\ rows = SubSeq(all, 1, job.next)
    BY <1>1, <1>3 DEF PagesInv, SteadyInv, Asking, SoFar, all
  <2>2. FromStart' = FromStart
    BY <1>5 DEF FromStart
  <2>3. query'[2].offset = job.next
    BY <1>5, <1>6
  <2>4. QED
    BY <1>1, <1>8, <1>10, <2>1, <2>2, <2>3 DEF SteadyInv, SoFar
<1>12. QED
  BY <1>9, <1>11 DEF PagesInv

LEMMA ExportPagesStep == PagesInv /\ ExportPages => PagesInv'
<1> SUFFICES ASSUME PagesInv, ExportPages PROVE PagesInv'
  OBVIOUS
<1> DEFINE all == Hits(query[2], live)
<1>1. /\ job.at = "asked" /\ UNCHANGED <<live, query, rows, steady>>
      /\ job' = [at |-> "exporting", next |-> 0]
  BY DEF ExportPages
<1>2. all' = all /\ ParsedQuery(query[2])' = ParsedQuery(query[2])
  BY <1>1, SameHits
<1>3. query = <<query[1], query[2]>> /\ ParsedQuery(query[2])
  BY <1>1 DEF PagesInv, JobInv, Asking
<1>4. all \in Seq(Range(all))
  BY HitsSeq
<1>5. steady => rows = <<>>
  BY <1>1 DEF PagesInv, SteadyInv, Asking, SoFar
<1> HIDE DEF all
<1>6. SubSeq(all, 1, 0) = <<>> /\ 0 \in 0 .. Len(all)
  BY <1>4
<1>7. job'.at = "exporting" /\ job'.next = 0 /\ job' = [at |-> job'.at, next |-> job'.next]
  BY <1>1
<1>8. JobInv'
  BY <1>1, <1>2, <1>3, <1>7 DEF JobInv
<1>9. SteadyInv'
  BY <1>1, <1>2, <1>5, <1>6, <1>7 DEF SteadyInv, SoFar, all
<1>10. QED
  BY <1>8, <1>9 DEF PagesInv

LEMMA ExportStepStep == PagesInv /\ ExportStep => PagesInv'
<1> SUFFICES ASSUME PagesInv, ExportStep PROVE PagesInv'
  OBVIOUS
<1> DEFINE all == Hits(query[2], live)
           page == Page(all, job.next, ExportPage)
           more == Advance(job.next, page)
           collected == rows \o page.hits
           isLast == page.hits = <<>> \/ Len(collected) >= page.total \/ more >= MaxRows
<1>1. job.at = "exporting" /\ UNCHANGED <<live, query, steady>>
  BY DEF ExportStep
<1>2. all' = all /\ ParsedQuery(query[2])' = ParsedQuery(query[2])
  BY <1>1, SameHits
<1>3. query = <<query[1], query[2]>> /\ ParsedQuery(query[2])
  BY <1>1 DEF PagesInv, JobInv, Asking
<1>4. all \in Seq(Range(all)) /\ Len(all) \in Nat
  BY HitsSeq
<1>5. job = [at |-> job.at, next |-> job.next]
  BY DEF PagesInv, JobInv
<1>6. CASE job' = Error
  <2>1. job'.at = "refused" /\ job' = [at |-> job'.at, next |-> job'.next]
    BY <1>6 DEF Error
  <2>2. QED
    BY <2>1 DEF PagesInv, JobInv, SteadyInv, Asking
<1>7. CASE job' # Error
  <2>1. /\ rows' = IF isLast THEN Prefix(collected, MaxRows) ELSE collected
        /\ job' = IF isLast THEN [at |-> "exported", next |-> Null] ELSE [job EXCEPT !.next = more]
    BY <1>7, Zenon DEF ExportStep
  <2>2. more = job.next + page.limit /\ page.limit = ExportPage /\ page.total = Len(all)
    BY DEF Advance, Page
  <2> HIDE DEF isLast, collected, more, page, all
  <2>3. /\ job' = [at |-> job'.at, next |-> job'.next]
        /\ isLast => job'.at = "exported"
        /\ ~isLast => job'.at = "exporting" /\ job'.next = more
    BY <1>1, <1>5, <2>1
  <2>4. JobInv'
    BY <1>1, <1>2, <1>3, <2>3 DEF JobInv
  <2>5. ASSUME steady
        PROVE  /\ isLast => rows' = Prefix(all, MaxRows)
               /\ ~isLast => more \in 0 .. Len(all) /\ rows' = SubSeq(all, 1, more)
    <3> DEFINE a == job.next
               b == IF a + ExportPage < Len(all) THEN a + ExportPage ELSE Len(all)
    <3>1. a \in 0 .. Len(all) /\ rows = SubSeq(all, 1, a)
      BY <1>1, <2>5 DEF PagesInv, SteadyInv, Asking, SoFar, all
    <3>2. ExportPage \in Nat \ {0} /\ MaxRows \in Nat
      BY SizesAssumption
    <3>3. /\ SubSeq(all, 1, a) \o page.hits = SubSeq(all, 1, b)
          /\ page.hits = <<>> <=> a = Len(all)
          /\ Len(SubSeq(all, 1, b)) = b
      BY <1>4, <3>1, <3>2, NextPage, Zenon DEF page
    <3>4. collected = SubSeq(all, 1, b) /\ Len(collected) = b
      BY <3>1, <3>3 DEF collected
    <3>5. more = a + ExportPage
      BY <2>2
    <3>6. isLast <=> a = Len(all) \/ b >= Len(all) \/ a + ExportPage >= MaxRows
      BY <2>2, <3>3, <3>4, <3>5 DEF isLast
    <3> HIDE DEF a
    <3>7. ASSUME isLast PROVE rows' = Prefix(all, MaxRows)
      <4>1. b \in 0 .. Len(all) /\ (b = Len(all) \/ b >= MaxRows)
        BY <1>4, <3>1, <3>2, <3>6, <3>7
      <4> HIDE DEF b
      <4>2. Prefix(SubSeq(all, 1, b), MaxRows) = Prefix(all, MaxRows)
        BY <1>4, <3>2, <4>1, PrefixOfPrefix
      <4>3. QED
        BY <2>1, <3>4, <3>7, <4>2
    <3>8. ASSUME ~isLast PROVE more \in 0 .. Len(all) /\ rows' = SubSeq(all, 1, more)
      <4>1. b = a + ExportPage /\ b \in 0 .. Len(all)
        BY <1>4, <3>1, <3>2, <3>6, <3>8
      <4> HIDE DEF b
      <4>2. QED
        BY <2>1, <3>4, <3>5, <3>8, <4>1
    <3>9. QED
      BY <3>7, <3>8
  <2>6. SteadyInv'
    BY <1>1, <1>2, <2>3, <2>5 DEF SteadyInv, SoFar, all
  <2>7. QED
    BY <2>4, <2>6 DEF PagesInv
<1>8. QED
  BY <1>6, <1>7

LEMMA SuggestStep == PagesInv /\ Suggest => PagesInv'
<1> SUFFICES ASSUME Suggest PROVE PagesInv'
  OBVIOUS
<1>1. PICK p \in Inputs :
        /\ query' = <<[word |-> p.word, most |-> Clamp(p.limit, 5, 1, MaxSuggestions)]>>
        /\ \A i \in DOMAIN rows' :
             rows'[i] = Suggestions(i, p.word, FirstHits(i, p.word, Clamp(p.limit, 5, 1, MaxSuggestions)))
  BY DEF Suggest
<1>2. job' = [at |-> "suggested", next |-> Null] /\ live' = live
  BY DEF Suggest
<1> DEFINE most == Clamp(p.limit, 5, 1, MaxSuggestions)
<1>3. most \in Nat
  BY SizesAssumption, ClampIs
<1> HIDE DEF most
<1>4. query'[1].word = p.word /\ query'[1].most = most
  BY <1>1 DEF most
<1>5. \A i, w, m : FirstHits(i, w, m)' = FirstHits(i, w, m)
  BY <1>2, Zenon DEF FirstHits
<1>6. \A i \in DOMAIN rows' : rows'[i] = Suggestions(i, p.word, FirstHits(i, p.word, most)')
  BY <1>1, <1>5 DEF most
<1>7. Suggested'
  BY <1>3, <1>4, <1>6, Zenon DEF Suggested
<1>8. job'.at = "suggested" /\ job' = [at |-> job'.at, next |-> job'.next]
  BY <1>2
<1>9. QED
  BY <1>7, <1>8 DEF PagesInv, JobInv, SteadyInv, Asking

LEMMA PagesNext == PagesInv /\ [QueryNext]_queryVars => PagesInv'
<1> SUFFICES ASSUME PagesInv, [QueryNext]_queryVars PROVE PagesInv'
  OBVIOUS
<1>1. CASE Done
  <2>1. job' = Nothing
    BY <1>1 DEF Done
  <2>2. job'.at = "idle" /\ job' = [at |-> job'.at, next |-> job'.next]
    BY <2>1 DEF Nothing
  <2>3. QED
    BY <2>2 DEF PagesInv, JobInv, SteadyInv, Asking
<1>2. CASE Rebuilt
  <2>1. UNCHANGED <<query, job>> /\ steady' = FALSE
    BY <1>2 DEF Rebuilt
  <2>2. QED
    BY <2>1 DEF PagesInv, JobInv, SteadyInv, ParsedQuery
<1>3. CASE UNCHANGED queryVars
  <2>1. UNCHANGED <<live, query, job, rows, steady>>
    BY <1>3 DEF queryVars
  <2>2. Hits(query[2], live)' = Hits(query[2], live) /\ FromStart' = FromStart
        /\ ParsedQuery(query[2])' = ParsedQuery(query[2])
    BY <2>1, SameHits
  <2>3. \A i, w, m : FirstHits(i, w, m)' = FirstHits(i, w, m)
    BY <2>1, Zenon DEF FirstHits
  <2>4. Suggested => Suggested'
    BY <2>1, <2>3, Zenon DEF Suggested
  <2>5. QED
    BY <2>1, <2>2, <2>4 DEF PagesInv, JobInv, SteadyInv, SoFar
<1>4. QED
  BY <1>1, <1>2, <1>3, AskStep, FacetsPageStep, FacetsCountStep, FollowNextStep, ExportPagesStep,
     ExportStepStep, SuggestStep
  DEF QueryNext

\* Whatever the documents, the request and the sizes of pages: unless the
\* index is swapped in between, pages that are followed to the last show every
\* hit once and in order, an export has the first MaxRows of them, and
\* suggestions lose no label of the first hits and show none twice.
THEOREM PagesAreWhole == QuerySpec => []PagesWhole
<1>1. PagesInv => PagesWhole
  <2> SUFFICES ASSUME PagesInv, steady PROVE PagesWhole
    BY DEF PagesWhole
  <2>1. job.at \in {"ended", "exported"} => SoFar(Hits(query[2], live))
    BY DEF PagesInv, SteadyInv, Asking
  <2>2. ASSUME job.at = "suggested", NEW i \in DOMAIN rows
        PROVE  /\ {item.label : item \in Range(rows[i])}
                    = {Label(d) : d \in Range(FirstHits(i, query[1].word, query[1].most))} \ {{}}
               /\ IsInjective([n \in DOMAIN rows[i] |-> rows[i][n].label])
    <3>1. PICK word, most : /\ query[1].word = word /\ query[1].most = most /\ most \in Nat
                            /\ \A j \in DOMAIN rows : rows[j] = Suggestions(j, word, FirstHits(j, word, most))
      BY <2>2 DEF PagesInv, SteadyInv, Suggested
    <3>2. SuggestsAll(rows[i], FirstHits(i, word, most))
      BY <2>2, <3>1, SuggestionsWhole
    <3>3. QED
      BY <3>1, <3>2, Zenon DEF SuggestsAll
  <2>3. QED
    BY <2>1, <2>2, Zenon DEF PagesWhole, SoFar, FromStart
<1>2. QuerySpec => []PagesInv
  BY PagesInit, PagesNext, PTL DEF QuerySpec
<1>3. QED
  BY <1>1, <1>2, PTL

-----------------------------------------------------------------------------
(* Filter expressions *)

IsText(p) ==
  /\ p = [or |-> p.or, alts |-> p.alts, names |-> p.names]
  /\ p.or \in BOOLEAN /\ p.alts \in Seq(Seq(SUBSET Docs)) /\ p.alts # <<>>
  /\ ~p.or => Len(p.alts) = 1

\* Read the same whatever comes before or after it.
Whole(p) == IsText(p) /\ Len(p.alts) = 1

\* What an expression selects: the documents of all factors of an alternative.
LEMMA SelectedIs ==
  ASSUME NEW p, IsText(p), NEW d
  PROVE  d \in Selected(p) <=>
           d \in Docs /\ \E a \in 1 .. Len(p.alts) : \A j \in 1 .. Len(p.alts[a]) : d \in p.alts[a][j]
<1>1. DOMAIN p.alts = 1 .. Len(p.alts) /\ \A a \in 1 .. Len(p.alts) : DOMAIN p.alts[a] = 1 .. Len(p.alts[a])
  BY DEF IsText
<1>2. d \in Selected(p) <=> \E a \in DOMAIN p.alts : d \in {e \in Docs : \A j \in DOMAIN p.alts[a] : e \in p.alts[a][j]}
  BY Zenon DEF Selected, Range
<1>3. QED
  BY <1>1, <1>2

\* Only documents.
LEMMA SelectedDocs == \A p : Selected(p) \subseteq Docs
BY DEF Selected

\* What may be wrong with an expression, and what one for index i may name.
Flaws == {"unquoted", "infinite"}
Known(i) == Filterable(i) \cup Flaws

\* A condition stands by itself.
LEMMA AtomIs ==
  ASSUME NEW attr, NEW S \in SUBSET Docs, NEW flaws
  PROVE  /\ Whole(Atom(attr, S, flaws)) /\ Selected(Atom(attr, S, flaws)) = S
         /\ Atom(attr, S, flaws).names = {attr} \cup flaws /\ Atom(attr, S, flaws).or = FALSE
<1> DEFINE p == Atom(attr, S, flaws)
<1>1. /\ p.or = FALSE /\ p.alts = << <<S>> >> /\ p.names = {attr} \cup flaws
      /\ p = [or |-> p.or, alts |-> p.alts, names |-> p.names]
  BY DEF Atom
<1> HIDE DEF p
<1>2. <<S>> \in Seq(SUBSET Docs) /\ Len(<<S>>) = 1
  OBVIOUS
<1>3. Len(p.alts) = 1 /\ p.alts # <<>> /\ p.alts[1] = <<S>>
  BY <1>1
<1>4. p.alts \in Seq(Seq(SUBSET Docs))
  BY <1>1, <1>2
<1>5. Whole(p)
  BY <1>1, <1>3, <1>4 DEF Whole, IsText
<1>6. \A d : d \in Selected(p) <=> d \in S
  <2> SUFFICES ASSUME NEW d PROVE d \in Selected(p) <=> d \in S
    OBVIOUS
  <2>1. d \in Selected(p) <=>
           d \in Docs /\ \E a \in 1 .. Len(p.alts) : \A j \in 1 .. Len(p.alts[a]) : d \in p.alts[a][j]
    BY <1>5, SelectedIs DEF Whole
  <2>2. QED
    BY <1>2, <1>3, <2>1
<1>7. QED
  BY <1>1, <1>5, <1>6 DEF p

\* And so does what is in parentheses.
LEMMA ParenIs ==
  ASSUME NEW p, IsText(p)
  PROVE  /\ Whole(Paren(p)) /\ Selected(Paren(p)) = Selected(p)
         /\ Paren(p).names = p.names /\ Paren(p).or = p.or
<1> DEFINE q == Paren(p)
           S == Selected(p)
<1>1. q.or = p.or /\ q.alts = << <<S>> >> /\ q.names = p.names /\ q = [or |-> q.or, alts |-> q.alts, names |-> q.names]
  BY DEF Paren, IsText
<1>2. S \in SUBSET Docs
  BY SelectedDocs
<1> HIDE DEF q, S
<1>3. <<S>> \in Seq(SUBSET Docs) /\ Len(<<S>>) = 1
  BY <1>2
<1>4. Len(q.alts) = 1 /\ q.alts # <<>> /\ q.alts[1] = <<S>>
  BY <1>1
<1>5. q.alts \in Seq(Seq(SUBSET Docs))
  BY <1>1, <1>3
<1>6. Whole(q)
  BY <1>1, <1>4, <1>5 DEF Whole, IsText
<1>7. \A d : d \in Selected(q) <=> d \in S
  <2> SUFFICES ASSUME NEW d PROVE d \in Selected(q) <=> d \in S
    OBVIOUS
  <2>1. d \in Selected(q) <=>
           d \in Docs /\ \E a \in 1 .. Len(q.alts) : \A j \in 1 .. Len(q.alts[a]) : d \in q.alts[a][j]
    BY <1>6, SelectedIs DEF Whole
  <2>2. QED
    BY <1>2, <1>3, <1>4, <2>1
<1>8. QED
  BY <1>1, <1>6, <1>7 DEF q, S

\* Put with what follows, an OR offers either.
LEMMA WithOrIs ==
  ASSUME NEW p, NEW q, IsText(p), IsText(q)
  PROVE  /\ IsText(WithOr(p, q)) /\ Selected(WithOr(p, q)) = Selected(p) \cup Selected(q)
         /\ WithOr(p, q).names = p.names \cup q.names
<1> DEFINE r == WithOr(p, q)
           m == Len(p.alts)
           n == Len(q.alts)
<1>1. r.or = TRUE /\ r.alts = p.alts \o q.alts /\ r.names = p.names \cup q.names
      /\ r = [or |-> r.or, alts |-> r.alts, names |-> r.names]
  BY DEF WithOr
<1>2. p.alts \in Seq(Seq(SUBSET Docs)) /\ q.alts \in Seq(Seq(SUBSET Docs)) /\ p.alts # <<>>
  BY DEF IsText
<1> HIDE DEF r
<1>3. /\ r.alts \in Seq(Seq(SUBSET Docs)) /\ r.alts # <<>> /\ m \in Nat /\ n \in Nat /\ Len(r.alts) = m + n
      /\ \A a \in 1 .. m : r.alts[a] = p.alts[a]
      /\ \A a \in 1 .. n : r.alts[m + a] = q.alts[a]
  <2> DEFINE s == p.alts
             t == q.alts
  <2>1. s \in Seq(Seq(SUBSET Docs)) /\ t \in Seq(Seq(SUBSET Docs)) /\ s # <<>> /\ r.alts = s \o t
    BY <1>1, <1>2
  <2> HIDE DEF s, t
  <2>2. /\ s \o t \in Seq(Seq(SUBSET Docs)) /\ Len(s) \in Nat /\ Len(t) \in Nat
        /\ Len(s \o t) = Len(s) + Len(t) /\ Len(s) # 0
        /\ \A a \in 1 .. Len(s) : (s \o t)[a] = s[a]
        /\ \A a \in 1 .. Len(t) : (s \o t)[Len(s) + a] = t[a]
    BY <2>1
  <2>3. s \o t # <<>>
    BY <2>2
  <2>4. QED
    BY <2>1, <2>2, <2>3 DEF s, t
<1>4. IsText(r)
  BY <1>1, <1>3 DEF IsText
<1>5. ASSUME NEW d PROVE d \in Selected(r) <=> d \in Selected(p) \cup Selected(q)
  <2> DEFINE Fits(alt) == \A j \in 1 .. Len(alt) : d \in alt[j]
  <2>1. /\ d \in Selected(r) <=> d \in Docs /\ \E a \in 1 .. Len(r.alts) : Fits(r.alts[a])
        /\ d \in Selected(p) <=> d \in Docs /\ \E a \in 1 .. m : Fits(p.alts[a])
        /\ d \in Selected(q) <=> d \in Docs /\ \E a \in 1 .. n : Fits(q.alts[a])
    BY <1>4, SelectedIs
  <2> HIDE DEF Fits, m, n
  <2>2. \A a \in 1 .. m + n : a \in 1 .. m \/ (a - m \in 1 .. n /\ m + (a - m) = a)
    BY <1>3
  <2>3. (\A a \in 1 .. m : a \in 1 .. m + n) /\ (\A a \in 1 .. n : m + a \in 1 .. m + n)
    BY <1>3
  <2>4. ASSUME NEW a \in 1 .. m + n, Fits(r.alts[a])
        PROVE  (\E b \in 1 .. m : Fits(p.alts[b])) \/ \E b \in 1 .. n : Fits(q.alts[b])
    <3>1. CASE a \in 1 .. m
      BY <1>3, <2>4, <3>1
    <3>2. CASE a - m \in 1 .. n /\ m + (a - m) = a
      <4>1. r.alts[a] = q.alts[a - m]
        BY <1>3, <3>2
      <4>2. QED
        BY <2>4, <3>2, <4>1
    <3>3. QED
      BY <2>2, <3>1, <3>2
  <2>5. ASSUME NEW a \in 1 .. m, Fits(p.alts[a]) PROVE \E b \in 1 .. m + n : Fits(r.alts[b])
    BY <1>3, <2>3, <2>5
  <2>6. ASSUME NEW a \in 1 .. n, Fits(q.alts[a]) PROVE \E b \in 1 .. m + n : Fits(r.alts[b])
    BY <1>3, <2>3, <2>6
  <2>7. QED
    BY <1>3, <2>1, <2>4, <2>5, <2>6
<1>6. Selected(r) = Selected(p) \cup Selected(q)
  BY <1>5
<1>7. QED
  BY <1>1, <1>4, <1>6 DEF r

\* An AND of two wholes asks for both.
LEMMA WithAndIs ==
  ASSUME NEW p, NEW q, Whole(p), Whole(q)
  PROVE  /\ Whole(WithAnd(p, q)) /\ Selected(WithAnd(p, q)) = Selected(p) \cap Selected(q)
         /\ WithAnd(p, q).names = p.names \cup q.names
<1> DEFINE r == WithAnd(p, q)
           a == p.alts[1]
           b == q.alts[1]
<1>1. /\ p.alts \in Seq(Seq(SUBSET Docs)) /\ q.alts \in Seq(Seq(SUBSET Docs))
      /\ Len(p.alts) = 1 /\ Len(q.alts) = 1 /\ p.or \in BOOLEAN /\ q.or \in BOOLEAN
  BY DEF Whole, IsText
<1>2. /\ r.or = (p.or \/ q.or) /\ r.names = p.names \cup q.names
      /\ r.alts = Front(p.alts) \o << Last(p.alts) \o Head(q.alts) >> \o Tail(q.alts)
      /\ r = [or |-> r.or, alts |-> r.alts, names |-> r.names]
  BY DEF WithAnd
<1>3. a \in Seq(SUBSET Docs) /\ b \in Seq(SUBSET Docs)
  BY <1>1
<1>4. Front(p.alts) = <<>> /\ Last(p.alts) = a /\ Head(q.alts) = b /\ Tail(q.alts) = <<>>
  <2>1. ASSUME NEW T, NEW s \in Seq(T), Len(s) = 1
        PROVE  SubSeq(s, 1, Len(s) - 1) = <<>> /\ s[Len(s)] = s[1] /\ Head(s) = s[1] /\ Tail(s) = <<>>
    <3>1. SubSeq(s, 1, 0) = <<>> /\ Len(s) - 1 = 0
      BY <2>1
    <3>2. Len(Tail(s)) = 0 /\ Tail(s) \in Seq(T)
      BY <2>1
    <3>3. Tail(s) = <<>>
      <4>1. \A t \in Seq(T) : Len(t) = 0 => t = <<>>
        OBVIOUS
      <4>2. QED
        BY <3>2, <4>1, Zenon
    <3>4. QED
      BY <2>1, <3>1, <3>3
  <2>2. QED
    BY <1>1, <2>1 DEF Front, Last
<1>5. p.alts[1] = a /\ q.alts[1] = b
  OBVIOUS
<1> HIDE DEF r, a, b
<1>6. a \o b \in Seq(SUBSET Docs)
  BY <1>3
<1>7. r.alts = << a \o b >>
  <2>1. \A alt \in Seq(SUBSET Docs) : <<>> \o <<alt>> \o <<>> = <<alt>>
    OBVIOUS
  <2>2. r.alts = <<>> \o << a \o b >> \o <<>>
    BY <1>2, <1>4
  <2>3. QED
    BY <1>6, <2>1, <2>2
<1>8. Whole(r)
  <2>1. r.alts \in Seq(Seq(SUBSET Docs)) /\ Len(r.alts) = 1 /\ r.alts # <<>>
    BY <1>6, <1>7
  <2>2. r.or \in BOOLEAN
    BY <1>1, <1>2
  <2>3. QED
    BY <1>2, <2>1, <2>2 DEF Whole, IsText
<1>9. ASSUME NEW d PROVE d \in Selected(r) <=> d \in Selected(p) \cap Selected(q)
  <2> DEFINE Fits(alt) == \A j \in 1 .. Len(alt) : d \in alt[j]
  <2>1. /\ d \in Selected(r) <=> d \in Docs /\ \E k \in 1 .. Len(r.alts) : Fits(r.alts[k])
        /\ d \in Selected(p) <=> d \in Docs /\ \E k \in 1 .. Len(p.alts) : Fits(p.alts[k])
        /\ d \in Selected(q) <=> d \in Docs /\ \E k \in 1 .. Len(q.alts) : Fits(q.alts[k])
    BY <1>8, SelectedIs DEF Whole
  <2> HIDE DEF Fits
  <2>2. Len(r.alts) = 1 /\ r.alts[1] = a \o b /\ p.alts[1] = a /\ q.alts[1] = b /\ \A k \in 1 .. 1 : k = 1
    BY <1>5, <1>7
  <2>3. Fits(a \o b) <=> Fits(a) /\ Fits(b)
    <3>1. /\ Len(a) \in Nat /\ Len(b) \in Nat /\ Len(a \o b) = Len(a) + Len(b)
          /\ \A j \in 1 .. Len(a) : j \in 1 .. Len(a) + Len(b) /\ (a \o b)[j] = a[j]
          /\ \A j \in 1 .. Len(b) : Len(a) + j \in 1 .. Len(a) + Len(b) /\ (a \o b)[Len(a) + j] = b[j]
          /\ \A j \in 1 .. Len(a) + Len(b) : j \in 1 .. Len(a) \/ (j - Len(a) \in 1 .. Len(b) /\ Len(a) + (j - Len(a)) = j)
      BY <1>3
    <3>2. ASSUME Fits(a \o b) PROVE Fits(a) /\ Fits(b)
      BY <3>1, <3>2 DEF Fits
    <3>3. ASSUME Fits(a), Fits(b), NEW j \in 1 .. Len(a) + Len(b) PROVE d \in (a \o b)[j]
      <4>1. CASE j \in 1 .. Len(a)
        BY <3>1, <3>3, <4>1 DEF Fits
      <4>2. CASE j - Len(a) \in 1 .. Len(b) /\ Len(a) + (j - Len(a)) = j
        <5>1. (a \o b)[j] = b[j - Len(a)]
          BY <3>1, <4>2
        <5>2. QED
          BY <3>3, <4>2, <5>1 DEF Fits
      <4>3. QED
        BY <3>1, <4>1, <4>2
    <3>4. QED
      BY <3>1, <3>2, <3>3 DEF Fits
  <2>4. /\ (\E k \in 1 .. Len(r.alts) : Fits(r.alts[k])) <=> Fits(a \o b)
        /\ (\E k \in 1 .. Len(p.alts) : Fits(p.alts[k])) <=> Fits(a)
        /\ (\E k \in 1 .. Len(q.alts) : Fits(q.alts[k])) <=> Fits(b)
    <3>1. \A s : Len(s) = 1 => ((\E k \in 1 .. Len(s) : Fits(s[k])) <=> Fits(s[1]))
      BY <2>2
    <3>2. QED
      BY <1>1, <2>2, <3>1
  <2>5. QED
    BY <2>1, <2>3, <2>4
<1>10. Selected(r) = Selected(p) \cap Selected(q)
  BY <1>9
<1>11. QED
  BY <1>2, <1>8, <1>10 DEF r

LEMMA FoldsAnd ==
  \A base, seq : FoldLeft(WithAnd, base, seq) = Conjoining!Folded(base, seq)
BY Zenon DEF FoldLeft, MapThenFoldSet, Conjoining!Folded, Conjoining!FoldLeft, Conjoining!MapThenFoldSet,
             Max, Conjoining!Max

\* All of the first n texts.
Conjunction(p, texts, n) ==
  /\ Whole(p)
  /\ \A d \in Docs : d \in Selected(p) <=> \A k \in 1 .. n : d \in Selected(texts[k])
  /\ \A x : x \in p.names <=> \E k \in 1 .. n : x \in texts[k].names

\* One text more.
LEMMA ConjunctionMore ==
  ASSUME NEW p, NEW texts, NEW n \in Nat, Conjunction(p, texts, n), Whole(texts[n + 1])
  PROVE  Conjunction(WithAnd(p, texts[n + 1]), texts, n + 1)
<1> DEFINE q == texts[n + 1]
           r == WithAnd(p, q)
<1>1. Whole(r) /\ Selected(r) = Selected(p) \cap Selected(q) /\ r.names = p.names \cup q.names
  BY WithAndIs DEF Conjunction
<1>2. (\A k \in 1 .. n + 1 : k \in 1 .. n \/ k = n + 1) /\ (\A k \in 1 .. n : k \in 1 .. n + 1) /\ n + 1 \in 1 .. n + 1
  OBVIOUS
<1> HIDE DEF r
<1>3. \A d \in Docs : d \in Selected(r) <=> \A k \in 1 .. n + 1 : d \in Selected(texts[k])
  BY <1>1, <1>2 DEF Conjunction
<1>4. \A x : x \in r.names <=> \E k \in 1 .. n + 1 : x \in texts[k].names
  BY <1>1, <1>2 DEF Conjunction
<1>5. Conjunction(r, texts, n + 1)
  BY <1>1, <1>3, <1>4 DEF Conjunction
<1>6. QED
  BY <1>5 DEF r

\* Joined with AND.
LEMMA ConjunctionJoined ==
  ASSUME NEW T, NEW texts \in Seq(T), texts # <<>>,
         \A k \in 1 .. Len(texts) : Whole(texts[k])
  PROVE  Conjunction(Joined(WithAnd, texts), texts, Len(texts))
<1> DEFINE n == Len(texts)
           m == n - 1
<1>1. /\ n \in Nat \ {0} /\ m \in Nat /\ n = m + 1 /\ Head(texts) = texts[1]
      /\ DOMAIN Tail(texts) = 1 .. m /\ \A i \in 1 .. m : Tail(texts)[i] = texts[i + 1]
  OBVIOUS
<1> HIDE DEF n, m
<1>2. PICK c : Conjoining!Makes(c, Head(texts), Tail(texts), m)
  BY <1>1, Conjoining!FoldChain
<1>3. /\ c[0] = texts[1] /\ Joined(WithAnd, texts) = c[m]
      /\ \A i \in 1 .. m : c[i] = WithAnd(c[i - 1], Tail(texts)[i])
  BY <1>1, <1>2, FoldsAnd, Zenon DEF Conjoining!Makes, Joined
<1> DEFINE S == {k \in Nat : k <= m => Conjunction(c[k], texts, k + 1)}
<1>4. 0 \in S
  <2>1. Whole(texts[1]) /\ \A k \in 1 .. 0 + 1 : k = 1
    BY <1>1 DEF n
  <2>2. Conjunction(texts[1], texts, 0 + 1)
    BY <2>1 DEF Conjunction
  <2>3. QED
    BY <1>3, <2>2
<1>5. ASSUME NEW k \in Nat, k \in S PROVE k + 1 \in S
  <2> SUFFICES ASSUME k + 1 <= m PROVE Conjunction(c[k + 1], texts, (k + 1) + 1)
    OBVIOUS
  <2>1. k + 1 \in 1 .. m /\ (k + 1) - 1 = k /\ k + 1 \in Nat /\ (k + 1) + 1 \in 1 .. n
    BY <1>1
  <2>2. c[k + 1] = WithAnd(c[k], texts[(k + 1) + 1])
    BY <1>1, <1>3, <2>1
  <2>3. Conjunction(c[k], texts, k + 1)
    BY <1>1, <1>5
  <2>4. Whole(texts[(k + 1) + 1])
    BY <2>1 DEF n
  <2>5. QED
    BY <2>1, <2>2, <2>3, <2>4, ConjunctionMore
<1> HIDE DEF S
<1>6. m \in S
  BY <1>1, <1>4, <1>5, Conjoining!Induction
<1>7. Conjunction(c[m], texts, m + 1)
  BY <1>1, <1>6 DEF S
<1>8. QED
  BY <1>1, <1>3, <1>7 DEF n

LEMMA FoldsOr ==
  \A base, seq : FoldLeft(WithOr, base, seq) = Disjoining!Folded(base, seq)
BY Zenon DEF FoldLeft, MapThenFoldSet, Disjoining!Folded, Disjoining!FoldLeft, Disjoining!MapThenFoldSet,
             Max, Disjoining!Max

\* Any of the first n texts.
Disjunction(p, texts, n) ==
  /\ IsText(p)
  /\ \A d \in Docs : d \in Selected(p) <=> \E k \in 1 .. n : d \in Selected(texts[k])
  /\ \A x : x \in p.names <=> \E k \in 1 .. n : x \in texts[k].names

\* One text more.
LEMMA DisjunctionMore ==
  ASSUME NEW p, NEW texts, NEW n \in Nat, Disjunction(p, texts, n), IsText(texts[n + 1])
  PROVE  Disjunction(WithOr(p, texts[n + 1]), texts, n + 1)
<1> DEFINE q == texts[n + 1]
           r == WithOr(p, q)
<1>1. IsText(r) /\ Selected(r) = Selected(p) \cup Selected(q) /\ r.names = p.names \cup q.names
  BY WithOrIs DEF Disjunction
<1>2. (\A k \in 1 .. n + 1 : k \in 1 .. n \/ k = n + 1) /\ (\A k \in 1 .. n : k \in 1 .. n + 1) /\ n + 1 \in 1 .. n + 1
  OBVIOUS
<1> HIDE DEF r
<1>3. \A d \in Docs : d \in Selected(r) <=> \E k \in 1 .. n + 1 : d \in Selected(texts[k])
  BY <1>1, <1>2 DEF Disjunction
<1>4. \A x : x \in r.names <=> \E k \in 1 .. n + 1 : x \in texts[k].names
  BY <1>1, <1>2 DEF Disjunction
<1>5. Disjunction(r, texts, n + 1)
  BY <1>1, <1>3, <1>4 DEF Disjunction
<1>6. QED
  BY <1>5 DEF r

\* Joined with OR.
LEMMA DisjunctionJoined ==
  ASSUME NEW T, NEW texts \in Seq(T), texts # <<>>,
         \A k \in 1 .. Len(texts) : IsText(texts[k])
  PROVE  Disjunction(Joined(WithOr, texts), texts, Len(texts))
<1> DEFINE n == Len(texts)
           m == n - 1
<1>1. /\ n \in Nat \ {0} /\ m \in Nat /\ n = m + 1 /\ Head(texts) = texts[1]
      /\ DOMAIN Tail(texts) = 1 .. m /\ \A i \in 1 .. m : Tail(texts)[i] = texts[i + 1]
  OBVIOUS
<1> HIDE DEF n, m
<1>2. PICK c : Disjoining!Makes(c, Head(texts), Tail(texts), m)
  BY <1>1, Disjoining!FoldChain
<1>3. /\ c[0] = texts[1] /\ Joined(WithOr, texts) = c[m]
      /\ \A i \in 1 .. m : c[i] = WithOr(c[i - 1], Tail(texts)[i])
  BY <1>1, <1>2, FoldsOr, Zenon DEF Disjoining!Makes, Joined
<1> DEFINE S == {k \in Nat : k <= m => Disjunction(c[k], texts, k + 1)}
<1>4. 0 \in S
  <2>1. IsText(texts[1]) /\ \A k \in 1 .. 0 + 1 : k = 1
    BY <1>1 DEF n
  <2>2. Disjunction(texts[1], texts, 0 + 1)
    BY <2>1 DEF Disjunction
  <2>3. QED
    BY <1>3, <2>2
<1>5. ASSUME NEW k \in Nat, k \in S PROVE k + 1 \in S
  <2> SUFFICES ASSUME k + 1 <= m PROVE Disjunction(c[k + 1], texts, (k + 1) + 1)
    OBVIOUS
  <2>1. k + 1 \in 1 .. m /\ (k + 1) - 1 = k /\ k + 1 \in Nat /\ (k + 1) + 1 \in 1 .. n
    BY <1>1
  <2>2. c[k + 1] = WithOr(c[k], texts[(k + 1) + 1])
    BY <1>1, <1>3, <2>1
  <2>3. Disjunction(c[k], texts, k + 1)
    BY <1>1, <1>5
  <2>4. IsText(texts[(k + 1) + 1])
    BY <2>1 DEF n
  <2>5. QED
    BY <2>1, <2>2, <2>3, <2>4, DisjunctionMore
<1> HIDE DEF S
<1>6. m \in S
  BY <1>1, <1>4, <1>5, Disjoining!Induction
<1>7. Disjunction(c[m], texts, m + 1)
  BY <1>1, <1>6 DEF S
<1>8. QED
  BY <1>1, <1>3, <1>7 DEF n

-----------------------------------------------------------------------------
(* Sets and sequences *)

\* The sequence of a finite set has its elements.
LEMMA SeqOfSet ==
  ASSUME NEW S, IsFiniteSet(S)
  PROVE  SetToSeq(S) \in Seq(S) /\ \A x : x \in S <=> \E k \in 1 .. Len(SetToSeq(S)) : SetToSeq(S)[k] = x
<1> DEFINE n == Cardinality(S)
           s == SetToSeq(S)
<1>1. n \in Nat /\ IsFiniteSet(1 .. n) /\ Cardinality(1 .. n) = n
  <2>1. n \in Nat
    BY FS_CardinalityType
  <2> HIDE DEF n
  <2>2. IsFiniteSet(1 .. n) /\ Cardinality(1 .. n) = IF 1 > n THEN 0 ELSE n - 1 + 1
    BY <2>1, FS_Interval
  <2>3. QED
    BY <2>1, <2>2
<1>2. \E f \in [1 .. n -> S] : IsInjective(f)
  BY FS_CardinalityType DEF ExistsBijection, Bijection, Injection
<1>3. s \in [1 .. n -> S] /\ IsInjective(s)
  BY <1>2, Zenon DEF SetToSeq
<1> HIDE DEF s, n
<1>4. s \in Injection(1 .. n, S)
  BY <1>3 DEF Injection
<1>5. Cardinality(1 .. n) = Cardinality(S)
  BY <1>1 DEF n
<1>6. s \in Surjection(1 .. n, S)
  BY <1>4, <1>5, FS_Injection
<1>7. s \in Seq(S) /\ Len(s) = n
  BY <1>1, <1>3
<1>8. \A x \in S : \E k \in 1 .. n : s[k] = x
  BY <1>6 DEF Surjection
<1>9. QED
  BY <1>3, <1>7, <1>8 DEF s

\* What a function makes of a finite set is finite.
LEMMA FiniteImage ==
  ASSUME NEW S, IsFiniteSet(S), NEW f
  PROVE  IsFiniteSet({f[x] : x \in S})
<1> DEFINE g == [x \in S |-> f[x]]
           T == {f[x] : x \in S}
<1>1. g \in Surjection(S, T)
  BY DEF Surjection
<1> HIDE DEF g, T
<1>2. IsFiniteSet(T)
  BY <1>1, FS_Surjection
<1>3. QED
  BY <1>2 DEF T

\* All that a sequence of sequences holds.
LEMMA Flattened ==
  ASSUME NEW T, NEW seqs \in Seq(Seq(T))
  PROVE  /\ FlattenSeq(seqs) \in Seq(T)
         /\ \A x : (\E k \in 1 .. Len(FlattenSeq(seqs)) : FlattenSeq(seqs)[k] = x)
                     <=> \E i \in 1 .. Len(seqs) : \E k \in 1 .. Len(seqs[i]) : seqs[i][k] = x
<1> DEFINE n == Len(seqs)
           height == [i \in 1 .. n |-> i]
           flat == FlattenSeq(seqs)
<1>1. n \in Nat /\ \A i \in 1 .. n : seqs[i] \in Seq(T)
  OBVIOUS
<1>2. CASE n = 0
  <2>1. seqs = <<>>
    BY <1>2
  <2>2. FlattenSeq(seqs) = seqs
    BY <1>2, Zenon DEF FlattenSeq
  <2>3. <<>> \in Seq(T) /\ Len(<<>>) = 0 /\ 1 .. 0 = {}
    OBVIOUS
  <2>4. QED
    BY <2>1, <2>2, <2>3
<1>3. CASE n # 0
  <2>1. PICK g : Flattening!Unfolds(g, seqs, 1 .. n)
    <3>1. \A i \in 1 .. n : height[i] \in Nat
      BY <1>1
    <3>2. ASSUME NEW i \in 1 .. n, NEW f, NEW g,
                 \A j \in 1 .. n : height[j] < height[i] => f[j] = g[j]
          PROVE  FlattenStep(<<seqs, f>>, i) = FlattenStep(<<seqs, g>>, i)
      <4>1. CASE i = 1
        BY <4>1 DEF FlattenStep
      <4>2. CASE i # 1
        <5>1. i - 1 \in 1 .. n /\ height[i - 1] < height[i]
          BY <1>1, <4>2
        <5>2. f[i - 1] = g[i - 1]
          BY <3>2, <5>1
        <5>3. QED
          BY <4>2, <5>2 DEF FlattenStep
      <4>3. QED
        BY <4>1, <4>2
    <3> HIDE DEF height, n
    <3>3. Flattening!LooksDown(seqs, 1 .. n, height)
      BY <3>1, <3>2, Zenon DEF Flattening!LooksDown
    <3>4. QED
      BY <3>3, Flattening!Recursion
  <2> DEFINE Makes(f) == f = [i \in 1 .. n |-> IF i = 1 THEN seqs[i] ELSE f[i - 1] \o seqs[i]]
             f == CHOOSE f : Makes(f)
  <2>2. Makes(g)
    <3>1. \A i : FlattenStep(<<seqs, g>>, i) = IF i = 1 THEN seqs[i] ELSE g[i - 1] \o seqs[i]
      BY DEF FlattenStep
    <3>2. g = [i \in 1 .. n |-> FlattenStep(<<seqs, g>>, i)]
      BY <2>1, Zenon DEF Flattening!Unfolds
    <3>3. QED
      BY <3>1, <3>2
  <2>3. Makes(f)
    BY <2>2
  <2>4. flat = f[n]
    BY <1>3, Zenon DEF FlattenSeq
  <2> HIDE DEF f
  <2>5. f[1] = seqs[1] /\ \A i \in 1 .. n : i # 1 => f[i] = f[i - 1] \o seqs[i]
    <3>1. f = [i \in 1 .. n |-> IF i = 1 THEN seqs[i] ELSE f[i - 1] \o seqs[i]]
      BY <2>3
    <3>2. \A i \in 1 .. n : f[i] = IF i = 1 THEN seqs[i] ELSE f[i - 1] \o seqs[i]
      BY <3>1
    <3>3. 1 \in 1 .. n
      BY <1>1, <1>3
    <3> HIDE DEF n
    <3>4. QED
      BY <3>2, <3>3
  <2> HIDE DEF Makes, n, flat
  <2> DEFINE Holds(s, m) ==
               /\ s \in Seq(T)
               /\ \A x : (\E k \in 1 .. Len(s) : s[k] = x)
                            <=> \E i \in 1 .. m : \E k \in 1 .. Len(seqs[i]) : seqs[i][k] = x
             S == {k \in Nat : k + 1 <= n => Holds(f[k + 1], k + 1)}
  <2>6. 0 \in S
    <3>1. 1 \in 1 .. n /\ (\A i \in 1 .. 1 : i = 1) /\ 0 + 1 = 1
      BY <1>1, <1>3
    <3>2. Holds(seqs[1], 1)
      BY <1>1, <3>1
    <3>3. Holds(f[0 + 1], 0 + 1)
      BY <2>5, <3>1, <3>2
    <3>4. QED
      BY <3>3
  <2>7. ASSUME NEW k \in Nat, k \in S PROVE k + 1 \in S
    <3> HIDE DEF Holds
    <3> DEFINE m == k + 1
    <3> SUFFICES ASSUME m + 1 <= n PROVE Holds(f[m + 1], m + 1)
      OBVIOUS
    <3>1. m \in Nat /\ m + 1 \in 1 .. n /\ m + 1 # 1 /\ (m + 1) - 1 = m /\ m <= n
      BY <1>1
    <3>2. Holds(f[m], m)
      BY <2>7, <3>1
    <3> HIDE DEF m
    <3> DEFINE s == f[m]
               t == seqs[m + 1]
    <3>3. f[m + 1] = s \o t
      BY <2>5, <3>1
    <3>4. s \in Seq(T) /\ t \in Seq(T)
      BY <1>1, <3>1, <3>2 DEF Holds, n
    <3>5. \A i \in 1 .. m + 1 : i \in 1 .. m \/ i = m + 1
      BY <3>1
    <3>6. (\A i \in 1 .. m : i \in 1 .. m + 1) /\ m + 1 \in 1 .. m + 1
      BY <3>1
    <3>7. \A x : (\E j \in 1 .. Len(s) : s[j] = x)
                   <=> \E i \in 1 .. m : \E j \in 1 .. Len(seqs[i]) : seqs[i][j] = x
      BY <3>2 DEF Holds
    <3> HIDE DEF s, Holds
    <3>8. /\ s \o t \in Seq(T)
          /\ \A x : (\E j \in 1 .. Len(s \o t) : (s \o t)[j] = x)
                      <=> (\E j \in 1 .. Len(s) : s[j] = x) \/ \E j \in 1 .. Len(t) : t[j] = x
      <4> HIDE DEF t
      <4>1. /\ s \o t \in Seq(T) /\ Len(s) \in Nat /\ Len(t) \in Nat /\ Len(s \o t) = Len(s) + Len(t)
            /\ \A j \in 1 .. Len(s) : (s \o t)[j] = s[j]
            /\ \A j \in 1 .. Len(t) : (s \o t)[Len(s) + j] = t[j]
        BY <3>4
      <4> DEFINE st == s \o t
                 a == Len(s)
                 b == Len(t)
      <4>2. /\ \A j \in 1 .. a : j \in 1 .. a + b
            /\ \A j \in 1 .. b : a + j \in 1 .. a + b
            /\ \A j \in 1 .. a + b : j \in 1 .. a \/ (j - a \in 1 .. b /\ a + (j - a) = j)
        BY <4>1
      <4>3. /\ Len(st) = a + b /\ \A j \in 1 .. a : st[j] = s[j]
            /\ \A j \in 1 .. b : st[a + j] = t[j]
        BY <4>1
      <4> HIDE DEF st, a, b
      <4>4. ASSUME NEW j \in 1 .. a + b
            PROVE  (\E h \in 1 .. a : s[h] = st[j]) \/ \E h \in 1 .. b : t[h] = st[j]
        <5>1. CASE j \in 1 .. a
          BY <4>3, <5>1
        <5>2. CASE j - a \in 1 .. b /\ a + (j - a) = j
          <6>1. st[a + (j - a)] = t[j - a]
            BY <4>3, <5>2
          <6>2. QED
            BY <5>2, <6>1
        <5>3. QED
          BY <4>2, <5>1, <5>2
      <4>5. \A x : (\E j \in 1 .. Len(st) : st[j] = x)
                      <=> (\E j \in 1 .. a : s[j] = x) \/ \E j \in 1 .. b : t[j] = x
        BY <4>2, <4>3, <4>4
      <4>6. QED
        BY <4>1, <4>5 DEF st, a, b
    <3>9. \A x : (\E i \in 1 .. m + 1 : \E j \in 1 .. Len(seqs[i]) : seqs[i][j] = x)
                   <=> (\E i \in 1 .. m : \E j \in 1 .. Len(seqs[i]) : seqs[i][j] = x)
                       \/ \E j \in 1 .. Len(t) : t[j] = x
      BY <3>5, <3>6
    <3>10. Holds(s \o t, m + 1)
      BY <3>7, <3>8, <3>9, Zenon DEF Holds
    <3>11. QED
      BY <3>3, <3>10
  <2> HIDE DEF S, Holds
  <2>8. n - 1 \in Nat /\ (n - 1) + 1 = n
    BY <1>1, <1>3
  <2>9. n - 1 \in S
    BY <2>6, <2>7, <2>8, Flattening!Induction
  <2>10. Holds(f[n], n)
    BY <2>8, <2>9 DEF S
  <2>11. QED
    BY <2>4, <2>10 DEF Holds, n, flat
<1>4. QED
  BY <1>2, <1>3

-----------------------------------------------------------------------------
(* Trees *)

\* A group has its items below it.
LEMMA ItemsBelow ==
  ASSUME NEW node \in Nodes, node.t = "group"
  PROVE  /\ node.items \in Seq(Nodes) /\ DOMAIN node.items = 1 .. Len(node.items)
         /\ \A n \in DOMAIN node.items : node.items[n] \in Nodes /\ Height[node.items[n]] < Height[node]
<1>1. node.items \in Seq(Nodes) /\ \A n \in DOMAIN node.items : Height[node.items[n]] < Height[node]
  BY TreesAssumption DEF Nodes
<1>2. QED
  BY <1>1

\* A node is made of what its items come to.
LEMMA EvalLooksDown == \A i : Evaluating!LooksDown(i, Nodes, Height)
<1> SUFFICES ASSUME NEW i PROVE Evaluating!LooksDown(i, Nodes, Height)
  OBVIOUS
<1>1. \A node \in Nodes : Height[node] \in Nat
  BY TreesAssumption DEF Nodes
<1>2. ASSUME NEW node \in Nodes, NEW f, NEW g,
             \A n \in Nodes : Height[n] < Height[node] => f[n] = g[n]
      PROVE  EvalStep(<<i, f>>, node) = EvalStep(<<i, g>>, node)
  <2>1. CASE node.t = "group"
    <3>1. \A n \in DOMAIN node.items : f[node.items[n]] = g[node.items[n]]
      BY <1>2, <2>1, ItemsBelow
    <3>2. [n \in DOMAIN node.items |-> f[node.items[n]]] = [n \in DOMAIN node.items |-> g[node.items[n]]]
      BY <3>1, Zenon
    <3>3. \A h : EvalStep(<<i, h>>, node) = EvalGroup(node.op, [n \in DOMAIN node.items |-> h[node.items[n]]])
      BY <2>1 DEF EvalStep
    <3>4. QED
      BY <3>2, <3>3
  <2>2. CASE node.t # "group"
    BY <2>2 DEF EvalStep
  <2>3. QED
    BY <2>1, <2>2
<1>3. QED
  BY <1>1, <1>2, Zenon DEF Evaluating!LooksDown

\* It says what its items say.
LEMMA SaysLooksDown == \A i : Saying!LooksDown(i, Nodes, Height)
<1> SUFFICES ASSUME NEW i PROVE Saying!LooksDown(i, Nodes, Height)
  OBVIOUS
<1>1. \A node \in Nodes : Height[node] \in Nat
  BY TreesAssumption DEF Nodes
<1>2. ASSUME NEW node \in Nodes, NEW f, NEW g,
             \A n \in Nodes : Height[n] < Height[node] => f[n] = g[n]
      PROVE  SaysStep(<<i, f>>, node) = SaysStep(<<i, g>>, node)
  <2>1. CASE node.t = "group"
    <3>1. \A n \in DOMAIN node.items : f[node.items[n]] = g[node.items[n]]
      BY <1>2, <2>1, ItemsBelow
    <3>2. {f[node.items[n]] : n \in DOMAIN node.items} = {g[node.items[n]] : n \in DOMAIN node.items}
      BY <3>1
    <3>3. \A h : SaysStep(<<i, h>>, node) = SaysGroup(node.op, UNION {h[node.items[n]] : n \in DOMAIN node.items})
      BY <2>1 DEF SaysStep
    <3>4. QED
      BY <3>2, <3>3
  <2>2. CASE node.t # "group"
    BY <2>2 DEF SaysStep
  <2>3. QED
    BY <2>1, <2>2
<1>3. QED
  BY <1>1, <1>2, Zenon DEF Saying!LooksDown

\* A node comes to what its items come to.
LEMMA EvalNodeIs ==
  ASSUME NEW i, NEW node \in Nodes
  PROVE  /\ node.t = "cond" => EvalNode(i, node) = EvalCond(i, node)
         /\ node.t = "group" => EvalNode(i, node) =
              EvalGroup(node.op, [n \in DOMAIN node.items |-> EvalNode(i, node.items[n])])
         /\ node.t \notin {"cond", "group"} => EvalNode(i, node) = Result(<<>>, <<>>)
<1> DEFINE Step(f, x) ==
             IF x.t = "cond" THEN EvalCond(i, x)
             ELSE IF x.t = "group" THEN EvalGroup(x.op, [n \in DOMAIN x.items |-> f[x.items[n]]])
             ELSE Result(<<>>, <<>>)
           eval == CHOOSE eval : eval = [x \in Nodes |-> Step(eval, x)]
<1>1. \E f : f = [x \in Nodes |-> Step(f, x)]
  <2>1. PICK g : Evaluating!Unfolds(g, i, Nodes)
    BY EvalLooksDown, Evaluating!Recursion
  <2>2. \A x : EvalStep(<<i, g>>, x) = Step(g, x)
    BY DEF EvalStep
  <2>3. g = [x \in Nodes |-> EvalStep(<<i, g>>, x)]
    BY <2>1, Zenon DEF Evaluating!Unfolds
  <2> HIDE DEF Step
  <2>4. QED
    BY <2>2, <2>3
<1>2. eval = [x \in Nodes |-> Step(eval, x)]
  BY <1>1
<1>3. \A x : EvalNode(i, x) = eval[x]
  BY Zenon DEF EvalNode
<1> HIDE DEF eval
<1>4. EvalNode(i, node) = Step(eval, node)
  <2> HIDE DEF Step
  <2>1. QED
    BY <1>2, <1>3
<1>5. CASE node.t = "group"
  <2>1. [n \in DOMAIN node.items |-> eval[node.items[n]]]
          = [n \in DOMAIN node.items |-> EvalNode(i, node.items[n])]
    BY <1>3, Zenon
  <2>2. EvalNode(i, node) = EvalGroup(node.op, [n \in DOMAIN node.items |-> eval[node.items[n]]])
    BY <1>4, <1>5
  <2>3. QED
    BY <1>5, <2>1, <2>2
<1>6. CASE node.t # "group"
  BY <1>4, <1>6
<1>7. QED
  BY <1>5, <1>6

\* It says what its items say.
SaidBelow(i, node) == {Says(i, node.items[n]) : n \in DOMAIN node.items}

LEMMA SaysIs ==
  ASSUME NEW i, NEW node \in Nodes
  PROVE  /\ node.t = "cond" => Says(i, node) = SaysCond(i, node)
         /\ node.t = "group" => Says(i, node) = SaysGroup(node.op, UNION SaidBelow(i, node))
         /\ node.t \notin {"cond", "group"} => Says(i, node) = {}
<1> DEFINE Step(f, x) ==
             IF x.t = "cond" THEN SaysCond(i, x)
             ELSE IF x.t = "group" THEN SaysGroup(x.op, UNION {f[x.items[n]] : n \in DOMAIN x.items})
             ELSE {}
           says == CHOOSE says : says = [x \in Nodes |-> Step(says, x)]
<1>1. \E f : f = [x \in Nodes |-> Step(f, x)]
  <2>1. PICK g : Saying!Unfolds(g, i, Nodes)
    BY SaysLooksDown, Saying!Recursion
  <2>2. \A x : SaysStep(<<i, g>>, x) = Step(g, x)
    BY DEF SaysStep
  <2>3. g = [x \in Nodes |-> SaysStep(<<i, g>>, x)]
    BY <2>1, Zenon DEF Saying!Unfolds
  <2> HIDE DEF Step
  <2>4. QED
    BY <2>2, <2>3
<1>2. says = [x \in Nodes |-> Step(says, x)]
  BY <1>1
<1>3. \A x : Says(i, x) = says[x]
  BY Zenon DEF Says
<1> HIDE DEF says
<1>4. Says(i, node) = Step(says, node)
  <2> HIDE DEF Step
  <2>1. QED
    BY <1>2, <1>3
<1>5. CASE node.t = "group"
  <2>1. {says[node.items[n]] : n \in DOMAIN node.items} = SaidBelow(i, node)
    BY <1>3 DEF SaidBelow
  <2>2. Says(i, node) = SaysGroup(node.op, UNION {says[node.items[n]] : n \in DOMAIN node.items})
    BY <1>4, <1>5
  <2>3. QED
    BY <1>5, <2>1, <2>2
<1>6. CASE node.t # "group"
  BY <1>4, <1>6
<1>7. QED
  BY <1>5, <1>6

\* What a node comes to is what it says.
Means(i, r, says) ==
  \/ r.exprs = <<>> /\ says = {}
  \/ \E e : /\ r.exprs = <<e>> /\ IsText(e) /\ e.names \subseteq Known(i)
            /\ says = {Selected(e)}

LEMMA OneText ==
  ASSUME NEW i, NEW e, NEW words, IsText(e), e.names \subseteq Known(i)
  PROVE  Means(i, Result(<<e>>, words), {Selected(e)})
<1>1. Result(<<e>>, words).exprs = <<e>>
  BY DEF Result
<1>2. QED
  BY <1>1, Zenon DEF Means

LEMMA NoText == \A i, words : Means(i, Result(<<>>, words), {})
BY DEF Means, Result

\* e is the condition on attr that selects S.
IsCondition(e, attr, S, flaws) ==
  Whole(e) /\ Selected(e) = S /\ e.names = {attr} \cup flaws

LEMMA AtomSelects ==
  ASSUME NEW attr, NEW S \in SUBSET Docs, NEW flaws
  PROVE  IsCondition(Atom(attr, S, flaws), attr, S, flaws)
BY AtomIs DEF IsCondition

\* Conditions on values, on bounds, and on nulls.
LEMMA ValuesAre ==
  \A x, v : /\ Whole(Is(x, v)) /\ Is(x, v).names \subseteq {x} \cup Flaws
            /\ Selected(Is(x, v)) = {d \in Docs : v \in Values(d, x)}
            /\ Whole(IsNot(x, v)) /\ IsNot(x, v).names \subseteq {x} \cup Flaws
            /\ Selected(IsNot(x, v)) = {d \in Docs : v \notin Values(d, x)}
<1> SUFFICES ASSUME NEW x, NEW v
             PROVE  /\ Whole(Is(x, v)) /\ Is(x, v).names \subseteq {x} \cup Flaws
                    /\ Selected(Is(x, v)) = {d \in Docs : v \in Values(d, x)}
                    /\ Whole(IsNot(x, v)) /\ IsNot(x, v).names \subseteq {x} \cup Flaws
                    /\ Selected(IsNot(x, v)) = {d \in Docs : v \notin Values(d, x)}
  OBVIOUS
<1> DEFINE S == {d \in Docs : v \in Values(d, x)}
           T == {d \in Docs : v \notin Values(d, x)}
<1>1. Literal(v) \subseteq Flaws /\ S \in SUBSET Docs /\ T \in SUBSET Docs
  BY DEF Literal, Flaws
<1>2. Is(x, v) = Atom(x, S, Literal(v)) /\ IsNot(x, v) = Atom(x, T, Literal(v))
  BY Zenon DEF Is, IsNot
<1> HIDE DEF S, T
<1>3. IsCondition(Atom(x, S, Literal(v)), x, S, Literal(v)) /\ IsCondition(Atom(x, T, Literal(v)), x, T, Literal(v))
  BY <1>1, AtomSelects
<1>4. IsCondition(Is(x, v), x, S, Literal(v)) /\ IsCondition(IsNot(x, v), x, T, Literal(v))
  BY <1>2, <1>3, Zenon
<1>5. QED
  BY <1>1, <1>4 DEF IsCondition, S, T

LEMMA BoundsAre ==
  \A x, n : /\ Whole(AtLeast(x, n)) /\ AtLeast(x, n).names \subseteq {x} \cup Flaws
            /\ Selected(AtLeast(x, n)) = {d \in Docs : \E v \in Values(d, x) : v >= n}
            /\ Whole(AtMost(x, n)) /\ AtMost(x, n).names \subseteq {x} \cup Flaws
            /\ Selected(AtMost(x, n)) = {d \in Docs : \E v \in Values(d, x) : v <= n}
<1> SUFFICES ASSUME NEW x, NEW n
             PROVE  /\ Whole(AtLeast(x, n)) /\ AtLeast(x, n).names \subseteq {x} \cup Flaws
                    /\ Selected(AtLeast(x, n)) = {d \in Docs : \E v \in Values(d, x) : v >= n}
                    /\ Whole(AtMost(x, n)) /\ AtMost(x, n).names \subseteq {x} \cup Flaws
                    /\ Selected(AtMost(x, n)) = {d \in Docs : \E v \in Values(d, x) : v <= n}
  OBVIOUS
<1> DEFINE S == {d \in Docs : \E v \in Values(d, x) : v >= n}
           T == {d \in Docs : \E v \in Values(d, x) : v <= n}
<1>1. Number(n) \subseteq Flaws /\ S \in SUBSET Docs /\ T \in SUBSET Docs
  BY DEF Number, Flaws
<1>2. AtLeast(x, n) = Atom(x, S, Number(n)) /\ AtMost(x, n) = Atom(x, T, Number(n))
  BY Zenon DEF AtLeast, AtMost
<1> HIDE DEF S, T
<1>3. IsCondition(Atom(x, S, Number(n)), x, S, Number(n)) /\ IsCondition(Atom(x, T, Number(n)), x, T, Number(n))
  BY <1>1, AtomSelects
<1>4. IsCondition(AtLeast(x, n), x, S, Number(n)) /\ IsCondition(AtMost(x, n), x, T, Number(n))
  BY <1>2, <1>3, Zenon
<1>5. QED
  BY <1>1, <1>4 DEF IsCondition, S, T

LEMMA NullsAre ==
  \A x : /\ Whole(IsNull(x)) /\ IsNull(x).names = {x} /\ Selected(IsNull(x)) = {}
         /\ Whole(IsNotNull(x)) /\ IsNotNull(x).names = {x} /\ Selected(IsNotNull(x)) = Docs
<1> SUFFICES ASSUME NEW x
             PROVE  /\ Whole(IsNull(x)) /\ IsNull(x).names = {x} /\ Selected(IsNull(x)) = {}
                    /\ Whole(IsNotNull(x)) /\ IsNotNull(x).names = {x} /\ Selected(IsNotNull(x)) = Docs
  OBVIOUS
<1>1. IsNull(x) = Atom(x, {}, {}) /\ IsNotNull(x) = Atom(x, Docs, {})
  BY Zenon DEF IsNull, IsNotNull
<1>2. {} \in SUBSET Docs /\ Docs \in SUBSET Docs
  OBVIOUS
<1>3. IsCondition(Atom(x, {}, {}), x, {}, {}) /\ IsCondition(Atom(x, Docs, {}), x, Docs, {})
  BY <1>2, AtomSelects
<1>4. IsCondition(IsNull(x), x, {}, {}) /\ IsCondition(IsNotNull(x), x, Docs, {})
  BY <1>1, <1>3, Zenon
<1>5. QED
  BY <1>4 DEF IsCondition

\* What lies between two bounds.
LEMMA BetweenIs ==
  ASSUME NEW x, NEW n, NEW m
  PROVE  LET b == Paren(WithAnd(AtLeast(x, n), AtMost(x, m)))
         IN /\ Whole(b) /\ b.names \subseteq {x} \cup Flaws
            /\ Selected(b) = {d \in Docs : \E v \in Values(d, x) : v >= n}
                                \cap {d \in Docs : \E v \in Values(d, x) : v <= m}
<1> DEFINE p == AtLeast(x, n)
           q == AtMost(x, m)
           S == {d \in Docs : \E v \in Values(d, x) : v >= n}
           T == {d \in Docs : \E v \in Values(d, x) : v <= m}
<1>1. /\ Whole(p) /\ p.names \subseteq {x} \cup Flaws /\ Selected(p) = S
      /\ Whole(q) /\ q.names \subseteq {x} \cup Flaws /\ Selected(q) = T
  BY BoundsAre
<1> HIDE DEF p, q, S, T
<1>2. /\ Whole(WithAnd(p, q)) /\ WithAnd(p, q).names \subseteq {x} \cup Flaws
      /\ Selected(WithAnd(p, q)) = S \cap T
  BY <1>1, WithAndIs
<1> DEFINE r == WithAnd(p, q)
<1> HIDE DEF r
<1>3. IsText(r) /\ r.names \subseteq {x} \cup Flaws /\ Selected(r) = S \cap T
  BY <1>2 DEF r, Whole
<1>4. Whole(Paren(r)) /\ Paren(r).names \subseteq {x} \cup Flaws /\ Selected(Paren(r)) = S \cap T
  BY <1>3, ParenIs
<1>5. QED
  BY <1>4 DEF r, p, q, S, T

\* r is one condition on f, for what is said.
Comes(r, says, f) ==
  \E e : r = Result(<<e>>, <<>>) /\ Whole(e) /\ e.names \subseteq {f} \cup Flaws /\ says = {Selected(e)}

LEMMA ComesMeans ==
  ASSUME NEW i, NEW r, NEW says, NEW f \in Filterable(i), Comes(r, says, f)
  PROVE  Means(i, r, says)
<1>1. PICK e : r = Result(<<e>>, <<>>) /\ Whole(e) /\ e.names \subseteq {f} \cup Flaws /\ says = {Selected(e)}
  BY DEF Comes
<1>2. IsText(e) /\ e.names \subseteq Known(i)
  BY <1>1 DEF Whole, Known
<1>3. QED
  BY <1>1, <1>2, OneText

\* A condition comes to what it says.
LEMMA CondMeans ==
  ASSUME NEW i, NEW c
  PROVE  Means(i, EvalCond(i, c), SaysCond(i, c))
<1> DEFINE f == NormalizeAttr(i, c.field)
           r == EvalCond(i, c)
           says == SaysCond(i, c)
           From(n) == {d \in Docs : \E v \in Values(d, f) : v >= n}
           UpTo(n) == {d \in Docs : \E v \in Values(d, f) : v <= n}
<1>1. CASE f \notin Filterable(i)
  <2>1. r = Result(<<>>, <<>>) /\ says = {}
    BY <1>1 DEF EvalCond, SaysCond
  <2>2. QED
    BY <2>1, NoText
<1>2. CASE f \in Filterable(i)
  <2>1. CASE \/ c.op \notin {"is_empty", "is_not_empty", "is", "is_not", "gt", "lt", "between"}
             \/ c.op \in {"gt", "lt", "between"} /\ c.value = Null
             \/ c.op = "between" /\ c.valueTo = Null
    <3>1. (\E words : r = Result(<<>>, words)) /\ says = {}
      <4>1. CASE c.op \in {"contains", "starts_with"}
        BY <1>2, <4>1 DEF EvalCond, SaysCond
      <4>2. CASE c.op \notin {"contains", "starts_with"}
        BY <1>2, <2>1, <4>2 DEF EvalCond, SaysCond
      <4>3. QED
        BY <4>1, <4>2
    <3> HIDE DEF r, says
    <3>2. QED
      BY <3>1, NoText DEF r, says
  <2>2. CASE c.op = "is_empty"
    <3>1. r = Result(<<IsNull(f)>>, <<>>) /\ says = {{}}
      BY <1>2, <2>2 DEF EvalCond, SaysCond
    <3> HIDE DEF r, says, f
    <3>2. Comes(r, says, f)
      BY <3>1, NullsAre DEF Comes
    <3>3. QED
      BY <1>2, <3>2, ComesMeans DEF r, says
  <2>3. CASE c.op = "is_not_empty"
    <3>1. r = Result(<<IsNotNull(f)>>, <<>>) /\ says = {Docs}
      BY <1>2, <2>3 DEF EvalCond, SaysCond
    <3> HIDE DEF r, says, f
    <3>2. Comes(r, says, f)
      BY <3>1, NullsAre DEF Comes
    <3>3. QED
      BY <1>2, <3>2, ComesMeans DEF r, says
  <2>4. CASE c.op = "is"
    <3>1. r = Result(<<Is(f, c.value)>>, <<>>) /\ says = {{d \in Docs : c.value \in Values(d, f)}}
      BY <1>2, <2>4 DEF EvalCond, SaysCond
    <3> HIDE DEF r, says, f
    <3>2. Comes(r, says, f)
      BY <3>1, ValuesAre DEF Comes
    <3>3. QED
      BY <1>2, <3>2, ComesMeans DEF r, says
  <2>5. CASE c.op = "is_not"
    <3>1. r = Result(<<IsNot(f, c.value)>>, <<>>) /\ says = {{d \in Docs : c.value \notin Values(d, f)}}
      BY <1>2, <2>5 DEF EvalCond, SaysCond
    <3> HIDE DEF r, says, f
    <3>2. Comes(r, says, f)
      BY <3>1, ValuesAre DEF Comes
    <3>3. QED
      BY <1>2, <3>2, ComesMeans DEF r, says
  <2>6. CASE c.op = "gt" /\ c.value # Null
    <3>1. r = Result(<<AtLeast(f, c.value)>>, <<>>) /\ says = {From(c.value)}
      BY <1>2, <2>6 DEF EvalCond, SaysCond
    <3>2. Selected(AtLeast(f, c.value)) = From(c.value)
      BY BoundsAre
    <3> HIDE DEF r, says, f, From
    <3>3. Comes(r, says, f)
      BY <3>1, <3>2, BoundsAre DEF Comes
    <3>4. QED
      BY <1>2, <3>3, ComesMeans DEF r, says
  <2>7. CASE c.op = "lt" /\ c.value # Null
    <3>1. r = Result(<<AtMost(f, c.value)>>, <<>>) /\ says = {UpTo(c.value)}
      BY <1>2, <2>7 DEF EvalCond, SaysCond
    <3>2. Selected(AtMost(f, c.value)) = UpTo(c.value)
      BY BoundsAre
    <3> HIDE DEF r, says, f, UpTo
    <3>3. Comes(r, says, f)
      BY <3>1, <3>2, BoundsAre DEF Comes
    <3>4. QED
      BY <1>2, <3>3, ComesMeans DEF r, says
  <2>8. CASE c.op = "between" /\ Null \notin {c.value, c.valueTo}
    <3> DEFINE e == Paren(WithAnd(AtLeast(f, c.value), AtMost(f, c.valueTo)))
    <3>1. r = Result(<<e>>, <<>>) /\ says = {From(c.value) \cap UpTo(c.valueTo)}
      BY <1>2, <2>8 DEF EvalCond, SaysCond
    <3>2. Whole(e) /\ e.names \subseteq {f} \cup Flaws /\ Selected(e) = From(c.value) \cap UpTo(c.valueTo)
      BY BetweenIs
    <3> HIDE DEF r, says, f, From, UpTo, e
    <3>3. Comes(r, says, f)
      BY <3>1, <3>2 DEF Comes
    <3>4. QED
      BY <1>2, <3>3, ComesMeans DEF r, says
  <2>9. QED
    BY <2>1, <2>2, <2>3, <2>4, <2>5, <2>6, <2>7, <2>8
<1>3. QED
  BY <1>1, <1>2

\* Each of n results comes to what was said.
AllMean(i, results, says, n) ==
  DOMAIN results = 1 .. n /\ \A k \in 1 .. n : Means(i, results[k], says[k])

\* Texts for index i that select the parts.
TextsFor(exprs, i, parts) ==
  /\ \E T : exprs \in Seq(T)
  /\ \A k \in 1 .. Len(exprs) : IsText(exprs[k]) /\ exprs[k].names \subseteq Known(i)
  /\ parts = {Selected(exprs[k]) : k \in 1 .. Len(exprs)}

\* flat holds what all of seqs hold.
Flat(flat, seqs, T) ==
  /\ flat \in Seq(T)
  /\ \A x : (\E k \in 1 .. Len(flat) : flat[k] = x)
               <=> \E j \in 1 .. Len(seqs) : \E k \in 1 .. Len(seqs[j]) : seqs[j][k] = x

LEMMA FlattenedIs ==
  ASSUME NEW T, NEW seqs \in Seq(Seq(T))
  PROVE  Flat(FlattenSeq(seqs), seqs, T)
<1> DEFINE flat == FlattenSeq(seqs)
<1>1. /\ flat \in Seq(T)
      /\ \A x : (\E k \in 1 .. Len(flat) : flat[k] = x)
                   <=> \E j \in 1 .. Len(seqs) : \E k \in 1 .. Len(seqs[j]) : seqs[j][k] = x
  BY Flattened
<1> HIDE DEF flat
<1>2. Flat(flat, seqs, T)
  BY <1>1, Zenon DEF Flat
<1>3. QED
  BY <1>2 DEF flat

AllOf(says, n) == UNION {says[k] : k \in 1 .. n}

TextsOf(results) == FlattenSeq([k \in DOMAIN results |-> results[k].exprs])

\* The texts of the items are what the items say.
LEMMA ItemTexts ==
  ASSUME NEW i, NEW n \in Nat, NEW results, NEW says, AllMean(i, results, says, n)
  PROVE  TextsFor(TextsOf(results), i, AllOf(says, n))
<1> DEFINE seqs == [k \in DOMAIN results |-> results[k].exprs]
           exprs == FlattenSeq(seqs)
           T == {e \in {results[k].exprs[1] : k \in 1 .. n} : IsText(e) /\ e.names \subseteq Known(i)}
<1>1. DOMAIN results = 1 .. n /\ \A k \in 1 .. n : Means(i, results[k], says[k])
  BY DEF AllMean
<1>2. ASSUME NEW k \in 1 .. n
      PROVE  /\ seqs[k] \in Seq(T)
             /\ says[k] = {Selected(seqs[k][j]) : j \in 1 .. Len(seqs[k])}
  <2>1. seqs[k] = results[k].exprs /\ Means(i, results[k], says[k])
    BY <1>1
  <2> HIDE DEF seqs
  <2>2. CASE results[k].exprs = <<>> /\ says[k] = {}
    <3>1. Len(seqs[k]) = 0 /\ 1 .. 0 = {} /\ <<>> \in Seq(T)
      BY <2>1, <2>2
    <3>2. QED
      BY <2>1, <2>2, <3>1
  <2>3. CASE \E e : /\ results[k].exprs = <<e>> /\ IsText(e) /\ e.names \subseteq Known(i)
                    /\ says[k] = {Selected(e)}
    <3>1. PICK e : /\ results[k].exprs = <<e>> /\ IsText(e) /\ e.names \subseteq Known(i)
                   /\ says[k] = {Selected(e)}
      BY <2>3
    <3>2. results[k].exprs[1] = e
      BY <3>1
    <3>3. e \in T
      BY <3>1, <3>2
    <3>4. seqs[k] = <<e>> /\ <<e>> \in Seq(T) /\ Len(<<e>>) = 1 /\ <<e>>[1] = e
      BY <2>1, <3>1, <3>3
    <3>5. {Selected(seqs[k][j]) : j \in 1 .. Len(seqs[k])} = {Selected(e)}
      BY <3>4
    <3>6. QED
      BY <3>1, <3>4, <3>5
  <2>4. QED
    BY <2>1, <2>2, <2>3 DEF Means
<1>3. DOMAIN seqs = 1 .. n
  BY <1>1
<1>4. \A e \in T : IsText(e) /\ e.names \subseteq Known(i)
  OBVIOUS
<1> HIDE DEF T
<1>5. seqs \in Seq(Seq(T)) /\ Len(seqs) = n
  <2>1. seqs = [k \in 1 .. n |-> seqs[k]]
    BY <1>3
  <2> HIDE DEF seqs
  <2>2. QED
    BY <1>2, <2>1
<1> HIDE DEF seqs
<1>6. /\ exprs \in Seq(T)
      /\ \A x : (\E k \in 1 .. Len(exprs) : exprs[k] = x)
                  <=> \E j \in 1 .. n : \E k \in 1 .. Len(seqs[j]) : seqs[j][k] = x
  <2>1. /\ exprs \in Seq(T)
        /\ \A x : (\E k \in 1 .. Len(exprs) : exprs[k] = x)
                    <=> \E j \in 1 .. Len(seqs) : \E k \in 1 .. Len(seqs[j]) : seqs[j][k] = x
    <3>1. Flat(FlattenSeq(seqs), seqs, T)
      BY <1>5, FlattenedIs
    <3>2. QED
      BY <3>1, Zenon DEF Flat, exprs
  <2> HIDE DEF exprs
  <2>2. QED
    BY <1>5, <2>1
<1> HIDE DEF exprs
<1>7. \A k \in 1 .. Len(exprs) : exprs[k] \in T
  BY <1>6
<1>8. AllOf(says, n) = {Selected(exprs[k]) : k \in 1 .. Len(exprs)}
  <2>1. ASSUME NEW k \in 1 .. n, NEW x \in says[k] PROVE x \in {Selected(exprs[j]) : j \in 1 .. Len(exprs)}
    <3>1. PICK j \in 1 .. Len(seqs[k]) : x = Selected(seqs[k][j])
      BY <1>2, <2>1
    <3>2. PICK m \in 1 .. Len(exprs) : exprs[m] = seqs[k][j]
      BY <1>6
    <3>3. QED
      BY <3>1, <3>2
  <2>2. ASSUME NEW k \in 1 .. Len(exprs) PROVE \E j \in 1 .. n : Selected(exprs[k]) \in says[j]
    <3>1. PICK j \in 1 .. n : \E m \in 1 .. Len(seqs[j]) : seqs[j][m] = exprs[k]
      BY <1>6
    <3>2. PICK m \in 1 .. Len(seqs[j]) : seqs[j][m] = exprs[k]
      BY <3>1
    <3>3. Selected(exprs[k]) \in says[j]
      BY <1>2, <3>2
    <3>4. QED
      BY <3>3
  <2>3. QED
    BY <2>1, <2>2 DEF AllOf
<1>9. QED
  <2>1. TextsFor(exprs, i, AllOf(says, n))
    BY <1>4, <1>6, <1>7, <1>8 DEF TextsFor
  <2>2. QED
    BY <2>1, Zenon DEF exprs, seqs, TextsOf

\* An OR group offers all its texts.
LEMMA OrGroupIs ==
  ASSUME NEW i, NEW T, NEW texts \in Seq(T), texts # <<>>,
         \A k \in 1 .. Len(texts) : IsText(texts[k]) /\ texts[k].names \subseteq Known(i)
  PROVE  /\ IsText(OrGroup(texts)) /\ OrGroup(texts).names \subseteq Known(i)
         /\ Selected(OrGroup(texts)) = UNION {Selected(texts[k]) : k \in 1 .. Len(texts)}
<1> DEFINE j == Joined(WithOr, texts)
           g == Paren(j)
<1>1. Disjunction(j, texts, Len(texts))
  BY DisjunctionJoined
<1> HIDE DEF j
<1>2. Whole(g) /\ Selected(g) = Selected(j) /\ g.names = j.names
  BY <1>1, ParenIs DEF Disjunction
<1>3. OrGroup(texts) = g
  BY DEF OrGroup, j
<1> HIDE DEF g
<1>4. g.names \subseteq Known(i)
  BY <1>1, <1>2 DEF Disjunction
<1>5. Selected(g) = UNION {Selected(texts[k]) : k \in 1 .. Len(texts)}
  BY <1>1, <1>2, SelectedDocs DEF Disjunction
<1>6. QED
  BY <1>2, <1>3, <1>4, <1>5 DEF Whole

\* An AND group asks for all of them, those with an OR in parentheses.
LEMMA AndGroupIs ==
  ASSUME NEW i, NEW T, NEW texts \in Seq(T), texts # <<>>,
         \A k \in 1 .. Len(texts) : IsText(texts[k]) /\ texts[k].names \subseteq Known(i)
  PROVE  /\ IsText(AndGroup(texts)) /\ AndGroup(texts).names \subseteq Known(i)
         /\ Selected(AndGroup(texts)) = {d \in Docs : \A k \in 1 .. Len(texts) : d \in Selected(texts[k])}
<1> DEFINE n == Len(texts)
           wraps == [k \in DOMAIN texts |-> IF texts[k].or THEN Paren(texts[k]) ELSE texts[k]]
           j == Joined(WithAnd, wraps)
           W == {wraps[k] : k \in 1 .. n}
<1>1. n \in Nat \ {0} /\ DOMAIN texts = 1 .. n
  OBVIOUS
<1>2. ASSUME NEW k \in 1 .. n
      PROVE  /\ Whole(wraps[k]) /\ wraps[k].names = texts[k].names
             /\ Selected(wraps[k]) = Selected(texts[k])
  <2>1. wraps[k] = IF texts[k].or THEN Paren(texts[k]) ELSE texts[k]
    BY <1>1
  <2>2. IsText(texts[k])
    OBVIOUS
  <2> HIDE DEF wraps
  <2>3. CASE texts[k].or
    BY <2>1, <2>2, <2>3, ParenIs
  <2>4. CASE ~texts[k].or
    BY <2>1, <2>2, <2>4 DEF Whole, IsText
  <2>5. QED
    BY <2>3, <2>4
<1>3. wraps \in Seq(W) /\ Len(wraps) = n /\ wraps # <<>>
  <2>1. wraps \in [1 .. n -> W]
    BY <1>1
  <2> HIDE DEF wraps, W, n
  <2>2. QED
    BY <1>1, <2>1
<1> HIDE DEF W
<1>4. Conjunction(j, wraps, n)
  <2> HIDE DEF wraps, n
  <2>1. QED
    BY <1>2, <1>3, ConjunctionJoined
<1>5. AndGroup(texts) = j
  BY Zenon DEF AndGroup
<1> HIDE DEF j, wraps, n
<1>6. j.names \subseteq Known(i)
  <2>1. \A k \in 1 .. n : texts[k].names \subseteq Known(i)
    BY DEF n
  <2>2. QED
    BY <1>2, <1>4, <2>1 DEF Conjunction
<1>7. Selected(j) = {d \in Docs : \A k \in 1 .. n : d \in Selected(texts[k])}
  <2>1. \A d \in Docs : d \in Selected(j) <=> \A k \in 1 .. n : d \in Selected(texts[k])
    BY <1>2, <1>4 DEF Conjunction
  <2>2. QED
    BY <2>1, SelectedDocs
<1>8. QED
  BY <1>4, <1>5, <1>6, <1>7 DEF Conjunction, Whole, n

\* A group comes to what its items say.
LEMMA GroupMeans ==
  ASSUME NEW i, NEW op, NEW n \in Nat, NEW results, NEW says, AllMean(i, results, says, n)
  PROVE  Means(i, EvalGroup(op, results), SaysGroup(op, AllOf(says, n)))
<1> DEFINE exprs == TextsOf(results)
           words == FlattenSeq([k \in DOMAIN results |-> results[k].words])
           parts == AllOf(says, n)
           e == IF op = "OR" THEN OrGroup(exprs) ELSE AndGroup(exprs)
<1>1. /\ \E T : exprs \in Seq(T)
      /\ \A k \in 1 .. Len(exprs) : IsText(exprs[k]) /\ exprs[k].names \subseteq Known(i)
      /\ parts = {Selected(exprs[k]) : k \in 1 .. Len(exprs)}
  <2>1. TextsFor(TextsOf(results), i, AllOf(says, n))
    BY ItemTexts
  <2>2. TextsFor(exprs, i, parts)
    BY <2>1, Zenon
  <2> HIDE DEF exprs, parts
  <2>3. QED
    BY <2>2, Zenon DEF TextsFor
<1>2. EvalGroup(op, results) = Result(IF exprs = <<>> THEN <<>> ELSE <<e>>, words)
  <2>1. EvalGroup(op, results) =
          Result(IF exprs = <<>> THEN <<>> ELSE IF op = "OR" THEN <<OrGroup(exprs)>> ELSE <<AndGroup(exprs)>>, words)
    BY Zenon DEF EvalGroup, TextsOf
  <2> HIDE DEF exprs, words
  <2>2. QED
    BY <2>1
<1> HIDE DEF exprs, words, parts
<1>3. PICK T : exprs \in Seq(T)
  BY <1>1
<1>4. CASE exprs = <<>>
  <2>1. parts = {}
    BY <1>1, <1>4
  <2>2. SaysGroup(op, parts) = {}
    BY <2>1 DEF SaysGroup
  <2>3. QED
    BY <1>2, <1>4, <2>2, NoText DEF parts
<1>5. CASE exprs # <<>>
  <2>1. 1 \in 1 .. Len(exprs)
    BY <1>3, <1>5
  <2>2. parts # {}
    BY <1>1, <2>1
  <2>3. IsText(e) /\ e.names \subseteq Known(i) /\ SaysGroup(op, parts) = {Selected(e)}
    <3>1. CASE op = "OR"
      <4>1. IsText(e) /\ e.names \subseteq Known(i) /\ Selected(e) = UNION parts
        BY <1>1, <1>3, <1>5, <3>1, OrGroupIs
      <4>2. QED
        BY <2>2, <3>1, <4>1 DEF SaysGroup
    <3>2. CASE op # "OR"
      <4>1. /\ IsText(e) /\ e.names \subseteq Known(i)
            /\ Selected(e) = {d \in Docs : \A k \in 1 .. Len(exprs) : d \in Selected(exprs[k])}
        BY <1>1, <1>3, <1>5, <3>2, AndGroupIs
      <4>2. {d \in Docs : \A k \in 1 .. Len(exprs) : d \in Selected(exprs[k])}
              = {d \in Docs : \A part \in parts : d \in part}
        BY <1>1
      <4> HIDE DEF e
      <4>3. QED
        BY <2>2, <3>2, <4>1, <4>2 DEF SaysGroup
    <3>3. QED
      BY <3>1, <3>2
  <2>4. EvalGroup(op, results) = Result(<<e>>, words)
    BY <1>2, <1>5
  <2> HIDE DEF e
  <2>5. QED
    BY <2>3, <2>4, OneText DEF parts
<1>6. QED
  BY <1>4, <1>5

\* A tree comes to what it says, however its groups nest.
LEMMA TreeMeans ==
  ASSUME NEW i
  PROVE  \A node \in Nodes : Means(i, EvalNode(i, node), Says(i, node))
<1> DEFINE S == {h \in Nat : \A node \in Nodes : Height[node] < h => Means(i, EvalNode(i, node), Says(i, node))}
<1>1. \A node \in Nodes : Height[node] \in Nat
  BY TreesAssumption DEF Nodes
<1>2. 0 \in S
  BY <1>1
<1>3. ASSUME NEW h \in Nat, h \in S PROVE h + 1 \in S
  <2> SUFFICES ASSUME NEW node \in Nodes, Height[node] < h + 1
               PROVE  Means(i, EvalNode(i, node), Says(i, node))
    OBVIOUS
  <2>1. CASE node.t = "cond"
    <3>1. EvalNode(i, node) = EvalCond(i, node)
      BY <2>1, EvalNodeIs
    <3>2. Says(i, node) = SaysCond(i, node)
      BY <2>1, SaysIs
    <3>3. QED
      BY <3>1, <3>2, CondMeans
  <2>2. CASE node.t = "group"
    <3> DEFINE n == Len(node.items)
               results == [k \in DOMAIN node.items |-> EvalNode(i, node.items[k])]
               says == [k \in DOMAIN node.items |-> Says(i, node.items[k])]
    <3>1. n \in Nat /\ DOMAIN node.items = 1 .. n
      BY <2>2, ItemsBelow
    <3>2. ASSUME NEW k \in 1 .. n PROVE Means(i, EvalNode(i, node.items[k]), Says(i, node.items[k]))
      <4>1. node.items[k] \in Nodes /\ Height[node.items[k]] < Height[node]
        BY <2>2, <3>1, ItemsBelow
      <4>2. Height[node.items[k]] < h
        BY <1>1, <4>1
      <4>3. QED
        BY <1>3, <4>1, <4>2
    <3>3. \A k \in 1 .. n : results[k] = EvalNode(i, node.items[k]) /\ says[k] = Says(i, node.items[k])
      BY <3>1
    <3>4. DOMAIN results = 1 .. n
      BY <3>1
    <3>5. EvalNode(i, node) = EvalGroup(node.op, results)
      BY <2>2, EvalNodeIs, Zenon
    <3>6. Says(i, node) = SaysGroup(node.op, AllOf(says, n))
      <4>1. Says(i, node) = SaysGroup(node.op, UNION SaidBelow(i, node))
        BY <2>2, SaysIs
      <4> HIDE DEF says, n, results
      <4>2. SaidBelow(i, node) = {says[k] : k \in 1 .. n}
        BY <3>1, <3>3 DEF SaidBelow
      <4>3. QED
        BY <4>1, <4>2 DEF AllOf
    <3> HIDE DEF n, results, says
    <3>7. Means(i, EvalGroup(node.op, results), SaysGroup(node.op, AllOf(says, n)))
      <4>1. AllMean(i, results, says, n)
        BY <3>2, <3>3, <3>4 DEF AllMean
      <4>2. QED
        BY <3>1, <4>1, GroupMeans
    <3>8. QED
      BY <3>5, <3>6, <3>7
  <2>3. CASE node.t \notin {"cond", "group"}
    BY <2>3, EvalNodeIs, SaysIs, NoText
  <2>4. QED
    BY <2>1, <2>2, <2>3
<1> HIDE DEF S
<1>4. ASSUME NEW node \in Nodes PROVE Means(i, EvalNode(i, node), Says(i, node))
  <2>1. Height[node] + 1 \in Nat /\ Height[node] < Height[node] + 1
    BY <1>1
  <2>2. Height[node] + 1 \in S
    BY <1>2, <1>3, <2>1, Evaluating!Induction
  <2>3. QED
    BY <2>1, <2>2 DEF S
<1>5. QED
  BY <1>4

-----------------------------------------------------------------------------
(* Parameters *)

IsParam(p) ==
  /\ p = [kind |-> p.kind, attr |-> p.attr, values |-> p.values]
  /\ p.values \in Seq(Range(p.values)) \ {<<>>}

\* No later one of the first k is of its kind for its attribute.
LastOf(ps, k, j) == \A h \in j + 1 .. k : ~(ps[h].kind = ps[j].kind /\ ps[h].attr = ps[j].attr)
ValueOf(p) == IF p.kind = "is" THEN Range(p.values) ELSE Head(p.values)

\* For every attribute the last of the first k parameters of a kind.
Kept(f, kind, ps, k) ==
  /\ IsFiniteSet(DOMAIN f)
  /\ \A x : x \in DOMAIN f <=> \E j \in 1 .. k : ps[j].kind = kind /\ ps[j].attr = x /\ LastOf(ps, k, j)
  /\ \A j \in 1 .. k : ps[j].kind = kind /\ LastOf(ps, k, j) => f[ps[j].attr] = ValueOf(ps[j])
\* The values of all of them.
Added(f, ps, k) ==
  /\ IsFiniteSet(DOMAIN f)
  /\ \A x : x \in DOMAIN f <=> \E j \in 1 .. k : ps[j].kind = "not" /\ ps[j].attr = x
  /\ \A x \in DOMAIN f :
       /\ IsFiniteSet(f[x])
       /\ \A v : v \in f[x] <=> \E j \in 1 .. k : ps[j].kind = "not" /\ ps[j].attr = x /\ v \in Range(ps[j].values)
\* Their attributes.
Noted(S, kind, ps, k) ==
  /\ IsFiniteSet(S)
  /\ \A x : x \in S <=> \E j \in 1 .. k : ps[j].kind = kind /\ ps[j].attr = x

SpecFields(s) ==
  s = [equal |-> s.equal, not_equal |-> s.not_equal, least |-> s.least, most |-> s.most,
       empty |-> s.empty, not_empty |-> s.not_empty, words |-> s.words]
SpecOf(s, ps, k) ==
  /\ SpecFields(s)
  /\ Kept(s.equal, "is", ps, k) /\ Kept(s.least, "min", ps, k) /\ Kept(s.most, "max", ps, k)
  /\ Added(s.not_equal, ps, k)
  /\ Noted(s.empty, "empty", ps, k) /\ Noted(s.not_empty, "not_empty", ps, k)

\* g is f with v at x.
Puts(g, f, x, v) ==
  DOMAIN g = DOMAIN f \cup {x} /\ g[x] = v /\ \A y \in DOMAIN f : y # x => g[y] = f[y]

LEMMA PutIs == \A f, x, v : Puts(Put(f, x, v), f, x, v)
BY DEF Put, Puts

\* A parameter has finitely many values, and one at least.
LEMMA RangeFinite ==
  ASSUME NEW T, NEW s \in Seq(T)
  PROVE  IsFiniteSet(Range(s)) /\ (s # <<>> => Range(s) # {})
<1>1. IsFiniteSet(DOMAIN s)
  <2>1. Len(s) \in Nat /\ DOMAIN s = 1 .. Len(s)
    OBVIOUS
  <2>2. QED
    BY <2>1, FS_Interval
<1>2. IsFiniteSet({s[k] : k \in DOMAIN s})
  BY <1>1, FiniteImage
<1>3. s # <<>> => 1 \in DOMAIN s
  OBVIOUS
<1>4. QED
  BY <1>2, <1>3 DEF Range

\* The last parameter of its kind takes the place of the one before.
LEMMA KeptMore ==
  ASSUME NEW f, NEW kind, NEW ps, NEW k \in Nat, Kept(f, kind, ps, k)
  PROVE  /\ ps[k + 1].kind = kind => Kept(Put(f, ps[k + 1].attr, ValueOf(ps[k + 1])), kind, ps, k + 1)
         /\ ps[k + 1].kind # kind => Kept(f, kind, ps, k + 1)
<1> DEFINE p == ps[k + 1]
<1>1. /\ \A j \in 1 .. k + 1 : j \in 1 .. k \/ j = k + 1
      /\ \A j \in 1 .. k : j \in 1 .. k + 1
      /\ k + 1 \in 1 .. k + 1
  OBVIOUS
<1>2. /\ LastOf(ps, k + 1, k + 1)
      /\ \A j \in 1 .. k : LastOf(ps, k + 1, j) <=>
           LastOf(ps, k, j) /\ ~(p.kind = ps[j].kind /\ p.attr = ps[j].attr)
  <2>1. k + 1 + 1 .. k + 1 = {}
    OBVIOUS
  <2>2. \A j \in 1 .. k : (\A h \in j + 1 .. k + 1 : h \in j + 1 .. k \/ h = k + 1)
                         /\ (\A h \in j + 1 .. k : h \in j + 1 .. k + 1) /\ k + 1 \in j + 1 .. k + 1
    OBVIOUS
  <2>3. QED
    BY <2>1, <2>2 DEF LastOf
<1>3. /\ IsFiniteSet(DOMAIN f)
      /\ \A x : x \in DOMAIN f <=> \E j \in 1 .. k : ps[j].kind = kind /\ ps[j].attr = x /\ LastOf(ps, k, j)
      /\ \A j \in 1 .. k : ps[j].kind = kind /\ LastOf(ps, k, j) => f[ps[j].attr] = ValueOf(ps[j])
  BY DEF Kept
<1>4. CASE p.kind = kind
  <2> DEFINE x == p.attr
             v == ValueOf(p)
             g == Put(f, x, v)
  <2>1. DOMAIN g = DOMAIN f \cup {x} /\ g[x] = v /\ \A y \in DOMAIN f : y # x => g[y] = f[y]
    <3>1. Puts(g, f, x, v)
      BY PutIs, Zenon
    <3> HIDE DEF g
    <3>2. QED
      BY <3>1, Zenon DEF Puts
  <2> HIDE DEF g
  <2>2. IsFiniteSet(DOMAIN g)
    BY <1>3, <2>1, FS_AddElement
  <2>3. ASSUME NEW y
        PROVE  y \in DOMAIN g <=> \E j \in 1 .. k + 1 : ps[j].kind = kind /\ ps[j].attr = y /\ LastOf(ps, k + 1, j)
    <3>1. CASE y = x
      BY <1>1, <1>2, <1>4, <2>1, <3>1
    <3>2. CASE y # x
      BY <1>1, <1>2, <1>3, <2>1, <3>2
    <3>3. QED
      BY <3>1, <3>2
  <2>4. ASSUME NEW j \in 1 .. k + 1, ps[j].kind = kind, LastOf(ps, k + 1, j)
        PROVE  g[ps[j].attr] = ValueOf(ps[j])
    <3>1. CASE j = k + 1
      BY <2>1, <3>1
    <3>2. CASE j \in 1 .. k
      <4>1. LastOf(ps, k, j) /\ ps[j].attr # x
        BY <1>2, <1>4, <2>4, <3>2
      <4>2. QED
        BY <1>3, <2>1, <2>4, <3>2, <4>1
    <3>3. QED
      BY <1>1, <3>1, <3>2
  <2>5. Kept(g, kind, ps, k + 1)
    BY <2>2, <2>3, <2>4 DEF Kept
  <2>6. QED
    BY <1>4, <2>5 DEF g
<1>5. CASE p.kind # kind
  <2>1. \A j \in 1 .. k : ps[j].kind = kind => (LastOf(ps, k + 1, j) <=> LastOf(ps, k, j))
    BY <1>2, <1>5
  <2>2. Kept(f, kind, ps, k + 1)
    <3>1. \A x : x \in DOMAIN f <=> \E j \in 1 .. k + 1 : ps[j].kind = kind /\ ps[j].attr = x /\ LastOf(ps, k + 1, j)
      BY <1>1, <1>3, <1>5, <2>1
    <3>2. \A j \in 1 .. k + 1 : ps[j].kind = kind /\ LastOf(ps, k + 1, j) => f[ps[j].attr] = ValueOf(ps[j])
      BY <1>1, <1>3, <1>5, <2>1
    <3>3. QED
      BY <1>3, <3>1, <3>2 DEF Kept
  <2>3. QED
    BY <1>5, <2>2
<1>6. QED
  BY <1>4, <1>5

\* An exclusion adds up with those before.
LEMMA AddedMore ==
  ASSUME NEW f, NEW ps, NEW k \in Nat, Added(f, ps, k), IsParam(ps[k + 1])
  PROVE  /\ ps[k + 1].kind = "not" =>
              Added(Put(f, ps[k + 1].attr, Old(f, ps[k + 1].attr) \cup Range(ps[k + 1].values)), ps, k + 1)
         /\ ps[k + 1].kind # "not" => Added(f, ps, k + 1)
<1> DEFINE p == ps[k + 1]
<1>1. /\ \A j \in 1 .. k + 1 : j \in 1 .. k \/ j = k + 1
      /\ \A j \in 1 .. k : j \in 1 .. k + 1
      /\ k + 1 \in 1 .. k + 1
  OBVIOUS
<1>2. /\ IsFiniteSet(DOMAIN f)
      /\ \A x : x \in DOMAIN f <=> \E j \in 1 .. k : ps[j].kind = "not" /\ ps[j].attr = x
      /\ \A x \in DOMAIN f : IsFiniteSet(f[x])
      /\ \A x \in DOMAIN f : \A v :
           v \in f[x] <=> \E j \in 1 .. k : ps[j].kind = "not" /\ ps[j].attr = x /\ v \in Range(ps[j].values)
  BY DEF Added
<1>3. CASE p.kind = "not"
  <2> DEFINE x == p.attr
             old == Old(f, x)
             new == Range(p.values)
             g == Put(f, x, old \cup new)
  <2>1. DOMAIN g = DOMAIN f \cup {x} /\ g[x] = old \cup new /\ \A y \in DOMAIN f : y # x => g[y] = f[y]
    <3>1. Puts(g, f, x, old \cup new)
      BY PutIs, Zenon
    <3> HIDE DEF g
    <3>2. QED
      BY <3>1, Zenon DEF Puts
  <2>2. IsFiniteSet(old) /\ \A v : v \in old <=> \E j \in 1 .. k : ps[j].kind = "not" /\ ps[j].attr = x /\ v \in Range(ps[j].values)
    <3>1. CASE x \in DOMAIN f
      BY <1>2, <3>1 DEF Old
    <3>2. CASE x \notin DOMAIN f
      <4>1. old = {} /\ IsFiniteSet({})
        BY <3>2, FS_EmptySet DEF Old
      <4>2. QED
        BY <1>2, <3>2, <4>1
    <3>3. QED
      BY <3>1, <3>2
  <2>3. IsFiniteSet(new)
    BY RangeFinite DEF IsParam
  <2> HIDE DEF g, old, new
  <2>4. IsFiniteSet(old \cup new)
    BY <2>2, <2>3, FS_Union
  <2>5. IsFiniteSet(DOMAIN g)
    BY <1>2, <2>1, FS_AddElement
  <2>6. \A y : y \in DOMAIN g <=> \E j \in 1 .. k + 1 : ps[j].kind = "not" /\ ps[j].attr = y
    BY <1>1, <1>2, <1>3, <2>1
  <2>7. ASSUME NEW y \in DOMAIN g
        PROVE  /\ IsFiniteSet(g[y])
               /\ \A v : v \in g[y] <=> \E j \in 1 .. k + 1 : ps[j].kind = "not" /\ ps[j].attr = y /\ v \in Range(ps[j].values)
    <3>1. CASE y = x
      BY <1>1, <1>3, <2>1, <2>2, <2>4, <3>1 DEF new
    <3>2. CASE y # x
      <4>1. y \in DOMAIN f /\ g[y] = f[y]
        BY <2>1, <3>2
      <4>2. QED
        BY <1>1, <1>2, <3>2, <4>1
    <3>3. QED
      BY <3>1, <3>2
  <2>8. Added(g, ps, k + 1)
    BY <2>5, <2>6, <2>7 DEF Added
  <2>9. QED
    BY <1>3, <2>8 DEF g, old, new
<1>4. CASE p.kind # "not"
  <2>1. \A x : x \in DOMAIN f <=> \E j \in 1 .. k + 1 : ps[j].kind = "not" /\ ps[j].attr = x
    BY <1>1, <1>2, <1>4
  <2>2. \A x \in DOMAIN f : \A v :
           v \in f[x] <=> \E j \in 1 .. k + 1 : ps[j].kind = "not" /\ ps[j].attr = x /\ v \in Range(ps[j].values)
    BY <1>1, <1>2, <1>4
  <2>3. Added(f, ps, k + 1)
    BY <1>2, <2>1, <2>2 DEF Added
  <2>4. QED
    BY <1>4, <2>3
<1>5. QED
  BY <1>3, <1>4

LEMMA NotedMore ==
  ASSUME NEW S, NEW kind, NEW ps, NEW k \in Nat, Noted(S, kind, ps, k)
  PROVE  /\ ps[k + 1].kind = kind => Noted(S \cup {ps[k + 1].attr}, kind, ps, k + 1)
         /\ ps[k + 1].kind # kind => Noted(S, kind, ps, k + 1)
<1>1. /\ \A j \in 1 .. k + 1 : j \in 1 .. k \/ j = k + 1
      /\ \A j \in 1 .. k : j \in 1 .. k + 1
      /\ k + 1 \in 1 .. k + 1
  OBVIOUS
<1>2. IsFiniteSet(S) /\ IsFiniteSet(S \cup {ps[k + 1].attr})
  BY FS_AddElement DEF Noted
<1>3. QED
  BY <1>1, <1>2 DEF Noted

\* One parameter more.
LEMMA ParamMore ==
  ASSUME NEW s, NEW ps, NEW k \in Nat, SpecOf(s, ps, k), IsParam(ps[k + 1])
  PROVE  SpecOf(Param(s, ps[k + 1]), ps, k + 1)
<1> DEFINE p == ps[k + 1]
           attr == p.attr
           v == Head(p.values)
           r == Param(s, p)
           kinds == {"is", "not", "min", "max", "empty", "not_empty"}
<1>1. SpecFields(s)
  BY DEF SpecOf
<1>2. /\ Kept(s.equal, "is", ps, k) /\ Kept(s.least, "min", ps, k) /\ Kept(s.most, "max", ps, k)
      /\ Added(s.not_equal, ps, k)
      /\ Noted(s.empty, "empty", ps, k) /\ Noted(s.not_empty, "not_empty", ps, k)
  BY DEF SpecOf
<1>3. /\ p.kind # "is" => Kept(s.equal, "is", ps, k + 1)
      /\ p.kind # "min" => Kept(s.least, "min", ps, k + 1)
      /\ p.kind # "max" => Kept(s.most, "max", ps, k + 1)
  BY <1>2, KeptMore
<1>4. p.kind # "not" => Added(s.not_equal, ps, k + 1)
  BY <1>2, AddedMore
<1>5. /\ p.kind # "empty" => Noted(s.empty, "empty", ps, k + 1)
      /\ p.kind # "not_empty" => Noted(s.not_empty, "not_empty", ps, k + 1)
  BY <1>2, NotedMore
<1>6. /\ p.kind = "is" => Kept(Put(s.equal, attr, Range(p.values)), "is", ps, k + 1)
      /\ p.kind = "min" => Kept(Put(s.least, attr, v), "min", ps, k + 1)
      /\ p.kind = "max" => Kept(Put(s.most, attr, v), "max", ps, k + 1)
  <2>1. (p.kind = "is" => ValueOf(p) = Range(p.values)) /\ (p.kind # "is" => ValueOf(p) = v)
    BY DEF ValueOf
  <2>2. /\ p.kind = "is" => Kept(Put(s.equal, attr, ValueOf(p)), "is", ps, k + 1)
        /\ p.kind = "min" => Kept(Put(s.least, attr, ValueOf(p)), "min", ps, k + 1)
        /\ p.kind = "max" => Kept(Put(s.most, attr, ValueOf(p)), "max", ps, k + 1)
    BY <1>2, KeptMore
  <2> HIDE DEF p, v, attr
  <2>3. QED
    BY <2>1, <2>2
<1>7. p.kind = "not" => Added(Put(s.not_equal, attr, Old(s.not_equal, attr) \cup Range(p.values)), ps, k + 1)
  BY <1>2, AddedMore
<1>8. /\ p.kind = "empty" => Noted(s.empty \cup {attr}, "empty", ps, k + 1)
      /\ p.kind = "not_empty" => Noted(s.not_empty \cup {attr}, "not_empty", ps, k + 1)
  BY <1>2, NotedMore
<1>9. /\ p.kind = "is" => r = [s EXCEPT !.equal = Put(@, attr, Range(p.values))]
      /\ p.kind = "not" => r = [s EXCEPT !.not_equal = Put(@, attr, Old(@, attr) \cup Range(p.values))]
      /\ p.kind = "min" => r = [s EXCEPT !.least = Put(@, attr, v)]
      /\ p.kind = "max" => r = [s EXCEPT !.most = Put(@, attr, v)]
      /\ p.kind = "empty" => r = [s EXCEPT !.empty = @ \cup {attr}]
      /\ p.kind = "not_empty" => r = [s EXCEPT !.not_empty = @ \cup {attr}]
      /\ p.kind \notin kinds => r = [s EXCEPT !.words = Append(@, [op |-> p.kind, field |-> attr, value |-> v])]
  BY DEF Param
<1> HIDE DEF r, p, attr, v
<1>10. CASE p.kind = "is"
  <2>1. /\ SpecFields(r) /\ r.equal = Put(s.equal, attr, Range(p.values)) /\ r.not_equal = s.not_equal
        /\ r.least = s.least /\ r.most = s.most /\ r.empty = s.empty /\ r.not_empty = s.not_empty
    BY <1>1, <1>9, <1>10 DEF SpecFields
  <2>2. QED
    BY <1>3, <1>4, <1>5, <1>6, <1>10, <2>1 DEF SpecOf, r, p
<1>11. CASE p.kind = "not"
  <2>1. /\ SpecFields(r) /\ r.not_equal = Put(s.not_equal, attr, Old(s.not_equal, attr) \cup Range(p.values))
        /\ r.equal = s.equal
        /\ r.least = s.least /\ r.most = s.most /\ r.empty = s.empty /\ r.not_empty = s.not_empty
    BY <1>1, <1>9, <1>11 DEF SpecFields
  <2>2. QED
    BY <1>3, <1>7, <1>5, <1>11, <2>1 DEF SpecOf, r, p
<1>12. CASE p.kind = "min"
  <2>1. /\ SpecFields(r) /\ r.least = Put(s.least, attr, v) /\ r.not_equal = s.not_equal
        /\ r.equal = s.equal /\ r.most = s.most /\ r.empty = s.empty /\ r.not_empty = s.not_empty
    BY <1>1, <1>9, <1>12 DEF SpecFields
  <2>2. QED
    BY <1>3, <1>4, <1>5, <1>6, <1>12, <2>1 DEF SpecOf, r, p
<1>13. CASE p.kind = "max"
  <2>1. /\ SpecFields(r) /\ r.most = Put(s.most, attr, v) /\ r.not_equal = s.not_equal
        /\ r.equal = s.equal /\ r.least = s.least /\ r.empty = s.empty /\ r.not_empty = s.not_empty
    BY <1>1, <1>9, <1>13 DEF SpecFields
  <2>2. QED
    BY <1>3, <1>4, <1>5, <1>6, <1>13, <2>1 DEF SpecOf, r, p
<1>14. CASE p.kind = "empty"
  <2>1. /\ SpecFields(r) /\ r.empty = s.empty \cup {attr} /\ r.not_equal = s.not_equal
        /\ r.equal = s.equal /\ r.least = s.least /\ r.most = s.most /\ r.not_empty = s.not_empty
    BY <1>1, <1>9, <1>14 DEF SpecFields
  <2>2. QED
    BY <1>3, <1>4, <1>5, <1>8, <1>14, <2>1 DEF SpecOf, r, p
<1>15. CASE p.kind = "not_empty"
  <2>1. /\ SpecFields(r) /\ r.not_empty = s.not_empty \cup {attr} /\ r.not_equal = s.not_equal
        /\ r.equal = s.equal /\ r.least = s.least /\ r.most = s.most /\ r.empty = s.empty
    BY <1>1, <1>9, <1>15 DEF SpecFields
  <2>2. QED
    BY <1>3, <1>4, <1>5, <1>8, <1>15, <2>1 DEF SpecOf, r, p
<1>16. CASE p.kind \notin kinds
  <2>1. /\ SpecFields(r) /\ r.not_empty = s.not_empty /\ r.not_equal = s.not_equal
        /\ r.equal = s.equal /\ r.least = s.least /\ r.most = s.most /\ r.empty = s.empty
    BY <1>1, <1>9, <1>16 DEF SpecFields
  <2>2. QED
    BY <1>3, <1>4, <1>5, <1>16, <2>1 DEF SpecOf, r, p
<1>17. QED
  BY <1>10, <1>11, <1>12, <1>13, <1>14, <1>15, <1>16

LEMMA FoldsParam ==
  \A base, seq : FoldLeft(Param, base, seq) = Adding!Folded(base, seq)
BY Zenon DEF FoldLeft, MapThenFoldSet, Adding!Folded, Adding!FoldLeft, Adding!MapThenFoldSet,
             Max, Adding!Max

LEMMA NoSpecIs == ASSUME NEW ps PROVE SpecOf(NoSpec, ps, 0)
<1>1. 1 .. 0 = {} /\ IsFiniteSet({})
  BY FS_EmptySet
<1>2. DOMAIN <<>> = {}
  OBVIOUS
<1>3. Kept(<<>>, "is", ps, 0) /\ Kept(<<>>, "min", ps, 0) /\ Kept(<<>>, "max", ps, 0)
  BY <1>1, <1>2 DEF Kept
<1>4. Added(<<>>, ps, 0)
  BY <1>1, <1>2 DEF Added
<1>5. Noted({}, "empty", ps, 0) /\ Noted({}, "not_empty", ps, 0)
  BY <1>1 DEF Noted
<1>6. SpecFields(NoSpec) /\ NoSpec.equal = <<>> /\ NoSpec.not_equal = <<>> /\ NoSpec.least = <<>>
      /\ NoSpec.most = <<>> /\ NoSpec.empty = {} /\ NoSpec.not_empty = {}
  BY DEF NoSpec, SpecFields
<1>7. QED
  BY <1>3, <1>4, <1>5, <1>6 DEF SpecOf

\* What a request's parameters add up to.
LEMMA ParamsAddUp ==
  ASSUME NEW T, NEW ps \in Seq(T), \A k \in 1 .. Len(ps) : IsParam(ps[k])
  PROVE  SpecOf(FoldLeft(Param, NoSpec, ps), ps, Len(ps))
<1> DEFINE n == Len(ps)
<1>1. n \in Nat /\ DOMAIN ps = 1 .. n
  OBVIOUS
<1> HIDE DEF n
<1>2. PICK c : Adding!Makes(c, NoSpec, ps, n)
  BY <1>1, Adding!FoldChain
<1>3. /\ c[0] = NoSpec /\ FoldLeft(Param, NoSpec, ps) = c[n]
      /\ \A i \in 1 .. n : c[i] = Param(c[i - 1], ps[i])
  BY <1>2, FoldsParam, Zenon DEF Adding!Makes
<1> DEFINE S == {k \in Nat : k <= n => SpecOf(c[k], ps, k)}
<1>4. 0 \in S
  BY <1>3, NoSpecIs
<1>5. ASSUME NEW k \in Nat, k \in S PROVE k + 1 \in S
  <2> SUFFICES ASSUME k + 1 <= n PROVE SpecOf(c[k + 1], ps, k + 1)
    OBVIOUS
  <2>1. k + 1 \in 1 .. n /\ (k + 1) - 1 = k /\ k + 1 \in Nat /\ k <= n
    BY <1>1
  <2>2. c[k + 1] = Param(c[k], ps[k + 1])
    BY <1>3, <2>1
  <2>3. SpecOf(c[k], ps, k)
    BY <1>5, <2>1
  <2>4. IsParam(ps[k + 1])
    BY <2>1 DEF n
  <2>5. QED
    BY <2>2, <2>3, <2>4, ParamMore
<1> HIDE DEF S
<1>6. n \in S
  BY <1>1, <1>4, <1>5, Adding!Induction
<1>7. QED
  BY <1>1, <1>3, <1>6 DEF S, n

-----------------------------------------------------------------------------
(* Parts of a filter *)

\* Parts that together select S, and name only what is in names.
Asks(parts, names, S) ==
  /\ IsFiniteSet(parts)
  /\ \A p \in parts : Whole(p) /\ p.names \subseteq names
  /\ \A d \in Docs : d \in S <=> \A p \in parts : d \in Selected(p)

LEMMA AsksNothing == ASSUME NEW names PROVE Asks({}, names, Docs)
BY FS_EmptySet DEF Asks

LEMMA AsksOne ==
  ASSUME NEW p, NEW names, Whole(p), p.names \subseteq names
  PROVE  Asks({p}, names, Selected(p))
<1>1. IsFiniteSet({p})
  BY FS_Singleton
<1>2. QED
  BY <1>1 DEF Asks

\* Parts together ask for both.
LEMMA AsksBoth ==
  ASSUME NEW P, NEW Q, NEW names, NEW S, NEW T, Asks(P, names, S), Asks(Q, names, T)
  PROVE  Asks(P \cup Q, names, S \cap T)
<1>1. IsFiniteSet(P \cup Q)
  BY FS_Union DEF Asks
<1>2. \A p \in P \cup Q : Whole(p) /\ p.names \subseteq names
  BY DEF Asks
<1>3. \A d \in Docs : d \in S \cap T <=> \A p \in P \cup Q : d \in Selected(p)
  BY DEF Asks
<1>4. QED
  BY <1>1, <1>2, <1>3 DEF Asks

\* A part for each of finitely many names.
LEMMA AsksEach ==
  ASSUME NEW A, IsFiniteSet(A), NEW g, NEW names, NEW T,
         \A a \in A : Whole(g[a]) /\ g[a].names \subseteq names /\ Selected(g[a]) = T[a]
  PROVE  Asks({g[a] : a \in A}, names, {d \in Docs : \A a \in A : d \in T[a]})
<1> DEFINE P == {g[a] : a \in A}
           S == {d \in Docs : \A a \in A : d \in T[a]}
<1>1. IsFiniteSet(P)
  BY FiniteImage
<1>2. \A p \in P : Whole(p) /\ p.names \subseteq names
  OBVIOUS
<1>3. \A d \in Docs : d \in S <=> \A p \in P : d \in Selected(p)
  OBVIOUS
<1> HIDE DEF P, S
<1>4. Asks(P, names, S)
  BY <1>1, <1>2, <1>3 DEF Asks
<1>5. QED
  BY <1>4 DEF P, S

\* Any of the values.
LEMMA AnyOfIs ==
  ASSUME NEW attr, NEW values, IsFiniteSet(values), values # {}
  PROVE  /\ Whole(AnyOf(attr, values)) /\ AnyOf(attr, values).names \subseteq {attr} \cup Flaws
         /\ Selected(AnyOf(attr, values)) = {d \in Docs : Values(d, attr) \cap values # {}}
<1> DEFINE is == [v \in values |-> Is(attr, v)]
           P == {Is(attr, v) : v \in values}
           s == SetToSeq(P)
           j == Joined(WithOr, s)
           n == Len(s)
<1>1. ASSUME NEW v \in values
      PROVE  /\ Whole(Is(attr, v)) /\ Is(attr, v).names \subseteq {attr} \cup Flaws
             /\ Selected(Is(attr, v)) = {d \in Docs : v \in Values(d, attr)}
  BY ValuesAre
<1>2. IsFiniteSet(P)
  <2>1. IsFiniteSet({is[v] : v \in values})
    BY FiniteImage
  <2>2. P = {is[v] : v \in values}
    OBVIOUS
  <2>3. QED
    BY <2>1, <2>2
<1>3. P # {} /\ \A p : p \in P <=> \E v \in values : p = Is(attr, v)
  OBVIOUS
<1>4. AnyOf(attr, values) = Paren(j)
  BY Zenon DEF AnyOf
<1> HIDE DEF P
<1>5. s \in Seq(P) /\ \A p : p \in P <=> \E k \in 1 .. n : s[k] = p
  BY <1>2, SeqOfSet
<1> HIDE DEF s
<1>6. s # <<>> /\ n \in Nat
  <2>1. PICK k \in 1 .. n : s[k] \in P
    BY <1>3, <1>5
  <2>2. QED
    BY <1>5, <2>1
<1> HIDE DEF n
<1>7. \A k \in 1 .. n : \E v \in values : s[k] = Is(attr, v)
  BY <1>3, <1>5
<1>8. \A v \in values : \E k \in 1 .. n : s[k] = Is(attr, v)
  BY <1>3, <1>5
<1>9. \A k \in 1 .. n : IsText(s[k]) /\ s[k].names \subseteq {attr} \cup Flaws
  BY <1>1, <1>7 DEF Whole
<1>10. Disjunction(j, s, n)
  <2>1. \A k \in 1 .. Len(s) : IsText(s[k])
    BY <1>9 DEF n
  <2>2. QED
    BY <1>5, <1>6, <2>1, DisjunctionJoined DEF n
<1> HIDE DEF j
<1>11. IsText(j)
  BY <1>10 DEF Disjunction
<1>12. j.names \subseteq {attr} \cup Flaws
  <2>1. \A x : x \in j.names <=> \E k \in 1 .. n : x \in s[k].names
    BY <1>10 DEF Disjunction
  <2>2. QED
    BY <1>9, <2>1
<1>13. Selected(j) = {d \in Docs : Values(d, attr) \cap values # {}}
  <2>1. Selected(j) \subseteq Docs
    BY SelectedDocs
  <2>2. ASSUME NEW d \in Docs PROVE d \in Selected(j) <=> Values(d, attr) \cap values # {}
    <3>1. d \in Selected(j) <=> \E k \in 1 .. n : d \in Selected(s[k])
      BY <1>10 DEF Disjunction
    <3>2. ASSUME NEW k \in 1 .. n, d \in Selected(s[k]) PROVE Values(d, attr) \cap values # {}
      <4>1. PICK v \in values : s[k] = Is(attr, v)
        BY <1>7
      <4>2. QED
        BY <1>1, <3>2, <4>1
    <3>3. ASSUME NEW v \in values, v \in Values(d, attr) PROVE \E k \in 1 .. n : d \in Selected(s[k])
      <4>1. PICK k \in 1 .. n : s[k] = Is(attr, v)
        BY <1>8
      <4>2. QED
        BY <1>1, <3>3, <4>1
    <3>4. QED
      BY <3>1, <3>2, <3>3
  <2>3. QED
    BY <2>1, <2>2
<1>14. Whole(Paren(j)) /\ Selected(Paren(j)) = Selected(j) /\ Paren(j).names = j.names
  BY <1>11, ParenIs
<1>15. QED
  BY <1>4, <1>12, <1>13, <1>14

\* All parts, one after the other.
LEMMA FilterOfIs ==
  ASSUME NEW f, NEW names, NEW S \in SUBSET Docs, Asks(MeilisearchFilter(f), names, S)
  PROVE  Selected(FilterOf(f)) = S /\ FilterOf(f).names \subseteq names
<1> DEFINE P == MeilisearchFilter(f)
           s == SetToSeq(P)
           j == Joined(WithAnd, s)
           n == Len(s)
<1>1. /\ IsFiniteSet(P) /\ \A p \in P : Whole(p) /\ p.names \subseteq names
      /\ \A d \in Docs : d \in S <=> \A p \in P : d \in Selected(p)
  BY DEF Asks
<1>2. FilterOf(f) = IF P = {} THEN NoFilter ELSE j
  BY Zenon DEF FilterOf
<1> HIDE DEF P
<1>3. CASE P = {}
  <2>1. NoFilter.names = {} /\ NoFilter.alts = Atom("none", Docs, {}).alts
    BY DEF NoFilter, Atom
  <2>2. Selected(NoFilter) = Selected(Atom("none", Docs, {}))
    BY <2>1, Zenon DEF Selected
  <2>3. Selected(Atom("none", Docs, {})) = Docs
    <3>1. Docs \in SUBSET Docs
      OBVIOUS
    <3>2. QED
      BY <3>1, AtomIs
  <2>4. S = Docs
    BY <1>1, <1>3
  <2>5. QED
    BY <1>2, <1>3, <2>1, <2>2, <2>3, <2>4
<1>4. CASE P # {}
  <2>1. s \in Seq(P) /\ \A p : p \in P <=> \E k \in 1 .. n : s[k] = p
    BY <1>1, SeqOfSet
  <2> HIDE DEF s
  <2>2. s # <<>> /\ n \in Nat
    <3>1. PICK k \in 1 .. n : s[k] \in P
      BY <1>4, <2>1
    <3>2. QED
      BY <2>1, <3>1
  <2>3. \A k \in 1 .. n : Whole(s[k]) /\ s[k].names \subseteq names
    BY <1>1, <2>1
  <2>4. Conjunction(j, s, n)
    BY <2>1, <2>2, <2>3, ConjunctionJoined
  <2> HIDE DEF j, n
  <2>5. j.names \subseteq names
    BY <2>3, <2>4 DEF Conjunction
  <2>6. \A d \in Docs : d \in Selected(j) <=> \A p \in P : d \in Selected(p)
    BY <2>1, <2>4 DEF Conjunction
  <2>7. Selected(j) = S
    BY <1>1, <2>6, SelectedDocs
  <2>8. QED
    BY <1>2, <1>4, <2>5, <2>7
<1>5. QED
  BY <1>3, <1>4

\* The parts of what a filter asks for, each with what it selects.
LEMMA EqualParts ==
  ASSUME NEW f, NEW names, IsFiniteSet(DOMAIN f), DOMAIN f \cup Flaws \subseteq names,
         \A x \in DOMAIN f : IsFiniteSet(f[x]) /\ f[x] # {}
  PROVE  Asks({AnyOf(x, f[x]) : x \in DOMAIN f}, names,
              {d \in Docs : \A x \in DOMAIN f : Values(d, x) \cap f[x] # {}})
<1> DEFINE A == DOMAIN f
           g == [x \in A |-> AnyOf(x, f[x])]
           T == [x \in A |-> {d \in Docs : Values(d, x) \cap f[x] # {}}]
<1>1. \A x \in A : Whole(g[x]) /\ g[x].names \subseteq names /\ Selected(g[x]) = T[x]
  BY AnyOfIs
<1>2. {AnyOf(x, f[x]) : x \in A} = {g[x] : x \in A}
  OBVIOUS
<1>3. {d \in Docs : \A x \in A : Values(d, x) \cap f[x] # {}} = {d \in Docs : \A x \in A : d \in T[x]}
  OBVIOUS
<1> HIDE DEF g, T, A
<1>4. Asks({g[x] : x \in A}, names, {d \in Docs : \A x \in A : d \in T[x]})
  BY <1>1, AsksEach DEF A
<1>5. QED
  BY <1>2, <1>3, <1>4 DEF A

LEMMA NotEqualParts ==
  ASSUME NEW f, NEW names, IsFiniteSet(DOMAIN f), DOMAIN f \cup Flaws \subseteq names,
         \A x \in DOMAIN f : IsFiniteSet(f[x])
  PROVE  Asks(UNION {{IsNot(x, v) : v \in f[x]} : x \in DOMAIN f}, names,
              {d \in Docs : \A x \in DOMAIN f : Values(d, x) \cap f[x] = {}})
<1> DEFINE A == DOMAIN f
           g == [x \in A |-> {IsNot(x, v) : v \in f[x]}]
           P == UNION {g[x] : x \in A}
           S == {d \in Docs : \A x \in DOMAIN f : Values(d, x) \cap f[x] = {}}
<1>1. \A x, v : /\ Whole(IsNot(x, v)) /\ IsNot(x, v).names \subseteq {x} \cup Flaws
                /\ Selected(IsNot(x, v)) = {d \in Docs : v \notin Values(d, x)}
  BY ValuesAre
<1>2. ASSUME NEW x \in A PROVE IsFiniteSet(g[x])
  <2> DEFINE is == [v \in f[x] |-> IsNot(x, v)]
  <2>1. IsFiniteSet({is[v] : v \in f[x]})
    BY FiniteImage
  <2>2. g[x] = {is[v] : v \in f[x]}
    OBVIOUS
  <2>3. QED
    BY <2>1, <2>2
<1>3. \A p : p \in P <=> \E x \in A : \E v \in f[x] : p = IsNot(x, v)
  OBVIOUS
<1>4. UNION {{IsNot(x, v) : v \in f[x]} : x \in DOMAIN f} = P
  OBVIOUS
<1> HIDE DEF g
<1>5. IsFiniteSet(P)
  <2>1. IsFiniteSet({g[x] : x \in A})
    BY FiniteImage
  <2>2. \A B \in {g[x] : x \in A} : IsFiniteSet(B)
    BY <1>2
  <2>3. QED
    BY <2>1, <2>2, FS_UNION
<1> HIDE DEF P
<1>6. \A p \in P : Whole(p) /\ p.names \subseteq names
  BY <1>1, <1>3
<1>7. \A d \in Docs : d \in S <=> \A p \in P : d \in Selected(p)
  BY <1>1, <1>3
<1> HIDE DEF S
<1>8. Asks(P, names, S)
  BY <1>5, <1>6, <1>7 DEF Asks
<1>9. QED
  BY <1>4, <1>8 DEF S

LEMMA LeastParts ==
  ASSUME NEW f, NEW A, NEW names, IsFiniteSet(A), A \cup Flaws \subseteq names
  PROVE  Asks({AtLeast(x, f[x]) : x \in A}, names,
              {d \in Docs : \A x \in A : \E v \in Values(d, x) : v >= f[x]})
<1> DEFINE g == [x \in A |-> AtLeast(x, f[x])]
           T == [x \in A |-> {d \in Docs : \E v \in Values(d, x) : v >= f[x]}]
<1>1. \A x \in A : Whole(g[x]) /\ g[x].names \subseteq names /\ Selected(g[x]) = T[x]
  BY BoundsAre
<1>2. {AtLeast(x, f[x]) : x \in A} = {g[x] : x \in A}
  OBVIOUS
<1>3. {d \in Docs : \A x \in A : \E v \in Values(d, x) : v >= f[x]} = {d \in Docs : \A x \in A : d \in T[x]}
  OBVIOUS
<1> HIDE DEF g, T
<1>4. Asks({g[x] : x \in A}, names, {d \in Docs : \A x \in A : d \in T[x]})
  BY <1>1, AsksEach
<1>5. QED
  BY <1>2, <1>3, <1>4

LEMMA MostParts ==
  ASSUME NEW f, NEW A, NEW names, IsFiniteSet(A), A \cup Flaws \subseteq names
  PROVE  Asks({AtMost(x, f[x]) : x \in A}, names,
              {d \in Docs : \A x \in A : \E v \in Values(d, x) : v <= f[x]})
<1> DEFINE g == [x \in A |-> AtMost(x, f[x])]
           T == [x \in A |-> {d \in Docs : \E v \in Values(d, x) : v <= f[x]}]
<1>1. \A x \in A : Whole(g[x]) /\ g[x].names \subseteq names /\ Selected(g[x]) = T[x]
  BY BoundsAre
<1>2. {AtMost(x, f[x]) : x \in A} = {g[x] : x \in A}
  OBVIOUS
<1>3. {d \in Docs : \A x \in A : \E v \in Values(d, x) : v <= f[x]} = {d \in Docs : \A x \in A : d \in T[x]}
  OBVIOUS
<1> HIDE DEF g, T
<1>4. Asks({g[x] : x \in A}, names, {d \in Docs : \A x \in A : d \in T[x]})
  BY <1>1, AsksEach
<1>5. QED
  BY <1>2, <1>3, <1>4

LEMMA NullParts ==
  ASSUME NEW A, NEW names, IsFiniteSet(A), A \subseteq names
  PROVE  /\ Asks({IsNull(x) : x \in A}, names, {d \in Docs : A = {}})
         /\ Asks({IsNotNull(x) : x \in A}, names, Docs)
<1> DEFINE g == [x \in A |-> IsNull(x)]
           h == [x \in A |-> IsNotNull(x)]
           T == [x \in A |-> {}]
           U == [x \in A |-> Docs]
<1>1. /\ \A x \in A : Whole(g[x]) /\ g[x].names \subseteq names /\ Selected(g[x]) = T[x]
      /\ \A x \in A : Whole(h[x]) /\ h[x].names \subseteq names /\ Selected(h[x]) = U[x]
  BY NullsAre
<1>2. {IsNull(x) : x \in A} = {g[x] : x \in A} /\ {IsNotNull(x) : x \in A} = {h[x] : x \in A}
  OBVIOUS
<1>3. /\ {d \in Docs : A = {}} = {d \in Docs : \A x \in A : d \in T[x]}
      /\ Docs = {d \in Docs : \A x \in A : d \in U[x]}
  OBVIOUS
<1> HIDE DEF g, h, T, U
<1>4. /\ Asks({g[x] : x \in A}, names, {d \in Docs : \A x \in A : d \in T[x]})
      /\ Asks({h[x] : x \in A}, names, {d \in Docs : \A x \in A : d \in U[x]})
  BY <1>1, AsksEach
<1>5. QED
  BY <1>2, <1>3, <1>4

\* What the bounds of dates ask for.
DatesSelect(dates) ==
  {d \in Docs :
     /\ dates.least # Null => \E y \in Values(d, "date_min") : y >= dates.least
     /\ dates.most # Null => \E y \in Values(d, "date_max") : y <= dates.most
     /\ dates.least # Null /\ dates.diff # Null /\ dates.precision = "at most" =>
          \E y \in Values(d, "date_max") : y <= dates.least + dates.diff
     /\ dates.least # Null /\ dates.diff # Null /\ dates.precision = "at least" =>
          \E y \in Values(d, "date_max") : y >= dates.least + dates.diff}

\* The bounds of dates.
LEMMA DateParts ==
  ASSUME NEW dates, NEW names, Flaws \subseteq names,
         dates.least # Null \/ dates.most # Null => {"date_min", "date_max"} \subseteq names
  PROVE  Asks(PartsOfDates(dates), names, DatesSelect(dates))
<1> DEFINE P == {AtLeast("date_min", n) : n \in {dates.least} \ {Null}}
           Q == {AtMost("date_max", n) : n \in {dates.most} \ {Null}}
           R == DateDiff(dates)
           end == dates.least + dates.diff
           counts == dates.least # Null /\ dates.diff # Null
           S == {d \in Docs : dates.least # Null => \E y \in Values(d, "date_min") : y >= dates.least}
           T == {d \in Docs : dates.most # Null => \E y \in Values(d, "date_max") : y <= dates.most}
           U == {d \in Docs :
                   /\ counts /\ dates.precision = "at most" => \E y \in Values(d, "date_max") : y <= end
                   /\ counts /\ dates.precision = "at least" => \E y \in Values(d, "date_max") : y >= end}
<1>1. \A x, n : /\ Whole(AtLeast(x, n)) /\ AtLeast(x, n).names \subseteq {x} \cup Flaws
                /\ Selected(AtLeast(x, n)) = {d \in Docs : \E v \in Values(d, x) : v >= n}
  BY BoundsAre
<1>2. \A x, n : /\ Whole(AtMost(x, n)) /\ AtMost(x, n).names \subseteq {x} \cup Flaws
                /\ Selected(AtMost(x, n)) = {d \in Docs : \E v \in Values(d, x) : v <= n}
  BY BoundsAre
<1>3. Asks(P, names, S)
  <2>1. CASE dates.least = Null
    <3>1. P = {} /\ S = Docs
      BY <2>1
    <3> HIDE DEF P, S
    <3>2. QED
      BY <3>1, AsksNothing
  <2>2. CASE dates.least # Null
    <3> DEFINE p == AtLeast("date_min", dates.least)
    <3>1. P = {p} /\ S = {d \in Docs : \E y \in Values(d, "date_min") : y >= dates.least}
      BY <2>2
    <3>2. Whole(p) /\ p.names \subseteq names /\ Selected(p) = S
      BY <1>1, <2>2, <3>1
    <3> HIDE DEF P, S, p
    <3>3. QED
      BY <3>1, <3>2, AsksOne
  <2>3. QED
    BY <2>1, <2>2
<1>4. Asks(Q, names, T)
  <2>1. CASE dates.most = Null
    <3>1. Q = {} /\ T = Docs
      BY <2>1
    <3> HIDE DEF Q, T
    <3>2. QED
      BY <3>1, AsksNothing
  <2>2. CASE dates.most # Null
    <3> DEFINE p == AtMost("date_max", dates.most)
    <3>1. Q = {p} /\ T = {d \in Docs : \E y \in Values(d, "date_max") : y <= dates.most}
      BY <2>2
    <3>2. Whole(p) /\ p.names \subseteq names /\ Selected(p) = T
      BY <1>2, <2>2, <3>1
    <3> HIDE DEF Q, T, p
    <3>3. QED
      BY <3>1, <3>2, AsksOne
  <2>3. QED
    BY <2>1, <2>2
<1>5. Asks(R, names, U)
  <2>1. CASE ~(counts /\ dates.precision \in {"at most", "at least"})
    <3>1. R = {}
      BY <2>1 DEF DateDiff
    <3>2. U = Docs
      <4> HIDE DEF end, counts
      <4>1. QED
        BY <2>1
    <3> HIDE DEF R, U
    <3>3. QED
      BY <3>1, <3>2, AsksNothing
  <2>2. CASE counts /\ dates.precision = "at most"
    <3> DEFINE p == AtMost("date_max", end)
    <3>1. R = {p}
      BY <2>2 DEF DateDiff
    <3>2. U = {d \in Docs : \E y \in Values(d, "date_max") : y <= end}
      <4> HIDE DEF end, counts
      <4>1. QED
        BY <2>2
    <3>3. {"date_max"} \subseteq names
      BY <2>2
    <3> HIDE DEF R, U, end, counts
    <3>4. Whole(p) /\ p.names \subseteq names /\ Selected(p) = U
      BY <1>2, <3>2, <3>3
    <3> HIDE DEF p
    <3>5. QED
      BY <3>1, <3>4, AsksOne
  <2>3. CASE counts /\ dates.precision = "at least"
    <3> DEFINE p == AtLeast("date_max", end)
    <3>1. R = {p}
      BY <2>3 DEF DateDiff
    <3>2. U = {d \in Docs : \E y \in Values(d, "date_max") : y >= end}
      <4> HIDE DEF end, counts
      <4>1. QED
        BY <2>3
    <3>3. {"date_max"} \subseteq names
      BY <2>3
    <3> HIDE DEF R, U, end, counts
    <3>4. Whole(p) /\ p.names \subseteq names /\ Selected(p) = U
      BY <1>1, <3>2, <3>3
    <3> HIDE DEF p
    <3>5. QED
      BY <3>1, <3>4, AsksOne
  <2>4. QED
    BY <2>1, <2>2, <2>3
<1>6. PartsOfDates(dates) = P \cup Q \cup R
  BY Zenon DEF PartsOfDates
<1>7. DatesSelect(dates) = S \cap T \cap U
  BY DEF DatesSelect
<1> HIDE DEF P, Q, R, S, T, U
<1>8. Asks(P \cup Q \cup R, names, S \cap T \cap U)
  BY <1>3, <1>4, <1>5, AsksBoth
<1>9. QED
  BY <1>6, <1>7, <1>8

\* g is what index i filters by, of f.
Picks(g, i, f) == DOMAIN g = DOMAIN f \cap Filterable(i) /\ \A x \in DOMAIN g : g[x] = f[x]

\* spec is what index i filters by, of base.
Sanitized(spec, i, base) ==
  /\ Picks(spec.equal, i, base.equal) /\ Picks(spec.not_equal, i, base.not_equal)
  /\ Picks(spec.least, i, base.least) /\ Picks(spec.most, i, base.most)
  /\ spec.empty = base.empty \cap Filterable(i) /\ spec.not_empty = base.not_empty \cap Filterable(i)

\* What the parameters, with their names as the index has them, ask for.
ParamFits(d, ps, j) ==
  /\ ps[j].kind = "is" /\ LastOf(ps, Len(ps), j) => Values(d, ps[j].attr) \cap Range(ps[j].values) # {}
  /\ ps[j].kind = "not" => Values(d, ps[j].attr) \cap Range(ps[j].values) = {}
  /\ ps[j].kind = "min" /\ LastOf(ps, Len(ps), j) /\ Head(ps[j].values) # Null =>
       \E v \in Values(d, ps[j].attr) : v >= Head(ps[j].values)
  /\ ps[j].kind = "max" /\ LastOf(ps, Len(ps), j) /\ Head(ps[j].values) # Null =>
       \E v \in Values(d, ps[j].attr) : v <= Head(ps[j].values)
  /\ ps[j].kind # "empty"
ParamsSelect(i, ps) ==
  {d \in Docs : \A j \in 1 .. Len(ps) : ps[j].attr \in Filterable(i) => ParamFits(d, ps, j)}

Meets(d, x, S) == Values(d, x) \cap S # {}

LEMMA KeptEqual ==
  ASSUME NEW i, NEW f, NEW g, Picks(g, i, f), NEW ps, NEW n, Kept(f, "is", ps, n), NEW d
  PROVE  (\A x \in DOMAIN g : Meets(d, x, g[x]))
           <=> \A j \in 1 .. n : /\ ps[j].attr \in Filterable(i) /\ ps[j].kind = "is" /\ LastOf(ps, n, j)
                                 => Meets(d, ps[j].attr, Range(ps[j].values))
<1>1. DOMAIN g = DOMAIN f \cap Filterable(i) /\ \A x \in DOMAIN g : g[x] = f[x]
  BY DEF Picks
<1>2. \A x : x \in DOMAIN f <=> \E j \in 1 .. n : ps[j].kind = "is" /\ ps[j].attr = x /\ LastOf(ps, n, j)
  BY DEF Kept
<1>3. \A j \in 1 .. n : ps[j].kind = "is" /\ LastOf(ps, n, j) => f[ps[j].attr] = Range(ps[j].values)
  BY DEF Kept, ValueOf
<1>4. ASSUME \A x \in DOMAIN g : Meets(d, x, g[x]),
             NEW j \in 1 .. n, ps[j].attr \in Filterable(i), ps[j].kind = "is", LastOf(ps, n, j)
      PROVE  Meets(d, ps[j].attr, Range(ps[j].values))
  <2>1. ps[j].attr \in DOMAIN g
    BY <1>1, <1>2, <1>4
  <2>2. g[ps[j].attr] = Range(ps[j].values)
    BY <1>1, <1>3, <1>4, <2>1
  <2>3. QED
    BY <1>4, <2>1, <2>2
<1>5. ASSUME \A j \in 1 .. n : /\ ps[j].attr \in Filterable(i) /\ ps[j].kind = "is" /\ LastOf(ps, n, j)
                               => Meets(d, ps[j].attr, Range(ps[j].values)),
             NEW x \in DOMAIN g
      PROVE  Meets(d, x, g[x])
  <2>1. PICK j \in 1 .. n : ps[j].kind = "is" /\ ps[j].attr = x /\ LastOf(ps, n, j)
    BY <1>1, <1>2
  <2>2. g[x] = Range(ps[j].values) /\ x \in Filterable(i)
    BY <1>1, <1>3, <2>1
  <2>3. QED
    BY <1>5, <2>1, <2>2
<1>6. QED
  BY <1>4, <1>5

LEMMA AddedNotEqual ==
  ASSUME NEW i, NEW f, NEW g, Picks(g, i, f), NEW ps, NEW n, Added(f, ps, n), NEW d
  PROVE  (\A x \in DOMAIN g : ~Meets(d, x, g[x]))
           <=> \A j \in 1 .. n : /\ ps[j].attr \in Filterable(i) /\ ps[j].kind = "not"
                                 => ~Meets(d, ps[j].attr, Range(ps[j].values))
<1>1. DOMAIN g = DOMAIN f \cap Filterable(i) /\ \A x \in DOMAIN g : g[x] = f[x]
  BY DEF Picks
<1>2. \A x : x \in DOMAIN f <=> \E j \in 1 .. n : ps[j].kind = "not" /\ ps[j].attr = x
  BY DEF Added
<1>3. \A x \in DOMAIN f : \A v :
        v \in f[x] <=> \E j \in 1 .. n : ps[j].kind = "not" /\ ps[j].attr = x /\ v \in Range(ps[j].values)
  BY DEF Added
<1>4. ASSUME \A x \in DOMAIN g : ~Meets(d, x, g[x]),
             NEW j \in 1 .. n, ps[j].attr \in Filterable(i), ps[j].kind = "not"
      PROVE  ~Meets(d, ps[j].attr, Range(ps[j].values))
  <2>1. ps[j].attr \in DOMAIN g /\ ps[j].attr \in DOMAIN f
    BY <1>1, <1>2, <1>4
  <2>2. \A v \in Range(ps[j].values) : v \in g[ps[j].attr]
    BY <1>1, <1>3, <1>4, <2>1
  <2>3. QED
    BY <1>4, <2>1, <2>2 DEF Meets
<1>5. ASSUME \A j \in 1 .. n : /\ ps[j].attr \in Filterable(i) /\ ps[j].kind = "not"
                               => ~Meets(d, ps[j].attr, Range(ps[j].values)),
             NEW x \in DOMAIN g, NEW v \in g[x], v \in Values(d, x)
      PROVE  FALSE
  <2>1. PICK j \in 1 .. n : ps[j].kind = "not" /\ ps[j].attr = x /\ v \in Range(ps[j].values)
    BY <1>1, <1>3
  <2>2. x \in Filterable(i)
    BY <1>1
  <2>3. QED
    BY <1>5, <2>1, <2>2 DEF Meets
<1>6. QED
  BY <1>4, <1>5 DEF Meets

\* A bound from below or above.
Within(kind, d, x, n) ==
  IF kind = "min" THEN \E v \in Values(d, x) : v >= n ELSE \E v \in Values(d, x) : v <= n

LEMMA KeptBounds ==
  ASSUME NEW i, NEW f, NEW g, Picks(g, i, f), NEW ps, NEW n, NEW kind, kind # "is", Kept(f, kind, ps, n), NEW d
  PROVE  (\A x \in Given(g) : Within(kind, d, x, g[x]))
           <=> \A j \in 1 .. n : /\ ps[j].attr \in Filterable(i) /\ ps[j].kind = kind /\ LastOf(ps, n, j)
                                 /\ Head(ps[j].values) # Null
                                 => Within(kind, d, ps[j].attr, Head(ps[j].values))
<1>1. DOMAIN g = DOMAIN f \cap Filterable(i) /\ \A x \in DOMAIN g : g[x] = f[x]
  BY DEF Picks
<1>2. \A x : x \in DOMAIN f <=> \E j \in 1 .. n : ps[j].kind = kind /\ ps[j].attr = x /\ LastOf(ps, n, j)
  BY DEF Kept
<1>3. \A j \in 1 .. n : ps[j].kind = kind /\ LastOf(ps, n, j) => f[ps[j].attr] = Head(ps[j].values)
  BY DEF Kept, ValueOf
<1>4. \A x : x \in Given(g) <=> x \in DOMAIN g /\ g[x] # Null
  BY DEF Given
<1>5. ASSUME \A x \in Given(g) : Within(kind, d, x, g[x]),
             NEW j \in 1 .. n, ps[j].attr \in Filterable(i), ps[j].kind = kind, LastOf(ps, n, j),
             Head(ps[j].values) # Null
      PROVE  Within(kind, d, ps[j].attr, Head(ps[j].values))
  <2>1. ps[j].attr \in DOMAIN g
    BY <1>1, <1>2, <1>5
  <2>2. g[ps[j].attr] = Head(ps[j].values)
    BY <1>1, <1>3, <1>5, <2>1
  <2>3. QED
    BY <1>4, <1>5, <2>1, <2>2
<1>6. ASSUME \A j \in 1 .. n : /\ ps[j].attr \in Filterable(i) /\ ps[j].kind = kind /\ LastOf(ps, n, j)
                               /\ Head(ps[j].values) # Null
                               => Within(kind, d, ps[j].attr, Head(ps[j].values)),
             NEW x \in Given(g)
      PROVE  Within(kind, d, x, g[x])
  <2>1. PICK j \in 1 .. n : ps[j].kind = kind /\ ps[j].attr = x /\ LastOf(ps, n, j)
    BY <1>1, <1>2, <1>4
  <2>2. g[x] = Head(ps[j].values) /\ x \in Filterable(i) /\ g[x] # Null
    BY <1>1, <1>3, <1>4, <2>1
  <2>3. QED
    BY <1>6, <2>1, <2>2
<1>7. QED
  BY <1>5, <1>6

LEMMA NotedEmpty ==
  ASSUME NEW i, NEW S, NEW ps, NEW n, Noted(S, "empty", ps, n)
  PROVE  S \cap Filterable(i) = {} <=> \A j \in 1 .. n : ps[j].attr \in Filterable(i) => ps[j].kind # "empty"
BY DEF Noted

\* What the parameters' parts select.
LEMMA SpecParts ==
  ASSUME NEW i, NEW ps, NEW spec, NEW base, NEW names, Known(i) \subseteq names,
         Sanitized(spec, i, base), SpecOf(base, ps, Len(ps)), Len(ps) \in Nat,
         \A j \in 1 .. Len(ps) : IsParam(ps[j])
  PROVE  Asks(PartsOfSpec(spec), names, ParamsSelect(i, ps))
<1> DEFINE n == Len(ps)
           equal == spec.equal
           other == spec.not_equal
           least == spec.least
           most == spec.most
           S1 == {d \in Docs : \A x \in DOMAIN equal : Values(d, x) \cap equal[x] # {}}
           S2 == {d \in Docs : \A x \in DOMAIN other : Values(d, x) \cap other[x] = {}}
           S3 == {d \in Docs : \A x \in Given(least) : \E v \in Values(d, x) : v >= least[x]}
           S4 == {d \in Docs : \A x \in Given(most) : \E v \in Values(d, x) : v <= most[x]}
           S5 == {d \in Docs : spec.empty = {}}
           P1 == {AnyOf(attr, equal[attr]) : attr \in DOMAIN equal}
           P2 == UNION {{IsNot(attr, v) : v \in other[attr]} : attr \in DOMAIN other}
           P3 == {AtLeast(attr, least[attr]) : attr \in Given(least)}
           P4 == {AtMost(attr, most[attr]) : attr \in Given(most)}
           P5 == {IsNull(attr) : attr \in spec.empty}
           P6 == {IsNotNull(attr) : attr \in spec.not_empty}
<1>1. /\ Picks(equal, i, base.equal) /\ Picks(other, i, base.not_equal)
      /\ Picks(least, i, base.least) /\ Picks(most, i, base.most)
      /\ spec.empty = base.empty \cap Filterable(i) /\ spec.not_empty = base.not_empty \cap Filterable(i)
  BY DEF Sanitized
<1>2. /\ Kept(base.equal, "is", ps, n) /\ Kept(base.least, "min", ps, n) /\ Kept(base.most, "max", ps, n)
      /\ Added(base.not_equal, ps, n)
      /\ Noted(base.empty, "empty", ps, n) /\ Noted(base.not_empty, "not_empty", ps, n)
  BY DEF SpecOf
<1>3. PartsOfSpec(spec) = P1 \cup P2 \cup P3 \cup P4 \cup P5 \cup P6
  BY Zenon DEF PartsOfSpec
<1>4. \A g, f : Picks(g, i, f) =>
        DOMAIN g \cup Flaws \subseteq names /\ (IsFiniteSet(DOMAIN f) => IsFiniteSet(DOMAIN g))
  BY FS_Subset DEF Picks, Known
<1>5. \A f : Given(f) \subseteq DOMAIN f
  BY DEF Given
<1> HIDE DEF equal, other, least, most
<1>6. Asks(P1, names, S1)
  <2>1. ASSUME NEW x \in DOMAIN equal PROVE IsFiniteSet(equal[x]) /\ equal[x] # {}
    <3>1. x \in DOMAIN base.equal /\ equal[x] = base.equal[x]
      BY <1>1 DEF Picks
    <3>2. PICK j \in 1 .. n : ps[j].kind = "is" /\ ps[j].attr = x /\ LastOf(ps, n, j)
      BY <1>2, <3>1 DEF Kept
    <3>3. equal[x] = Range(ps[j].values)
      BY <1>2, <3>1, <3>2 DEF Kept, ValueOf
    <3>4. IsFiniteSet(Range(ps[j].values)) /\ Range(ps[j].values) # {}
      BY RangeFinite DEF IsParam
    <3>5. QED
      BY <3>3, <3>4
  <2>2. IsFiniteSet(DOMAIN equal) /\ DOMAIN equal \cup Flaws \subseteq names
    BY <1>1, <1>2, <1>4 DEF Kept
  <2>3. QED
    BY <2>1, <2>2, EqualParts
<1>7. Asks(P2, names, S2)
  <2>1. \A x \in DOMAIN other : IsFiniteSet(other[x])
    BY <1>1, <1>2 DEF Added, Picks
  <2>2. IsFiniteSet(DOMAIN other) /\ DOMAIN other \cup Flaws \subseteq names
    BY <1>1, <1>2, <1>4 DEF Added
  <2>3. QED
    BY <2>1, <2>2, NotEqualParts
<1>8. Asks(P3, names, S3) /\ Asks(P4, names, S4)
  <2>1. /\ IsFiniteSet(DOMAIN least) /\ DOMAIN least \cup Flaws \subseteq names
        /\ IsFiniteSet(DOMAIN most) /\ DOMAIN most \cup Flaws \subseteq names
    BY <1>1, <1>2, <1>4 DEF Kept
  <2>2. /\ IsFiniteSet(Given(least)) /\ Given(least) \cup Flaws \subseteq names
        /\ IsFiniteSet(Given(most)) /\ Given(most) \cup Flaws \subseteq names
    BY <1>5, <2>1, FS_Subset
  <2>3. QED
    BY <2>2, LeastParts, MostParts
<1>9. Asks(P5, names, S5) /\ Asks(P6, names, Docs)
  <2>1. /\ IsFiniteSet(spec.empty) /\ spec.empty \subseteq names
        /\ IsFiniteSet(spec.not_empty) /\ spec.not_empty \subseteq names
    BY <1>1, <1>2, FS_Subset DEF Noted, Known
  <2>2. QED
    BY <2>1, NullParts
<1>10. ASSUME NEW d \in Docs
       PROVE  d \in S1 \cap S2 \cap S3 \cap S4 \cap S5 \cap Docs <=> d \in ParamsSelect(i, ps)
  <2>1. d \in S1 <=> \A j \in 1 .. n : /\ ps[j].attr \in Filterable(i) /\ ps[j].kind = "is" /\ LastOf(ps, n, j)
                                        => Meets(d, ps[j].attr, Range(ps[j].values))
    <3>1. (\A x \in DOMAIN equal : Meets(d, x, equal[x]))
            <=> \A j \in 1 .. n : /\ ps[j].attr \in Filterable(i) /\ ps[j].kind = "is" /\ LastOf(ps, n, j)
                                        => Meets(d, ps[j].attr, Range(ps[j].values))
      BY <1>1, <1>2, KeptEqual
    <3>2. d \in S1 <=> \A x \in DOMAIN equal : Meets(d, x, equal[x])
      BY DEF S1, Meets
    <3> HIDE DEF S1
    <3>3. QED
      BY <3>1, <3>2
  <2>2. d \in S2 <=> \A j \in 1 .. n : /\ ps[j].attr \in Filterable(i) /\ ps[j].kind = "not"
                                        => ~Meets(d, ps[j].attr, Range(ps[j].values))
    <3>1. (\A x \in DOMAIN other : ~Meets(d, x, other[x]))
            <=> \A j \in 1 .. n : /\ ps[j].attr \in Filterable(i) /\ ps[j].kind = "not"
                                        => ~Meets(d, ps[j].attr, Range(ps[j].values))
      BY <1>1, <1>2, AddedNotEqual
    <3>2. d \in S2 <=> \A x \in DOMAIN other : ~Meets(d, x, other[x])
      BY DEF S2, Meets
    <3> HIDE DEF S2
    <3>3. QED
      BY <3>1, <3>2
  <2>3. d \in S3 <=> \A j \in 1 .. n : /\ ps[j].attr \in Filterable(i) /\ ps[j].kind = "min" /\ LastOf(ps, n, j)
                                        /\ Head(ps[j].values) # Null
                                        => \E v \in Values(d, ps[j].attr) : v >= Head(ps[j].values)
    <3>1. (\A x \in Given(least) : Within("min", d, x, least[x]))
            <=> \A j \in 1 .. n : /\ ps[j].attr \in Filterable(i) /\ ps[j].kind = "min" /\ LastOf(ps, n, j)
                                        /\ Head(ps[j].values) # Null
                                        => Within("min", d, ps[j].attr, Head(ps[j].values))
      BY <1>1, <1>2, KeptBounds
    <3>2. d \in S3 <=> \A x \in Given(least) : Within("min", d, x, least[x])
      BY DEF Within
    <3> HIDE DEF S3
    <3>3. QED
      BY <3>1, <3>2 DEF Within
  <2>4. d \in S4 <=> \A j \in 1 .. n : /\ ps[j].attr \in Filterable(i) /\ ps[j].kind = "max" /\ LastOf(ps, n, j)
                                        /\ Head(ps[j].values) # Null
                                        => \E v \in Values(d, ps[j].attr) : v <= Head(ps[j].values)
    <3>1. (\A x \in Given(most) : Within("max", d, x, most[x]))
            <=> \A j \in 1 .. n : /\ ps[j].attr \in Filterable(i) /\ ps[j].kind = "max" /\ LastOf(ps, n, j)
                                        /\ Head(ps[j].values) # Null
                                        => Within("max", d, ps[j].attr, Head(ps[j].values))
      BY <1>1, <1>2, KeptBounds
    <3>2. d \in S4 <=> \A x \in Given(most) : Within("max", d, x, most[x])
      BY DEF Within
    <3> HIDE DEF S4
    <3>3. QED
      BY <3>1, <3>2 DEF Within
  <2>5. d \in S5 <=> \A j \in 1 .. n : ps[j].attr \in Filterable(i) => ps[j].kind # "empty"
    BY <1>1, <1>2, NotedEmpty
  <2>6. d \in ParamsSelect(i, ps) <=> \A j \in 1 .. n : ps[j].attr \in Filterable(i) => ParamFits(d, ps, j)
    BY DEF ParamsSelect
  <2> HIDE DEF S1, S2, S3, S4, S5
  <2>7. QED
    BY <2>1, <2>2, <2>3, <2>4, <2>5, <2>6 DEF ParamFits, Meets
<1>11. ParamsSelect(i, ps) = S1 \cap S2 \cap S3 \cap S4 \cap S5 \cap Docs
  <2>1. ParamsSelect(i, ps) \subseteq Docs
    BY DEF ParamsSelect
  <2> HIDE DEF S1, S2, S3, S4, S5
  <2>2. QED
    BY <1>10, <2>1
<1> HIDE DEF S1, S2, S3, S4, S5, P1, P2, P3, P4, P5, P6
<1>12. Asks(P1 \cup P2 \cup P3 \cup P4 \cup P5 \cup P6, names, S1 \cap S2 \cap S3 \cap S4 \cap S5 \cap Docs)
  BY <1>6, <1>7, <1>8, <1>9, AsksBoth
<1>13. QED
  BY <1>3, <1>11, <1>12

\* The tree in parentheses.
LEMMA TreeParts ==
  ASSUME NEW i, NEW r, NEW says, NEW names, Known(i) \subseteq names, Means(i, r, says)
  PROVE  Asks({Paren(r.exprs[n]) : n \in DOMAIN r.exprs}, names, {d \in Docs : \A part \in says : d \in part})
<1> DEFINE P == {Paren(r.exprs[n]) : n \in DOMAIN r.exprs}
           S == {d \in Docs : \A part \in says : d \in part}
<1>1. CASE r.exprs = <<>> /\ says = {}
  <2>1. P = {} /\ S = Docs
    BY <1>1
  <2> HIDE DEF P, S
  <2>2. Asks(P, names, S)
    BY <2>1, AsksNothing
  <2>3. QED
    BY <2>2 DEF P, S
<1>2. CASE \E e : /\ r.exprs = <<e>> /\ IsText(e) /\ e.names \subseteq Known(i)
                  /\ says = {Selected(e)}
  <2>1. PICK e : /\ r.exprs = <<e>> /\ IsText(e) /\ e.names \subseteq Known(i)
                 /\ says = {Selected(e)}
    BY <1>2
  <2>2. DOMAIN r.exprs = {1} /\ r.exprs[1] = e
    BY <2>1
  <2>3. P = {Paren(e)}
    BY <2>2
  <2>4. Whole(Paren(e)) /\ Paren(e).names \subseteq names /\ Selected(Paren(e)) = Selected(e)
    BY <2>1, ParenIs
  <2>5. S = Selected(e)
    <3>1. S = {d \in Docs : d \in Selected(e)}
      BY <2>1
    <3>2. QED
      BY <3>1, SelectedDocs
  <2> DEFINE p == Paren(e)
  <2> HIDE DEF P, S, p
  <2>6. Whole(p) /\ p.names \subseteq names /\ Selected(p) = S /\ P = {p}
    BY <2>3, <2>4, <2>5 DEF p
  <2>7. Asks(P, names, S)
    BY <2>6, AsksOne
  <2>8. QED
    BY <2>7 DEF P, S
<1>3. QED
  BY <1>1, <1>2 DEF Means

\* Parameters with their names as the index has them.
LEMMA NamedIs ==
  ASSUME NEW r \in Requests, NEW i
  PROVE  /\ Named(i, r.params) \in Seq(Range(Named(i, r.params)))
         /\ Len(Named(i, r.params)) = Len(r.params) /\ Len(r.params) \in Nat
         /\ DOMAIN r.params = 1 .. Len(r.params)
         /\ \A j \in 1 .. Len(r.params) :
              /\ IsParam(Named(i, r.params)[j])
              /\ Named(i, r.params)[j].kind = r.params[j].kind
              /\ Named(i, r.params)[j].values = r.params[j].values
              /\ Named(i, r.params)[j].attr = NormalizeAttr(i, r.params[j].attr)
<1> DEFINE qs == r.params
           ps == Named(i, qs)
           n == Len(qs)
<1>1. /\ qs \in Seq(Range(qs)) /\ n \in Nat /\ DOMAIN qs = 1 .. n
      /\ \A p \in Range(qs) : p = [kind |-> p.kind, attr |-> p.attr, values |-> p.values]
                              /\ p.values \in Seq(Range(p.values)) \ {<<>>}
  BY RequestsAssumption
<1>2. \A j \in 1 .. n : qs[j] \in Range(qs)
  BY <1>1 DEF Range
<1>3. ps = [j \in 1 .. n |-> [qs[j] EXCEPT !.attr = NormalizeAttr(i, @)]]
  BY <1>1 DEF Named
<1> HIDE DEF ps, qs
<1>4. ASSUME NEW j \in 1 .. n
      PROVE  /\ IsParam(ps[j]) /\ ps[j].kind = qs[j].kind /\ ps[j].values = qs[j].values
             /\ ps[j].attr = NormalizeAttr(i, qs[j].attr)
  <2> DEFINE q == qs[j]
             p == ps[j]
  <2>1. q = [kind |-> q.kind, attr |-> q.attr, values |-> q.values] /\ q.values \in Seq(Range(q.values)) \ {<<>>}
    BY <1>1, <1>2
  <2>2. p = [q EXCEPT !.attr = NormalizeAttr(i, q.attr)]
    BY <1>3
  <2> HIDE DEF p, q
  <2>3. /\ p.kind = q.kind /\ p.values = q.values /\ p.attr = NormalizeAttr(i, q.attr)
        /\ p = [kind |-> p.kind, attr |-> p.attr, values |-> p.values]
    BY <2>1, <2>2
  <2>4. IsParam(p)
    BY <2>1, <2>3 DEF IsParam
  <2>5. QED
    BY <2>3, <2>4 DEF p, q
<1>5. DOMAIN ps = 1 .. n /\ ps = [j \in 1 .. n |-> ps[j]] /\ \A j \in 1 .. n : ps[j] \in Range(ps)
  BY <1>3 DEF Range
<1>6. ps \in Seq(Range(ps)) /\ Len(ps) = n
  <2> DEFINE R == Range(ps)
  <2> HIDE DEF n, R
  <2>1. ps \in [1 .. n -> R]
    BY <1>5 DEF R
  <2>2. n \in Nat
    BY <1>1
  <2>3. ps \in Seq(R) /\ Len(ps) = n
    BY <2>1, <2>2
  <2>4. QED
    BY <2>3 DEF R
<1>7. QED
  BY <1>1, <1>4, <1>6 DEF ps, qs

\* Of a request the filter has the parameters that the index filters by, the
\* dates and the tree.
LEMMA ParsedIs ==
  ASSUME NEW r \in Requests
  PROVE  /\ Sanitized(ParseFilterSpec(r).spec, r.index, FoldLeft(Param, NoSpec, Named(r.index, r.params)))
         /\ ParseFilterSpec(r).dates = r.dates
         /\ ParseFilterSpec(r).qb = EvalNode(r.index, r.qb).exprs
<1> DEFINE i == r.index
           ps == Named(i, r.params)
           base == FoldLeft(Param, NoSpec, ps)
           qb == EvalNode(i, r.qb)
           longer == [base EXCEPT !.words = @ \o qb.words]
           spec == SanitizeFilterSpec(i, longer)
           f == ParseFilterSpec(r)
           last == [spec EXCEPT !.words = Dict(@, "contains") \o Dict(@, "starts_with")]
<1>1. f = [spec |-> last, dates |-> r.dates, qb |-> qb.exprs]
  BY Zenon DEF ParseFilterSpec
<1>2. SpecFields(base)
  BY NamedIs, ParamsAddUp DEF SpecOf
<1> HIDE DEF base, qb, f
<1>3. /\ longer.equal = base.equal /\ longer.not_equal = base.not_equal /\ longer.least = base.least
      /\ longer.most = base.most /\ longer.empty = base.empty /\ longer.not_empty = base.not_empty
  BY <1>2 DEF SpecFields
<1> HIDE DEF longer
<1>4. /\ spec.equal = [x \in DOMAIN longer.equal \cap Filterable(i) |-> longer.equal[x]]
      /\ spec.not_equal = [x \in DOMAIN longer.not_equal \cap Filterable(i) |-> longer.not_equal[x]]
      /\ spec.least = [x \in DOMAIN longer.least \cap Filterable(i) |-> longer.least[x]]
      /\ spec.most = [x \in DOMAIN longer.most \cap Filterable(i) |-> longer.most[x]]
      /\ spec.empty = longer.empty \cap Filterable(i)
      /\ spec.not_empty = longer.not_empty \cap Filterable(i)
      /\ SpecFields(spec)
  BY DEF SanitizeFilterSpec, SpecFields
<1> HIDE DEF spec
<1>5. /\ last.equal = spec.equal /\ last.not_equal = spec.not_equal /\ last.least = spec.least
      /\ last.most = spec.most /\ last.empty = spec.empty /\ last.not_empty = spec.not_empty
  BY <1>4 DEF SpecFields
<1> HIDE DEF last
<1>6. /\ Picks(last.equal, i, base.equal) /\ Picks(last.not_equal, i, base.not_equal)
      /\ Picks(last.least, i, base.least) /\ Picks(last.most, i, base.most)
  <2>1. \A g, h : g = [x \in DOMAIN h \cap Filterable(i) |-> h[x]] => Picks(g, i, h)
    BY DEF Picks
  <2>2. QED
    BY <1>3, <1>4, <1>5, <2>1
<1>7. Sanitized(last, i, base)
  BY <1>3, <1>4, <1>5, <1>6 DEF Sanitized
<1>8. f.spec = last /\ f.dates = r.dates /\ f.qb = qb.exprs
  BY <1>1
<1>9. QED
  BY <1>7, <1>8 DEF f, qb, base

\* The three parts of what a request asks for.
LEMMA PassesIs ==
  ASSUME NEW r \in Requests, NEW d \in Docs
  PROVE  Passes(d, r) <=>
           /\ d \in ParamsSelect(r.index, Named(r.index, r.params))
           /\ d \in DatesSelect(r.dates)
           /\ \A part \in Says(r.index, r.qb) : d \in part
<1> DEFINE qs == r.params
           i == r.index
           ps == Named(i, qs)
           n == Len(qs)
           name(j) == NormalizeAttr(r.index, qs[j].attr)
           last(j) == \A h \in j + 1 .. Len(qs) : ~(qs[h].kind = qs[j].kind /\ name(h) = name(j))
           values(j) == Values(d, name(j))
           Fits(j) ==
             CASE qs[j].kind = "is" -> last(j) => values(j) \cap Range(qs[j].values) # {}
               [] qs[j].kind = "not" -> values(j) \cap Range(qs[j].values) = {}
               [] qs[j].kind = "min" -> last(j) /\ Head(qs[j].values) # Null => \E v \in values(j) : v >= Head(qs[j].values)
               [] qs[j].kind = "max" -> last(j) /\ Head(qs[j].values) # Null => \E v \in values(j) : v <= Head(qs[j].values)
               [] qs[j].kind = "empty" -> FALSE
               [] OTHER -> TRUE
<1>1. /\ Len(ps) = n /\ n \in Nat /\ DOMAIN qs = 1 .. n
      /\ \A j \in 1 .. n : ps[j].kind = qs[j].kind /\ ps[j].values = qs[j].values /\ ps[j].attr = name(j)
  BY NamedIs
<1>2. Passes(d, r) <=>
        /\ \A j \in DOMAIN qs : name(j) \in Filterable(i) => Fits(j)
        /\ d \in DatesSelect(r.dates)
        /\ \A part \in Says(r.index, r.qb) : d \in part
  BY DEF Passes, DatesSelect
<1>3. \A j \in 1 .. n : last(j) <=> LastOf(ps, n, j)
  <2>1. \A j \in 1 .. n : \A h \in j + 1 .. n : h \in 1 .. n
    BY <1>1
  <2> HIDE DEF ps, qs, name
  <2>2. QED
    BY <1>1, <2>1 DEF LastOf, n
<1> HIDE DEF ps, qs, name, last, n
<1>4. ASSUME NEW j \in 1 .. n PROVE Fits(j) <=> ParamFits(d, ps, j)
  BY <1>1, <1>3 DEF ParamFits
<1> HIDE DEF Fits
<1>5. d \in ParamsSelect(i, ps) <=> \A j \in 1 .. n : name(j) \in Filterable(i) => Fits(j)
  BY <1>1, <1>4 DEF ParamsSelect
<1>6. QED
  BY <1>1, <1>2, <1>5 DEF ps, qs

\* The expression of a request asks for what the request asks for.
LEMMA FilterMeans ==
  ASSUME NEW r \in Requests, NEW names, Known(r.index) \subseteq names,
         r.dates.least # Null \/ r.dates.most # Null => {"date_min", "date_max"} \subseteq names
  PROVE  /\ Selected(FilterOf(ParseFilterSpec(r))) = {d \in Docs : Passes(d, r)}
         /\ FilterOf(ParseFilterSpec(r)).names \subseteq names
<1> DEFINE i == r.index
           ps == Named(i, r.params)
           base == FoldLeft(Param, NoSpec, ps)
           f == ParseFilterSpec(r)
           node == EvalNode(i, r.qb)
           S == ParamsSelect(i, ps)
           T == DatesSelect(r.dates)
           U == {d \in Docs : \A part \in Says(i, r.qb) : d \in part}
           Q == {Paren(f.qb[n]) : n \in DOMAIN f.qb}
<1>1. Sanitized(f.spec, i, base) /\ f.dates = r.dates /\ f.qb = node.exprs
  BY ParsedIs
<1>2. Len(ps) \in Nat /\ ps \in Seq(Range(ps)) /\ \A j \in 1 .. Len(ps) : IsParam(ps[j])
  BY NamedIs
<1>3. SpecOf(base, ps, Len(ps))
  <2> HIDE DEF ps
  <2>1. QED
    BY <1>2, ParamsAddUp
<1> HIDE DEF ps, base, f, node
<1>4. Asks(PartsOfSpec(f.spec), names, S)
  BY <1>1, <1>2, <1>3, SpecParts
<1>5. Asks(PartsOfDates(f.dates), names, T)
  BY <1>1, DateParts DEF Known
<1>6. Asks(Q, names, U)
  <2>1. r.qb \in Nodes
    BY RequestsAssumption DEF Nodes
  <2>2. Means(i, node, Says(i, r.qb))
    BY <2>1, TreeMeans DEF node
  <2>3. Q = {Paren(node.exprs[n]) : n \in DOMAIN node.exprs}
    BY <1>1
  <2>4. QED
    BY <2>2, <2>3, TreeParts
<1>7. MeilisearchFilter(f) = PartsOfSpec(f.spec) \cup PartsOfDates(f.dates) \cup Q
  BY Zenon DEF MeilisearchFilter
<1>8. S \cap T \cap U = {d \in Docs : Passes(d, r)}
  <2>1. \A d \in Docs : Passes(d, r) <=> d \in S /\ d \in T /\ d \in U
    BY PassesIs DEF ps
  <2>2. U \subseteq Docs
    OBVIOUS
  <2> HIDE DEF S, T, U
  <2>3. QED
    BY <2>1, <2>2
<1> HIDE DEF S, T, U, Q
<1>9. Asks(MeilisearchFilter(f), names, S \cap T \cap U)
  <2> DEFINE A == PartsOfSpec(f.spec)
             B == PartsOfDates(f.dates)
  <2> HIDE DEF A, B
  <2>1. Asks(A, names, S) /\ Asks(B, names, T)
    BY <1>4, <1>5 DEF A, B
  <2>2. Asks(A \cup B, names, S \cap T)
    BY <2>1, AsksBoth
  <2>3. Asks((A \cup B) \cup Q, names, (S \cap T) \cap U)
    BY <1>6, <2>2, AsksBoth
  <2>4. QED
    BY <1>7, <2>3 DEF A, B
<1>10. S \cap T \cap U \subseteq Docs
  BY <1>8
<1>11. Selected(FilterOf(f)) = S \cap T \cap U /\ FilterOf(f).names \subseteq names
  BY <1>9, <1>10, FilterOfIs
<1>12. QED
  BY <1>8, <1>11 DEF f

-----------------------------------------------------------------------------
(* Literals *)

LEMMA FoldsChars ==
  \A base, seq : FoldLeft(ReadChar, base, seq) = ReadingChars!Folded(base, seq)
BY Zenon DEF FoldLeft, MapThenFoldSet, ReadingChars!Folded, ReadingChars!FoldLeft,
             ReadingChars!MapThenFoldSet, Max, ReadingChars!Max

LEMMA FoldsValues ==
  \A base, seq : FoldLeft(ReadValue, base, seq) = ReadingValues!Folded(base, seq)
BY Zenon DEF FoldLeft, MapThenFoldSet, ReadingValues!Folded, ReadingValues!FoldLeft,
             ReadingValues!MapThenFoldSet, Max, ReadingValues!Max

\* A character that is no backslash, as it is written, does not end a literal.
LEMMA StaysInside ==
  ASSUME NEW c, c # "backslash"
  PROVE  ReadValue("inside", c) = "inside"
<1> DEFINE s == EscapeFilterValue(c)
<1>1. CASE c = "quote"
  <2>1. s = <<"backslash", "quote">> /\ DOMAIN s = 1 .. 2 /\ s[1] = "backslash" /\ s[2] = "quote"
    BY <1>1 DEF EscapeFilterValue
  <2> HIDE DEF s
  <2>2. PICK read : ReadingChars!Makes(read, "inside", s, 2)
    BY <2>1, ReadingChars!FoldChain
  <2>3. /\ read[0] = "inside" /\ FoldLeft(ReadChar, "inside", s) = read[2]
        /\ \A i \in 1 .. 2 : read[i] = ReadChar(read[i - 1], s[i])
    BY <2>2, FoldsChars, Zenon DEF ReadingChars!Makes
  <2>4. read[1] = ReadChar("inside", "backslash") /\ read[2] = ReadChar(read[1], "quote")
    BY <2>1, <2>3
  <2>5. read[1] = "escaped"
    BY <2>4 DEF ReadChar
  <2>6. read[2] = "inside"
    BY <2>4, <2>5 DEF ReadChar
  <2>7. QED
    BY <2>3, <2>6 DEF ReadValue, s
<1>2. CASE c # "quote"
  <2>1. s = <<c>> /\ DOMAIN s = 1 .. 1 /\ s[1] = c
    BY <1>2 DEF EscapeFilterValue
  <2> HIDE DEF s
  <2>2. PICK read : ReadingChars!Makes(read, "inside", s, 1)
    BY <2>1, ReadingChars!FoldChain
  <2>3. /\ read[0] = "inside" /\ FoldLeft(ReadChar, "inside", s) = read[1]
        /\ \A i \in 1 .. 1 : read[i] = ReadChar(read[i - 1], s[i])
    BY <2>2, FoldsChars, Zenon DEF ReadingChars!Makes
  <2>4. read[1] = ReadChar("inside", c)
    BY <2>1, <2>3
  <2>5. read[1] = "inside"
    BY <1>2, <2>4 DEF ReadChar
  <2>6. QED
    BY <2>3, <2>5 DEF ReadValue, s
<1>3. QED
  BY <1>1, <1>2

\* A literal that only has quotes in it ends where its value does.
LEMMA QuotesEnd ==
  ASSUME NEW v \in DOMAIN Spelling, "backslash" \notin Range(Spelling[v])
  PROVE  Quoted(v)
<1> DEFINE s == Spelling[v]
           n == Len(s)
<1>1. /\ n \in Nat /\ DOMAIN s = 1 .. n
      /\ \A k \in 1 .. n : s[k] # "backslash"
  BY SpellingAssumption DEF Range
<1>2. Quoted(v) <=> ReadChar(FoldLeft(ReadValue, "inside", s), "quote") = "ended"
  BY Zenon DEF Quoted
<1> HIDE DEF s, n
<1>3. PICK read : ReadingValues!Makes(read, "inside", s, n)
  BY <1>1, ReadingValues!FoldChain
<1>4. /\ read[0] = "inside" /\ FoldLeft(ReadValue, "inside", s) = read[n]
      /\ \A i \in 1 .. n : read[i] = ReadValue(read[i - 1], s[i])
  BY <1>3, FoldsValues, Zenon DEF ReadingValues!Makes
<1> DEFINE S == {k \in Nat : k <= n => read[k] = "inside"}
<1>5. 0 \in S
  BY <1>4
<1>6. ASSUME NEW k \in Nat, k \in S PROVE k + 1 \in S
  <2> SUFFICES ASSUME k + 1 <= n PROVE read[k + 1] = "inside"
    OBVIOUS
  <2>1. k + 1 \in 1 .. n /\ (k + 1) - 1 = k /\ k <= n
    BY <1>1
  <2>2. read[k] = "inside"
    BY <1>6, <2>1
  <2>3. read[k + 1] = ReadValue("inside", s[k + 1])
    BY <1>4, <2>1, <2>2
  <2>4. QED
    BY <1>1, <2>1, <2>3, StaysInside
<1> HIDE DEF S
<1>7. n \in S
  BY <1>1, <1>5, <1>6, ReadingValues!Induction
<1>8. read[n] = "inside"
  BY <1>1, <1>7 DEF S
<1>9. ReadChar("inside", "quote") = "ended"
  BY DEF ReadChar
<1>10. QED
  BY <1>2, <1>4, <1>8, <1>9

-----------------------------------------------------------------------------
(* The invariant of requests *)

\* Bounds of dates for an index that has no dates.
DatesAstray(r) ==
  /\ r.dates.least # Null \/ r.dates.most # Null
  /\ ~({"date_min", "date_max"} \subseteq Filterable(r.index))

\* asked is a request with what it was parsed to and taken for.
AskedFor(asked) ==
  /\ asked[1] \in Requests /\ SameRequest(asked[2], ParseSearchQuery(asked[1]))
  /\ asked[2].reading \in Readings(asked[1].index, FilterOf(ParseFilterSpec(asked[1])))

\* What a refusal is for.
Amiss(asked) ==
  DatesAstray(asked[1]) \/ FilterOf(asked[2].filter).names \cap {"unquoted", "infinite"} # {}

RequestInv ==
  /\ job.at \in Asking => AskedFor(query)
  /\ job.at = "refused" => Amiss(query)

\* Nothing else is refused.
LEMMA RefusedAmiss ==
  ASSUME NEW asked, AskedFor(asked),
         NEW facets, facets \subseteq Filterable(asked[1].index), Refuses(asked[2], facets)
  PROVE  Amiss(asked)
<1> DEFINE r == asked[1]
           q == asked[2]
           i == r.index
           text == FilterOf(ParseFilterSpec(r))
<1>0. r \in Requests /\ SameRequest(q, ParseSearchQuery(r)) /\ q.reading \in Readings(i, text)
  BY Zenon DEF AskedFor
<1>1. /\ q.index = i /\ q.filter = ParseFilterSpec(r) /\ q.sort = ParseSort(i, r.sort)
      /\ q.fields = Range(r.fields) \cap Searchable(i)
  BY <1>0 DEF SameRequest, ParseSearchQuery
<1>2. q.sort.attr \in Sortable(i) \cup {"rank"}
  BY <1>1 DEF ParseSort, ByRank
<1>3. SearchedIn(q) \subseteq Searchable(i)
  BY <1>1 DEF SearchedIn
<1> HIDE DEF text
<1>4. q.reading = Rejected
  BY <1>1, <1>2, <1>3 DEF Refuses
<1>5. "unquoted" \in text.names \/ ~(text.names \subseteq Filterable(i))
  <2>1. ASSUME "unquoted" \notin text.names, text.names \subseteq Filterable(i) PROVE FALSE
    <3>1. Readings(i, text) = {<<Selected(text)>>}
      BY <2>1, Zenon DEF Readings
    <3>2. q.reading = <<Selected(text)>>
      BY <1>0, <3>1
    <3>3. <<Selected(text)>> # <<>>
      OBVIOUS
    <3>4. QED
      BY <1>4, <3>2, <3>3 DEF Rejected
  <2>2. QED
    BY <2>1
<1>6. text = FilterOf(q.filter)
  BY <1>1 DEF text
<1>7. CASE "unquoted" \in text.names
  BY <1>6, <1>7 DEF Amiss
<1>8. CASE ~(text.names \subseteq Filterable(i)) /\ ~DatesAstray(r)
  <2>1. r.dates.least # Null \/ r.dates.most # Null => {"date_min", "date_max"} \subseteq Known(i)
    BY <1>8 DEF DatesAstray, Known
  <2> DEFINE names == Known(i)
  <2>2. Known(i) \subseteq names
    OBVIOUS
  <2> HIDE DEF names
  <2>3. text.names \subseteq names
    BY <1>0, <2>1, <2>2, FilterMeans DEF text, names
  <2>4. \E x \in text.names : x \in Flaws
    BY <1>8, <2>3 DEF names, Known
  <2>5. QED
    BY <1>6, <2>4 DEF Amiss, Flaws
<1>9. CASE DatesAstray(r)
  BY <1>9 DEF Amiss
<1>10. QED
  BY <1>5, <1>7, <1>8, <1>9

LEMMA RequestInit == QueryInit => RequestInv
BY DEF QueryInit, RequestInv, Nothing, Asking

LEMMA RequestNext == PagesInv /\ RequestInv /\ [QueryNext]_queryVars => RequestInv'
<1> SUFFICES ASSUME PagesInv, RequestInv, [QueryNext]_queryVars PROVE RequestInv'
  OBVIOUS
<1>0. ASSUME query' = query PROVE AskedFor(query)' = AskedFor(query) /\ Amiss(query)' = Amiss(query)
  <2>1. AskedFor(query)' = AskedFor(query)
    BY <1>0, Zenon
  <2>2. Amiss(query)' = Amiss(query)
    BY <1>0, Zenon
  <2>3. QED
    BY <2>1, <2>2
<1>1. ASSUME query' = query, job'.at \in Asking => job.at \in Asking, job'.at # "refused"
      PROVE  RequestInv'
  BY <1>0, <1>1 DEF RequestInv
<1>2. ASSUME query' = query, job' = Error, job.at \in Asking,
             NEW facets, facets \subseteq Filterable(query[1].index), Refuses(query[2], facets)
      PROVE  RequestInv'
  <2>1. AskedFor(query)
    BY <1>2 DEF RequestInv
  <2>2. Amiss(query)
    BY <1>2, <2>1, RefusedAmiss
  <2>3. job'.at = "refused" /\ "refused" \notin Asking
    BY <1>2 DEF Error, Asking
  <2>4. QED
    BY <1>0, <1>2, <2>2, <2>3 DEF RequestInv
<1>3. ASSUME query' = query, job' = job PROVE RequestInv'
  BY <1>0, <1>3 DEF RequestInv
<1>4. CASE Ask
  <2>0. PICK r \in Requests : \E reading \in Readings(r.index, FilterOf(ParseFilterSpec(r))) :
          query' = <<r, AskedAs(r, reading)>> /\ job' = [at |-> "asked", next |-> Null]
    BY <1>4, Zenon DEF Ask, AskedAs
  <2>1. PICK reading \in Readings(r.index, FilterOf(ParseFilterSpec(r))) :
          query' = <<r, AskedAs(r, reading)>> /\ job' = [at |-> "asked", next |-> Null]
    BY <2>0
  <2> DEFINE q == AskedAs(r, reading)
  <2>2. SameRequest(q, ParseSearchQuery(r)) /\ q.reading = reading
    BY AskedAsIs
  <2>3. query'[1] = r /\ query'[2] = q
    BY <2>1
  <2> HIDE DEF q
  <2>4. AskedFor(query')
    BY <2>2, <2>3, Zenon DEF AskedFor
  <2>5. job'.at = "asked"
    BY <2>1
  <2>6. QED
    BY <2>4, <2>5 DEF RequestInv
<1>5. CASE FacetsPage
  <2>1. job.at \in Asking /\ query' = query
    BY <1>5 DEF FacetsPage, Asking
  <2>2. CASE job' = Error /\ Refuses(query[2], {})
    <3>1. {} \subseteq Filterable(query[1].index)
      OBVIOUS
    <3>2. QED
      BY <1>2, <2>1, <2>2, <3>1
  <2>3. CASE job'.at = "facets"
    BY <1>1, <2>1, <2>3
  <2>4. QED
    BY <1>5, <2>2, <2>3 DEF FacetsPage
<1>6. CASE FacetsCount
  <2>1. job.at = "facets" /\ query' = query /\ job = [at |-> job.at, next |-> job.next]
    BY <1>6 DEF FacetsCount, PagesInv, JobInv
  <2>2. job.at \in Asking
    BY <2>1 DEF Asking
  <2>3. CASE Refuses(query[2], ParseFacets(query[1]))
    <3>1. job' = Error
      BY <1>6, <2>3 DEF FacetsCount
    <3>2. ParseFacets(query[1]) \subseteq Filterable(query[1].index)
      BY DEF ParseFacets
    <3>3. QED
      BY <1>2, <2>1, <2>2, <2>3, <3>1, <3>2
  <2>4. CASE ~Refuses(query[2], ParseFacets(query[1]))
    <3>1. job' = [job EXCEPT !.at = IF job.next = Null THEN "ended" ELSE "shown"]
      BY <1>6, <2>4 DEF FacetsCount
    <3>2. job'.at \in {"ended", "shown"}
      BY <2>1, <3>1
    <3>3. QED
      BY <1>1, <2>1, <2>2, <3>2
  <2>5. QED
    BY <2>3, <2>4
<1>7. CASE FollowNext
  <2> DEFINE q == query[2]
             next == [q EXCEPT !.offset = job.next]
  <2>1. /\ job.at = "shown" /\ query' = [query EXCEPT ![2].offset = job.next]
        /\ job' = [at |-> "walking", next |-> Null]
    BY <1>7 DEF FollowNext
  <2>2. query = <<query[1], query[2]>> /\ ParsedQuery(q) /\ job.at \in Asking
    BY <2>1 DEF PagesInv, JobInv, Asking
  <2>3. DOMAIN query = {1, 2}
    BY <2>2
  <2>4. query'[1] = query[1] /\ query'[2] = next
    BY <2>1, <2>2, <2>3
  <2>5. SameRequest(next, q) /\ next.reading = q.reading
    BY <2>2 DEF ParsedQuery, SameRequest
  <2>6. AskedFor(query)
    BY <2>2 DEF RequestInv
  <2> HIDE DEF next
  <2>7. SameRequest(next, ParseSearchQuery(query[1]))
    BY <2>5, <2>6 DEF AskedFor, SameRequest
  <2>8. AskedFor(query')
    BY <2>4, <2>5, <2>6, <2>7, Zenon DEF AskedFor
  <2>9. job'.at = "walking"
    BY <2>1
  <2>10. QED
    BY <2>8, <2>9 DEF RequestInv
<1>8. CASE ExportPages
  <2>1. job.at \in Asking /\ query' = query /\ job'.at = "exporting"
    BY <1>8 DEF ExportPages, Asking
  <2>2. QED
    BY <1>1, <2>1
<1>9. CASE ExportStep
  <2>1. job.at = "exporting" /\ query' = query /\ job = [at |-> job.at, next |-> job.next]
    BY <1>9 DEF ExportStep, PagesInv, JobInv
  <2>2. job.at \in Asking
    BY <2>1 DEF Asking
  <2>3. CASE job' = Error /\ Refuses(query[2], {})
    <3>1. {} \subseteq Filterable(query[1].index)
      OBVIOUS
    <3>2. QED
      BY <1>2, <2>1, <2>2, <2>3, <3>1
  <2>4. CASE \E next : job' = [at |-> "exported", next |-> Null] \/ job' = [job EXCEPT !.next = next]
    <3>1. job'.at \in {"exported", "exporting"}
      BY <2>1, <2>4
    <3>2. QED
      BY <1>1, <2>1, <2>2, <3>1
  <2>5. QED
    BY <1>9, <2>3, <2>4 DEF ExportStep
<1>10. CASE Suggest
  <2>1. job'.at = "suggested"
    BY <1>10 DEF Suggest
  <2>2. QED
    BY <2>1 DEF RequestInv, Asking
<1>11. CASE Done
  <2>1. job'.at = "idle"
    BY <1>11 DEF Done, Nothing
  <2>2. QED
    BY <2>1 DEF RequestInv, Asking
<1>12. CASE Rebuilt
  BY <1>3, <1>12 DEF Rebuilt
<1>13. CASE UNCHANGED queryVars
  BY <1>3, <1>13 DEF queryVars
<1>14. QED
  BY <1>4, <1>5, <1>6, <1>7, <1>8, <1>9, <1>10, <1>11, <1>12, <1>13 DEF QueryNext

\* RequestInv holds throughout.
LEMMA RequestsKept == QuerySpec => []RequestInv
<1>1. QueryInit => PagesInv /\ RequestInv
  BY PagesInit, RequestInit
<1>2. PagesInv /\ RequestInv /\ [QueryNext]_queryVars => PagesInv' /\ RequestInv'
  BY PagesNext, RequestNext
<1>3. QED
  BY <1>1, <1>2, PTL DEF QuerySpec

\* The filter that is sent selects exactly what the parameters and the tree
\* say, whatever was dropped and however the groups nest, unless it is refused
\* or one of its literals does not end with its value; and a literal does that
\* has no backslash in it (qb_parser, filters, escape_filter_value).
THEOREM FiltersSelect == QuerySpec => []FilterSelects
<1>1. RequestInv => FilterSelects
  <2> SUFFICES ASSUME RequestInv PROVE FilterSelects
    OBVIOUS
  <2>1. ASSUME job.at = "asked"
        PROVE  \/ query[2].reading \in {<<{d \in Docs : Passes(d, query[1])}>>, Rejected}
               \/ "unquoted" \in FilterOf(query[2].filter).names
    <3> DEFINE r == query[1]
               text == FilterOf(ParseFilterSpec(r))
               names == Known(r.index) \cup {"date_min", "date_max"}
    <3>1. AskedFor(query)
      BY <2>1 DEF RequestInv, Asking
    <3>2. r \in Requests /\ query[2].filter = ParseFilterSpec(r) /\ query[2].reading \in Readings(r.index, text)
      BY <3>1 DEF AskedFor, SameRequest, ParseSearchQuery
    <3>3. Known(r.index) \subseteq names /\ {"date_min", "date_max"} \subseteq names
      OBVIOUS
    <3> HIDE DEF r, names
    <3>4. Selected(text) = {d \in Docs : Passes(d, r)}
      BY <3>2, <3>3, FilterMeans
    <3> HIDE DEF text
    <3>5. CASE "unquoted" \notin text.names
      <4>1. query[2].reading \in {<<Selected(text)>>, Rejected}
        BY <3>2, <3>5 DEF Readings
      <4>2. QED
        BY <3>4, <4>1 DEF r
    <3>6. CASE "unquoted" \in text.names
      BY <3>2, <3>6 DEF text
    <3>7. QED
      BY <3>5, <3>6
  <2>2. \A v \in DOMAIN Spelling : "backslash" \notin Range(Spelling[v]) => Quoted(v)
    BY QuotesEnd
  <2>3. QED
    BY <2>1, <2>2, Zenon DEF FilterSelects
<1>2. QED
  BY <1>1, RequestsKept, PTL

\* Rejected are bounds of dates for an index that has no dates, literals that do
\* not end with their values, and bounds that are not finite; no name that an
\* index was not configured with (sanitize_filter_spec, _parse_sort_spec,
\* parse_facet_attributes, _build_search_params).
THEOREM RequestsAnswered == QuerySpec => []Answered
<1>1. RequestInv => Answered
  BY DEF RequestInv, Answered, Amiss, DatesAstray
<1>2. QED
  BY <1>1, RequestsKept, PTL
=============================================================================
