--------------------------- MODULE SearchQueries ---------------------------
(* Queries of the search indexes: a request's parameters and query-builder   *)
(* tree become a filter expression for Meilisearch, and pages of hits come   *)
(* back, page by page from one reader or all of them in an export, while the *)
(* index may be rebuilt (apps/search/parsers, qb_parser, filter_contract,    *)
(* meilisearch/filters, meilisearch/reader, views_search).                   *)
EXTENDS SequencesExt, FiniteSetsExt, Integers

CONSTANTS Lists,        \* index -> its lists of attributes, of which Registry has all
          Value,        \* document -> attribute -> its values
          IndexOf,      \* document -> its index
          Exact,        \* names with "_exact" -> without
          Spelling,     \* value that holds any -> its "quote"s, "backslash"es and
                        \* "other" characters
          Height,       \* node of a query-builder tree -> levels below it
          Requests,     \* what is asked
          Inputs,       \* what suggestions are asked for: word, indexes, limit
          Contents,     \* what rebuilds may put into the indexes
          ExportPage,   \* export_page_size: 200
          MaxRows,      \* max_rows: 2000
          MaxLimit,     \* max_limit: 100, or 200 for an export
          MaxSuggestions,   \* 10
          MaxSwaps      \* bound: rebuilds

\* Nothing that is wrong with an expression is called as an attribute.
ASSUME NamesAssumption == \A i \in DOMAIN Lists : Lists[i].filterable \cap {"unquoted", "infinite"} = {}
ASSUME SpellingAssumption == \A v \in DOMAIN Spelling : Spelling[v] \in Seq(Range(Spelling[v]))
ASSUME SizesAssumption ==
    /\ IsFiniteSet(DOMAIN Value) /\ DOMAIN IndexOf = DOMAIN Value
    /\ ExportPage \in Nat \ {0} /\ MaxRows \in Nat /\ MaxLimit \in Nat \ {0}
    /\ MaxSuggestions \in Nat \ {0}
    /\ \A r \in Requests : r.limit \in Int /\ r.offset \in Int
    /\ \A p \in Inputs : p.limit \in Int
\* Trees are JSON, and so finite.
ASSUME TreesAssumption ==
    \A node \in DOMAIN Height :
        /\ Height[node] \in Nat
        /\ node.t = "group" =>
             /\ node.items \in Seq(DOMAIN Height)
             /\ \A n \in DOMAIN node.items : Height[node.items[n]] < Height[node]
\* A parameter without a value is none.
ASSUME RequestsAssumption ==
    \A r \in Requests :
        /\ r.qb \in DOMAIN Height
        /\ r.params \in Seq(Range(r.params))
        /\ \A p \in Range(r.params) :
             /\ p = [kind |-> p.kind, attr |-> p.attr, values |-> p.values]
             /\ p.values \in Seq(Range(p.values)) \ {<<>>}

Docs == DOMAIN Value
Nodes == DOMAIN Height
Filterable(i) == Lists[i].filterable
Sortable(i) == Lists[i].sortable
Searchable(i) == Lists[i].searchable
\* Of an attribute that a document lacks, none.
Values(d, attr) == IF attr \in DOMAIN Value[d] THEN Value[d][attr] ELSE {}

Null == -1              \* None, and a string that is no number
Infinite == -2          \* what float() reads "inf" and "nan" as
Rejected == <<>>         \* Meilisearch's answer to what it cannot read
NullTree == [t |-> "none"]

VARIABLES
  live,         \* the documents the indexes hold
  swaps,        \* how many rebuilds there were
  query,        \* SearchQuery of the request at work
  job,          \* what the request is at
  rows,         \* the hits collected
  total,        \* of the last page
  steady        \* history: no rebuild since the first page

queryVars == <<live, swaps, query, job, rows, total, steady>>
-----------------------------------------------------------------------------
(* Meilisearch's filter language.  An expression is kept as it reads: the    *)
(* alternatives between its ORs, each the factors between its ANDs, each a   *)
(* condition or a parenthesis, of which only the documents it selects matter,*)
(* and with the attributes it names and what is wrong in it: a literal that  *)
(* does not end where its value does, a bound that is not finite.            *)

Selected(text) ==
    UNION {{d \in Docs : \A j \in DOMAIN alt : d \in alt[j]} : alt \in Range(text.alts)}

Atom(attr, S, flaws) == [or |-> FALSE, alts |-> << <<S>> >>, names |-> {attr} \cup flaws]
Paren(text) == [text EXCEPT !.alts = << <<Selected(text)>> >>]

\* Written one after the other with an operator between: AND binds tighter.
WithOr(p, q) == [or |-> TRUE, alts |-> p.alts \o q.alts, names |-> p.names \cup q.names]
WithAnd(p, q) ==
    [or |-> p.or \/ q.or, names |-> p.names \cup q.names,
     alts |-> Front(p.alts) \o << Last(p.alts) \o Head(q.alts) >> \o Tail(q.alts)]

Joined(Op(_, _), texts) == FoldLeft(Op, Head(texts), Tail(texts))

\* A value is written between quotes.  To Meilisearch a backslash takes the
\* special meaning from whatever comes next, and the first quote that still has
\* its meaning ends the literal.
EscapeFilterValue(c) == IF c = "quote" THEN <<"backslash", "quote">> ELSE <<c>>
ReadChar(state, c) ==
    CASE state = "inside" /\ c = "quote" -> "ended"
      [] state = "inside" /\ c = "backslash" -> "escaped"
      [] state = "escaped" -> "inside"
      [] state = "ended" -> "beyond"
      [] OTHER -> state
ReadValue(state, c) == FoldLeft(ReadChar, state, EscapeFilterValue(c))
Quoted(v) ==
    v \in DOMAIN Spelling => ReadChar(FoldLeft(ReadValue, "inside", Spelling[v]), "quote") = "ended"

Literal(v) == IF Quoted(v) THEN {} ELSE {"unquoted"}
Is(attr, v) == Atom(attr, {d \in Docs : v \in Values(d, attr)}, Literal(v))
IsNot(attr, v) == Atom(attr, {d \in Docs : v \notin Values(d, attr)}, Literal(v))
Number(n) == IF n = Infinite THEN {"infinite"} ELSE {}
AtLeast(attr, n) == Atom(attr, {d \in Docs : \E v \in Values(d, attr) : v >= n}, Number(n))
AtMost(attr, n) == Atom(attr, {d \in Docs : \E v \in Values(d, attr) : v <= n}, Number(n))
\* A null is not an attribute that is missing, or "" or []; drop_none leaves
\* out what is None, so that no document holds a null.
IsNull(attr) == Atom(attr, {}, {})
IsNotNull(attr) == Atom(attr, Docs, {})

\* What an expression may be taken for.  If one of its literals ends early or
\* late, the rest is read as what it happens to look like.
Readings(i, text) ==
    IF "unquoted" \in text.names THEN {<<S>> : S \in SUBSET Docs} \cup {Rejected}
    ELSE IF text.names \subseteq Filterable(i) THEN {<<Selected(text)>>} ELSE {Rejected}
-----------------------------------------------------------------------------
(* The query builder's tree                                                  *)

NormalizeAttr(i, attr) ==
    IF attr \notin Filterable(i) /\ attr \in DOMAIN Exact /\ Exact[attr] \in Filterable(i)
    THEN Exact[attr] ELSE attr

\* What a node comes to: an expression, or none, and the words that are
\* looked for in the text instead.
Result(exprs, words) == [exprs |-> exprs, words |-> words]

\* Conditions on fields the index does not filter by, and bounds that are no
\* numbers, are dropped.
EvalCond(i, c) ==
    LET f == NormalizeAttr(i, c.field)
    IN IF f \notin Filterable(i) THEN Result(<<>>, <<>>)
       ELSE CASE c.op \in {"contains", "starts_with"} ->
                   Result(<<>>, << [op |-> c.op, field |-> f, value |-> c.value] >>)
              [] c.op = "is_empty" -> Result(<<IsNull(f)>>, <<>>)
              [] c.op = "is_not_empty" -> Result(<<IsNotNull(f)>>, <<>>)
              [] c.op = "is" -> Result(<<Is(f, c.value)>>, <<>>)
              [] c.op = "is_not" -> Result(<<IsNot(f, c.value)>>, <<>>)
              [] c.op = "gt" /\ c.value # Null -> Result(<<AtLeast(f, c.value)>>, <<>>)
              [] c.op = "lt" /\ c.value # Null -> Result(<<AtMost(f, c.value)>>, <<>>)
              [] c.op = "between" /\ Null \notin {c.value, c.valueTo} ->
                   Result(<<Paren(WithAnd(AtLeast(f, c.value), AtMost(f, c.valueTo)))>>, <<>>)
              [] OTHER -> Result(<<>>, <<>>)

AndGroup(texts) ==
    Joined(WithAnd, [i \in DOMAIN texts |-> IF texts[i].or THEN Paren(texts[i]) ELSE texts[i]])
OrGroup(texts) == Paren(Joined(WithOr, texts))

EvalGroup(op, results) ==
    LET exprs == FlattenSeq([n \in DOMAIN results |-> results[n].exprs])
        words == FlattenSeq([n \in DOMAIN results |-> results[n].words])
    IN Result(IF exprs = <<>> THEN <<>> ELSE IF op = "OR" THEN <<OrGroup(exprs)>> ELSE <<AndGroup(exprs)>>,
              words)

EvalNode(i, tree) ==
    LET eval[node \in Nodes] ==
          IF node.t = "cond" THEN EvalCond(i, node)
          ELSE IF node.t = "group"
          THEN EvalGroup(node.op, [n \in DOMAIN node.items |-> eval[node.items[n]]])
          ELSE Result(<<>>, <<>>)
    IN eval[tree]
-----------------------------------------------------------------------------
(* The parameters                                                            *)

NoDates == [least |-> Null, most |-> Null, precision |-> "", diff |-> Null]
NoSpec == [equal |-> <<>>, not_equal |-> <<>>, least |-> <<>>, most |-> <<>>,
           empty |-> {}, not_empty |-> {}, words |-> <<>>]

Put(f, attr, v) == [x \in DOMAIN f \cup {attr} |-> IF x = attr THEN v ELSE f[x]]
Old(f, attr) == IF attr \in DOMAIN f THEN f[attr] ELSE {}

\* One parameter: of those for one attribute the last counts, except that
\* exclusions add up.  A "selected_facets" entry is a parameter of one value.
\* (What does not read as a number is no bound, and takes the old one away.)
Named(i, params) ==
    [n \in DOMAIN params |-> [params[n] EXCEPT !.attr = NormalizeAttr(i, @)]]
Param(spec, p) ==
    LET attr == p.attr
        v == Head(p.values)
    IN CASE p.kind = "is" -> [spec EXCEPT !.equal = Put(@, attr, Range(p.values))]
         [] p.kind = "not" -> [spec EXCEPT !.not_equal = Put(@, attr, Old(@, attr) \cup Range(p.values))]
         [] p.kind = "min" -> [spec EXCEPT !.least = Put(@, attr, v)]
         [] p.kind = "max" -> [spec EXCEPT !.most = Put(@, attr, v)]
         [] p.kind = "empty" -> [spec EXCEPT !.empty = @ \cup {attr}]
         [] p.kind = "not_empty" -> [spec EXCEPT !.not_empty = @ \cup {attr}]
         [] OTHER -> \* "contains", "starts_with"
              [spec EXCEPT !.words = Append(@, [op |-> p.kind, field |-> attr, value |-> v])]

\* The bounds of dates pass through, whatever the index has.
SanitizeFilterSpec(i, spec) ==
    LET Allowed(f) == [x \in DOMAIN f \cap Filterable(i) |-> f[x]]
    IN [equal |-> Allowed(spec.equal), not_equal |-> Allowed(spec.not_equal),
        least |-> Allowed(spec.least), most |-> Allowed(spec.most),
        empty |-> spec.empty \cap Filterable(i), not_empty |-> spec.not_empty \cap Filterable(i),
        words |-> SelectSeq(spec.words, LAMBDA w : w.field \in Filterable(i))]

\* contains and starts_with are dictionaries: of two for one field the last
\* one stays, at the place of the first, and all of contains comes first.
Dict(words, op) ==
    LET own == SelectSeq(words, LAMBDA w : w.op = op)
        IsFirst(i) == \A j \in 1 .. i - 1 : own[j].field # own[i].field
        final(i) == Last(SelectSeq(own, LAMBDA w : w.field = own[i].field))
    IN FlattenSeq([i \in DOMAIN own |-> IF IsFirst(i) THEN <<final(i)>> ELSE <<>>])

ParseFilterSpec(request) ==
    LET i == request.index
        base == FoldLeft(Param, NoSpec, Named(i, request.params))
        qb == EvalNode(i, request.qb)
        spec == SanitizeFilterSpec(i, [base EXCEPT !.words = @ \o qb.words])
    IN [spec |-> [spec EXCEPT !.words = Dict(@, "contains") \o Dict(@, "starts_with")],
        dates |-> request.dates, qb |-> qb.exprs]

\* At most, or at least, so many years after min_date.
DateDiff(dates) ==
    IF dates.diff = Null \/ dates.least = Null THEN {}
    ELSE CASE dates.precision = "at most" -> {AtMost("date_max", dates.least + dates.diff)}
           [] dates.precision = "at least" -> {AtLeast("date_max", dates.least + dates.diff)}
           [] OTHER -> {}

\* Mutant: without parentheses.
AnyOfBare(attr, values) ==
    Joined(WithOr, SetToSeq({Is(attr, v) : v \in values}))

AnyOf(attr, values) ==
    Paren(Joined(WithOr, SetToSeq({Is(attr, v) : v \in values})))

\* Every part is a condition or in parentheses, and all of them must hold.
Given(f) == {attr \in DOMAIN f : f[attr] # Null}
PartsOfSpec(spec) ==
    {AnyOf(attr, spec.equal[attr]) : attr \in DOMAIN spec.equal}
    \cup (UNION {{IsNot(attr, v) : v \in spec.not_equal[attr]} : attr \in DOMAIN spec.not_equal})
    \cup {AtLeast(attr, spec.least[attr]) : attr \in Given(spec.least)}
    \cup {AtMost(attr, spec.most[attr]) : attr \in Given(spec.most)}
    \cup {IsNull(attr) : attr \in spec.empty}
    \cup {IsNotNull(attr) : attr \in spec.not_empty}
PartsOfDates(dates) ==
    {AtLeast("date_min", n) : n \in {dates.least} \ {Null}}
    \cup {AtMost("date_max", n) : n \in {dates.most} \ {Null}}
    \cup DateDiff(dates)
MeilisearchFilter(filter) ==
    PartsOfSpec(filter.spec) \cup PartsOfDates(filter.dates)
    \cup {Paren(filter.qb[n]) : n \in DOMAIN filter.qb}

\* No part is no filter.
NoFilter == [or |-> FALSE, alts |-> << <<Docs>> >>, names |-> {}]
FilterOf(filter) ==
    LET parts == MeilisearchFilter(filter)
    IN IF parts = {} THEN NoFilter ELSE Joined(WithAnd, SetToSeq(parts))
-----------------------------------------------------------------------------
(* Searching                                                                 *)

Clamp(n, default, least, most) ==
    IF n = Null THEN default ELSE IF n < least THEN least ELSE IF n > most THEN most ELSE n

\* No offset is too large.
FromZero(n) == IF n < 0 THEN 0 ELSE n

\* Only what the index sorts by; nothing sorts by rank, here by key.
ByRank == [attr |-> "rank", up |-> TRUE]

\* Mutant: "_exact" is stripped without a look at the list.
ParseSortUnchecked(i, sort) ==
    IF sort.attr \in Sortable(i) THEN sort
    ELSE IF sort.attr \in DOMAIN Exact THEN [sort EXCEPT !.attr = Exact[sort.attr]]
    ELSE ByRank

ParseSort(i, sort) ==
    LET attr == IF sort.attr \in DOMAIN Exact /\ Exact[sort.attr] \in Sortable(i)
                THEN Exact[sort.attr] ELSE sort.attr
    IN IF attr \in Sortable(i) THEN [attr |-> attr, up |-> sort.up] ELSE ByRank

\* Facets that are asked for, or the default ones of the index.
ParseFacets(request) ==
    IF request.facets # {} THEN request.facets \cap Filterable(request.index)
    ELSE Lists[request.index].facets \cap Filterable(request.index)

ParseSearchQuery(request) ==
    [index |-> request.index, filter |-> ParseFilterSpec(request), reading |-> <<>>,
     sort |-> ParseSort(request.index, request.sort),
     words |-> request.words, strategy |-> request.strategy,
     fields |-> Range(request.fields) \cap Searchable(request.index),
     limit |-> Clamp(request.limit, 20, 1, MaxLimit), offset |-> FromZero(request.offset)]

\* Words of contains and starts_with are looked for together with those of
\* the request, and all of them in the fields that any of them names.
Lifted(words, i) == SelectSeq(words, LAMBDA w : w.field \in Searchable(i))
QueryText(q) ==
    LET lifted == Lifted(q.filter.spec.words, q.index)
    IN q.words \o [n \in DOMAIN lifted |-> lifted[n].value]
SearchedIn(q) ==
    LET named == q.fields \cup ({w.field : w \in Range(q.filter.spec.words)} \cap Searchable(q.index))
    IN IF named = {} THEN Searchable(q.index) ELSE named

\* Meilisearch: all words, or some of the first ones.
TextHits(q) ==
    LET words == QueryText(q)
        Holds(d, w) == \E f \in SearchedIn(q) : w \in Values(d, f)
    IN {d \in Docs : IF q.strategy = "all" THEN \A w \in Range(words) : Holds(d, w)
                     ELSE words = <<>> \/ Holds(d, Head(words))}

\* In the order asked for, which the index keeps from page to page.
Key(sort, d) ==
    IF Values(d, sort.attr) = {} THEN 0
    ELSE LET v == CHOOSE v \in Values(d, sort.attr) : TRUE IN IF sort.up THEN v ELSE 0 - v
Before(sort, d, e) ==
    Key(sort, d) < Key(sort, e) \/ (Key(sort, d) = Key(sort, e) /\ d < e)

Found(q, documents) ==
    {d \in documents : IndexOf[d] = q.index} \cap q.reading[1] \cap TextHits(q)
InOrder(sort, found) ==
    [n \in 1 .. Cardinality(found) |->
        CHOOSE d \in found : Cardinality({e \in found : Before(sort, e, d)}) = n - 1]
Hits(q, documents) == InOrder(q.sort, Found(q, documents))

Prefix(s, n) == SubSeq(s, 1, IF n < Len(s) THEN n ELSE Len(s))

\* A word looked for in all fields, without a filter.
FirstHits(i, word, most) ==
    Prefix(Hits([index |-> i, filter |-> [spec |-> NoSpec, dates |-> NoDates, qb |-> <<>>],
                 reading |-> <<Docs>>, sort |-> ByRank, words |-> <<word>>, strategy |-> "last",
                 fields |-> {}], live), most)

\* What the index was not told to filter, sort or search by is an error.
Refuses(q, facets) ==
    \/ q.reading = Rejected \/ ~(facets \subseteq Filterable(q.index))
    \/ q.sort.attr \notin Sortable(q.index) \cup {"rank"}
    \/ ~(SearchedIn(q) \subseteq Searchable(q.index))

Page(hits, offset, limit) ==
    [hits |-> SubSeq(hits, offset + 1, IF offset + limit < Len(hits) THEN offset + limit ELSE Len(hits)),
     total |-> Len(hits), limit |-> limit]
-----------------------------------------------------------------------------
(* Requests: a page with its facets, the next one, an export, suggestions    *)

Nothing == [at |-> "idle", next |-> Null]
Error == [at |-> "refused", next |-> Null]

QueryInit ==
    /\ live \in Contents /\ swaps = 0
    /\ query = <<>> /\ job = Nothing /\ rows = <<>> /\ total = 0 /\ steady = TRUE

Ask ==
    /\ job.at = "idle"
    /\ \E r \in Requests : \E reading \in Readings(r.index, FilterOf(ParseFilterSpec(r))) :
         /\ query' = <<r, [ParseSearchQuery(r) EXCEPT !.reading = reading]>>
         /\ job' = [at |-> "asked", next |-> Null]
    /\ rows' = <<>> /\ total' = 0 /\ steady' = TRUE
    /\ UNCHANGED <<live, swaps>>

\* The view searches once for the hits and then again for the facets; the
\* links to other pages come from the first.
FacetsPage ==
    /\ job.at \in {"asked", "walking"}
    /\ LET q == query[2]
       IN \/ /\ Refuses(q, {})
             /\ job' = Error /\ UNCHANGED <<rows, total>>
          \/ /\ ~Refuses(q, {})
             /\ \E page \in {Page(Hits(q, live), q.offset, q.limit)} :
                  /\ rows' = rows \o page.hits /\ total' = page.total
                  /\ job' = [at |-> "facets",
                       next |-> IF q.offset + q.limit < page.total THEN q.offset + q.limit ELSE Null]
    /\ UNCHANGED <<live, swaps, query, steady>>

FacetsCount ==
    /\ job.at = "facets"
    /\ job' = IF Refuses(query[2], ParseFacets(query[1])) THEN Error
              ELSE [job EXCEPT !.at = IF job.next = Null THEN "ended" ELSE "shown"]
    /\ UNCHANGED <<live, swaps, query, rows, total, steady>>

\* The reader follows the link: the same parameters, another offset.
FollowNext ==
    /\ job.at = "shown"
    /\ query' = [query EXCEPT ![2].offset = job.next]
    /\ job' = [at |-> "walking", next |-> Null]
    /\ UNCHANGED <<live, swaps, rows, total, steady>>

\* An export of all takes pages of its own size, whatever the request says.
ExportPages ==
    /\ job.at = "asked"
    /\ job' = [at |-> "exporting", next |-> 0]
    /\ UNCHANGED <<live, swaps, query, rows, total, steady>>

\* Mutant: the offset moves by the limit of the request.
AdvanceByDisplay(offset, page) == offset + query[2].limit

Advance(offset, page) == offset + page.limit

ExportStep ==
    /\ job.at = "exporting"
    /\ \/ Refuses(query[2], {}) /\ job' = Error /\ UNCHANGED <<rows, total>>
       \/ /\ ~Refuses(query[2], {})
          /\ \E page \in {Page(Hits(query[2], live), job.next, ExportPage)} :
               LET more == Advance(job.next, page)
                   collected == rows \o page.hits
                   isLast == page.hits = <<>> \/ Len(collected) >= page.total \/ more >= MaxRows
               IN /\ total' = page.total
                  /\ rows' = IF isLast THEN Prefix(collected, MaxRows) ELSE collected
                  /\ job' = IF isLast THEN [at |-> "exported", next |-> Null] ELSE [job EXCEPT !.next = more]
    /\ UNCHANGED <<live, swaps, query, steady>>

Labels == <<"display_label", "shelfmark", "name", "allograph", "locus">>
Label(d) ==
    LET given == SelectSeq(Labels, LAMBDA attr : Values(d, attr) # {})
    IN IF given = <<>> THEN {} ELSE Values(d, given[1])

\* The first hits, one of each label; with the passage when the word was found
\* in the text, and not in the label only.
AddLabelled(chosen, d) ==
    IF Label(d) = {} \/ \E n \in DOMAIN chosen : Label(chosen[n]) = Label(d)
    THEN chosen ELSE Append(chosen, d)
Suggestions(i, word, documents) ==
    LET chosen == FoldLeft(AddLabelled, <<>>, documents)
    IN [n \in DOMAIN chosen |->
          [id |-> chosen[n], label |-> Label(chosen[n]),
           snippet |-> "content" \in Searchable(i) /\ word \in Values(chosen[n], "content")]]

\* One request for all indexes that are named and known, all if none is named.
Suggest ==
    /\ job.at = "idle"
    /\ \E p \in Inputs :
         LET indexes == IF p.indexes = {} THEN DOMAIN Lists ELSE p.indexes \cap DOMAIN Lists
             most == Clamp(p.limit, 5, 1, MaxSuggestions)
         IN /\ query' = <<[word |-> p.word, most |-> most]>>
            /\ rows' = [i \in indexes |-> Suggestions(i, p.word, FirstHits(i, p.word, most))]
    /\ job' = [at |-> "suggested", next |-> Null] /\ total' = 0 /\ steady' = TRUE
    /\ UNCHANGED <<live, swaps>>

Done ==
    /\ job.at \in {"ended", "exported", "shown", "refused", "suggested"}
    /\ job' = Nothing /\ query' = <<>> /\ rows' = <<>> /\ total' = 0 /\ steady' = TRUE
    /\ UNCHANGED <<live, swaps>>

\* A rebuild swaps the index, in between.
Rebuilt ==
    /\ swaps < MaxSwaps /\ swaps' = swaps + 1
    /\ live' \in Contents \ {live}
    /\ steady' = FALSE
    /\ UNCHANGED <<query, job, rows, total>>

QueryNext ==
    \/ Ask \/ FacetsPage \/ FacetsCount \/ FollowNext \/ ExportPages \/ ExportStep
    \/ Suggest \/ Done \/ Rebuilt

QuerySpec == QueryInit /\ [][QueryNext]_queryVars
-----------------------------------------------------------------------------
(* Properties                                                               *)

\* What a tree says: a set of documents, or <<>> when nothing in it counts.
SaysCond(i, c) ==
    LET f == NormalizeAttr(i, c.field)
        From(n) == {d \in Docs : \E v \in Values(d, f) : v >= n}
        UpTo(n) == {d \in Docs : \E v \in Values(d, f) : v <= n}
    IN IF f \notin Filterable(i) THEN {}
       ELSE CASE c.op = "is" -> {{d \in Docs : c.value \in Values(d, f)}}
              [] c.op = "is_not" -> {{d \in Docs : c.value \notin Values(d, f)}}
              [] c.op = "gt" /\ c.value # Null -> {From(c.value)}
              [] c.op = "lt" /\ c.value # Null -> {UpTo(c.value)}
              [] c.op = "between" /\ Null \notin {c.value, c.valueTo} ->
                   {From(c.value) \cap UpTo(c.valueTo)}
              [] c.op = "is_empty" -> {{}}
              [] c.op = "is_not_empty" -> {Docs}
              [] OTHER -> {}
SaysGroup(op, parts) ==
    IF parts = {} THEN {}
    ELSE IF op = "OR" THEN {UNION parts} ELSE {{d \in Docs : \A part \in parts : d \in part}}
Says(i, tree) ==
    LET says[node \in Nodes] ==
          IF node.t = "cond" THEN SaysCond(i, node)
          ELSE IF node.t = "group"
          THEN SaysGroup(node.op, UNION {says[node.items[n]] : n \in DOMAIN node.items})
          ELSE {}
    IN says[tree]

\* A document passes the parameters when it passes the last one given for
\* every attribute, and all exclusions.  None is empty: it may lack the
\* attribute, or hold "" or [], but Meilisearch's IS NULL means null.
Passes(d, request) ==
    LET ps == request.params
        name(i) == NormalizeAttr(request.index, ps[i].attr)
        IsLast(i) == \A j \in i + 1 .. Len(ps) : ~(ps[j].kind = ps[i].kind /\ name(j) = name(i))
        values(i) == Values(d, name(i))
        dates == request.dates
        Ends(n) == \E y \in Values(d, "date_max") : y >= n
        EndsBy(n) == \E y \in Values(d, "date_max") : y <= n
    IN /\ \A i \in {j \in DOMAIN ps : name(j) \in Filterable(request.index)} :
            LET n == Head(ps[i].values)
            IN CASE ps[i].kind = "is" -> IsLast(i) => values(i) \cap Range(ps[i].values) # {}
                 [] ps[i].kind = "not" -> values(i) \cap Range(ps[i].values) = {}
                 [] ps[i].kind = "min" -> IsLast(i) /\ n # Null => \E v \in values(i) : v >= n
                 [] ps[i].kind = "max" -> IsLast(i) /\ n # Null => \E v \in values(i) : v <= n
                 [] ps[i].kind = "empty" -> FALSE
                 [] OTHER -> TRUE
       /\ dates.least # Null => \E y \in Values(d, "date_min") : y >= dates.least
       /\ dates.most # Null => EndsBy(dates.most)
       /\ dates.least # Null /\ dates.diff # Null /\ dates.precision = "at most" =>
            EndsBy(dates.least + dates.diff)
       /\ dates.least # Null /\ dates.diff # Null /\ dates.precision = "at least" =>
            Ends(dates.least + dates.diff)
       /\ \A part \in Says(request.index, request.qb) : d \in part

\* The expression that is sent, read with the precedence of Meilisearch,
\* selects what the parameters and the tree say, however the groups nest and
\* whichever conditions are dropped (qb_parser, filters: parentheses are only
\* put where they look necessary); or it is refused, see Answered.  Not so if a
\* literal does not end with its value.  That no value does to a literal which
\* only has quotes in it; one with a backslash may (escape_filter_value).
FilterSelects ==
    /\ job.at = "asked" =>
         \/ query[2].reading \in {<<{d \in Docs : Passes(d, query[1])}>>, Rejected}
         \/ "unquoted" \in FilterOf(query[2].filter).names
    /\ \A v \in DOMAIN Spelling : "backslash" \notin Range(Spelling[v]) => Quoted(v)

\* A reader who follows the links from the first page to the last sees every
\* hit once and in order; an export has the first MaxRows of them; suggestions
\* lose no label of the first hits, and show none twice; if the index was not
\* rebuilt in between (facets, _collect_export_rows, suggest).
PagesWhole ==
    /\ steady /\ job.at \in {"ended", "exported"} =>
         \A all \in {Hits(query[2], live)} :
           /\ job.at = "ended" /\ query[1].offset = Null => rows = all
           /\ job.at = "exported" => rows = Prefix(all, MaxRows)
    /\ steady /\ job.at = "suggested" =>
         \A i \in DOMAIN rows :
           LET found == {Label(d) : d \in Range(FirstHits(i, query[1].word, query[1].most))}
           IN /\ {item.label : item \in Range(rows[i])} = found \ {{}}
              /\ IsInjective([n \in DOMAIN rows[i] |-> rows[i][n].label])

\* Whatever is asked for, Meilisearch is only asked about attributes that the
\* index was configured with; but the bounds of dates reach indexes without
\* dates, of which Meilisearch then answers no request (sanitize_filter_spec,
\* _parse_sort_spec, parse_facet_attributes, _build_search_params).  For the
\* rest, it refuses bounds that are not finite, and literals that do not end.
Answered ==
    job.at = "refused" =>
        \/ /\ query[1].dates.least # Null \/ query[1].dates.most # Null
           /\ ~({"date_min", "date_max"} \subseteq Filterable(query[1].index))
        \/ FilterOf(query[2].filter).names \cap {"unquoted", "infinite"} # {}
=============================================================================
