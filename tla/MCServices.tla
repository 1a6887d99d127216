---------------------------- MODULE MCServices ----------------------------
(* Three services that share nothing but the database: which one a behaviour *)
(* is of is chosen at first, and the others stay as they start.               *)
EXTENDS LetterForms, SearchRegistry, SearchQueries, SearchJobs

CONSTANTS e1, e2

VARIABLE part

vars == <<part, formVars, queryVars, jobVars>>

Init ==
    /\ part \in {"forms", "queries", "jobs"}
    /\ FormsInit /\ JobsInit
    /\ IF part = "queries" THEN QueryInit
       ELSE /\ live = {} /\ swaps = 0 /\ query = <<>> /\ job = Nothing
            /\ rows = <<>> /\ total = 0 /\ steady = TRUE

Next ==
    /\ UNCHANGED part
    /\ \/ part = "forms" /\ FormsNext /\ UNCHANGED <<queryVars, jobVars>>
       \/ part = "queries" /\ QueryNext /\ UNCHANGED <<formVars, jobVars>>
       \/ part = "jobs" /\ JobsNext /\ UNCHANGED <<formVars, queryVars>>

Spec == Init /\ [][Next]_vars
-----------------------------------------------------------------------------
Symmetry == Permutations({e1, e2})

Letter(c, F) == [component |-> c, features |-> F]
MCDescriptions ==
    {<<>>, <<Letter("stem", {"long"}), Letter("bow", {})>>,
     <<Letter("bow", {}), Letter("bow", {})>>}

MCIndexes == <<"scribes", "texts">>
MCInitialRows == [scribes |-> 1, texts |-> 3]
-----------------------------------------------------------------------------
Text(type, from, to, places) ==
  [type |-> type, date_min |-> from, date_max |-> to, places |-> places, content |-> {7},
   shelfmark |-> IF places = {} THEN {31} ELSE IF 5 \in places THEN {7} ELSE {}]
Scribe(name) == [name |-> {name}, period |-> {12}]
MCValue == <<Text({1}, {1100}, {1110}, {}), Text({2}, {1120}, {1150}, {5}), Text({1}, {}, {}, {5, 6}),
             Text({3, 41}, {1090}, {1100}, {6}), Text({2}, {1130}, {1130}, {5, 6}), Text({}, {1100}, {1160}, {6}),
             Scribe(7), Scribe(8)>>
MCIndexOf == [d \in DOMAIN MCValue |-> IF d > 6 THEN "scribes" ELSE "texts"]
\* 41 has a quote in it; 42 ends in a backslash; 43 has one before a quote, 44 two.
MCSpelling == (41 :> <<"other", "quote">>) @@ (42 :> <<"other", "backslash">>)
  @@ (43 :> <<"backslash", "quote">>) @@ (44 :> <<"backslash", "backslash", "quote">>)
MCExact == [type_exact |-> "type", name_exact |-> "name"]
Cond(field, op, value, to) == [t |-> "cond", field |-> field, op |-> op, value |-> value, valueTo |-> to]
Conds == {Cond("type_exact", "is", 1, Null), Cond("places", "is_not", 5, Null),
          Cond("date_min", "between", 1095, 1125), Cond("sigla", "is", 1, Null)}
Marked == {Cond("type", "is", v, Null) : v \in {41, 42, 44}}
            \cup {Cond("type", "is_not", 41, Null), Cond("date_min", "gt", Infinite, Null)}
Group(op, items) == [t |-> "group", op |-> op, items |-> items]
Groups(S, T) == {Group(op, <<a, b>>) : op \in {"AND", "OR"}, a \in S, b \in T}
Pairs == Groups(Conds, Conds)
Trees == Pairs \cup Groups(Conds, Pairs) \cup Groups(Pairs, {p \in Pairs : p.items[1].field = "places"})
Words == Group("OR", <<Cond("type", "is", 2, Null), Cond("type", "is_empty", Null, Null),
                       Cond("content", "contains", 7, Null)>>)
MCHeight ==
  [n \in Conds \cup Marked \cup Trees \cup {Words, NullTree} \cup Range(Words.items) |->
     IF n.t # "group" THEN 0 ELSE IF \A k \in DOMAIN n.items : n.items[k].t # "group" THEN 1 ELSE 2]
Request(index, params, dates, qb, limit, offset) ==
  [index |-> index, params |-> params, dates |-> dates, qb |-> qb,
   sort |-> [attr |-> IF index = "texts" THEN "date_min" ELSE "type_exact", up |-> FALSE],
   words |-> <<>>, strategy |-> "last", fields |-> <<>>, facets |-> {}, limit |-> limit, offset |-> offset]
P(kind, attr, values) == [kind |-> kind, attr |-> attr, values |-> values]
Params == {<<>>, <<P("is", "type", <<1>>), P("is", "type_exact", <<2, 3>>), P("not", "places", <<6>>)>>,
  <<P("not", "type", <<1>>), P("not", "type_exact", <<2>>), P("not_empty", "places", <<1>>)>>,
  <<P("min", "date_min", <<1100>>), P("max", "date_min", <<1120>>), P("empty", "sigla", <<1>>)>>,
  <<P("min", "date_min", <<1100>>), P("min", "date_min", <<Null>>), P("empty", "type", <<1>>)>>}
MarkedParams == {<<P("is", "type", <<1, 41>>)>>, <<P("not", "type", <<43>>)>>,
  <<P("max", "date_min", <<Infinite>>)>>, <<P("max", "sigla", <<Infinite>>), P("is", "sigla", <<42>>)>>}
Dates == {NoDates} \cup {[least |-> 1100, most |-> m, precision |-> p, diff |-> d] :
    m \in {Null, 1155}, p \in {"", "at most", "at least"}, d \in {Null, 10}}
OfScribes(params, dates, words, fields, facets) ==
  [Request("scribes", params, dates, NullTree, Null, Null) EXCEPT
     !.words = words, !.strategy = "all", !.fields = fields, !.facets = facets]
MCRequests == {Request("texts", <<>>, NoDates, tree, 2, Null) : tree \in Trees}
  \cup {Request("texts", ps, NoDates, NullTree, Null, o) : ps \in Params, o \in {Null, 1}}
  \cup {Request("texts", ps, ds, qb, l, Null) : ps \in Params, ds \in Dates, l \in {0, 99}, qb \in {NullTree, Words}}
  \cup {Request("texts", <<>>, NoDates, c, 2, Null) : c \in Marked}
  \cup {Request("texts", ps, NoDates, NullTree, 2, Null) : ps \in MarkedParams}
  \cup {OfScribes(ps, ds, words, fields, facets) : ps \in Params, ds \in {NoDates, [NoDates EXCEPT !.most = 1200]},
          words \in {<<>>, <<7>>}, fields \in {<<>>, <<"period", "name">>}, facets \in {{}, {"places", "name"}}}
MCInputs == {[word |-> w, indexes |-> is, limit |-> l] :
  w \in {7, 31}, is \in {{}, {"texts", "folios"}}, l \in {Null, 0, 2, 99}}
MCContents == {1 .. 8, {2, 3, 4, 5, 7}}
=============================================================================
