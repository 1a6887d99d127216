--------------------------- MODULE MCTeiMigration ---------------------------
(* The instances of TeiMigration that TLC checks: two texts on two images,  *)
(* with contents after the constructs of the corpus.                        *)
EXTENDS TeiMigration

MCDigits == {"1", "2"}
MCTexts == {"t1", "t2"}
MCImageOf == [k \in {"t1", "t2", "1", "2"} |-> IF k \in {"t1", "1"} THEN "i1" ELSE "i2"]
AllText == [g \in MCDigits |-> "text"]
Spec1 == <<"tuple", [tag |-> "person", type |-> "", hint |-> "Willelmus"]>>
Selectors == [g \in MCDigits |-> IF g = "1" THEN Spec1 ELSE Absent]

Span(dpt, cat, rest) ==
    Open("span", << <<"data-dpt", dpt>>, <<"data-dpt-cat", cat>> >> \o rest)
Type(value) == << <<"data-dpt-type", value>> >>
Ids(ids) == << <<"data-graph-id", ids>> >>
Para(inner) == <<Open("p", <<>>)>> \o inner \o <<Close("p")>>

\* A linked clause around a person, an HTML entity and a line break.
Clause == Para(<<Span("clause", "words", Type("address") \o Ids(<<"1">>)), Data("salutem"),
                 Entity("nbsp"), Span("person", "chars", <<>>), Data("Willelmus"), Close("span"),
                 Close("span"), Empty("br", <<>>), Data("vale")>>)
\* A place with two regions, a separator, an expansion.
Place == Para(<<Span("place", "chars", Ids(<<"2", "1">>)), Data("Eboracum"), Close("span"),
                Open("span", << <<"data-dpt", "lb">>, <<"data-dpt-cat", "sep">>,
                                <<"data-dpt-src", "ms">> >>), Data("/"), Close("span"),
                Span("ex", "chars", <<>>), Data("us"), Close("span")>>)
\* Attributes out of order: the round trip fails, and so does the next.
Reordered == <<Open("span", Type("name") \o << <<"data-dpt", "person">>, <<"data-dpt-cat", "chars">> >>),
               Data("Willelmus"), Close("span")>>
WithAuthority == <<Span("person", "chars", << <<"data-dpt-ref", "viaf">> >> \o Ids(<<"2">>)),
                   Data("Willelmus"), Close("span")>>
\* Converted earlier, or written after the migration.
Tei == Para(<<Open("persName", << <<"corresp", << <<"gid", "2">> >> >> >>), Data("Ricardus"),
              Close("persName"), Open("seg", <<>>), Data("teste"), Close("seg")>>)
\* Truncated.
Unclosed == <<Open("p", <<>>), Span("ex", "chars", Ids(<<"2">>)), Data("us"), Close("span")>>
\* A bare line break.
Break == Para(<<Span("person", "chars", Ids(<<"2">>)), Data("Willelmus"), Close("span"),
                Open("br", <<>>), Data("vale")>>)

MCCorpus == {Clause, Place, Reordered, WithAuthority, Tei, Unclosed, Break}
MCTyped == {Para(<<Open("placeName", <<>>), Data("Eboracum"), Close("placeName")>>)}
Steps == <<"apply", "reencode", "check", "verify", "dump">>
MCPlans == {<<"apply", "apply">>, <<"apply", "reverse">>, <<"embed", "apply">>,
            <<"reencode", "reencode", "restore">>, Steps, <<"embed">> \o Steps}

\* For the gate alone.
SkippedAndNot == {Clause, Reordered}
ScriptOnly == {Steps}
=============================================================================
