-------------------------- MODULE SearchDocuments --------------------------
(* The search documents that are built from one text                        *)
(* (apps/search/documents: texts, clauses, people, places).  What is copied *)
(* from the manuscript of the text -- repository, date, shelfmark -- is the *)
(* same for all its documents and left out.                                 *)
EXTENDS TeiMarkup

\* graphs is the set of graphs that exist; their coordinates are their own.
Coordinates(annotation, graphs) == IF annotation \in graphs THEN annotation ELSE "none"

\* One document per clause, person or place, numbered in the order found.
FragmentDocuments(content, dpt, graphs) ==
    LET found == OfKind(content, dpt)
    IN [i \in DOMAIN found |->
          [id |-> <<dpt, i - 1>>, type |-> found[i].type, ref |-> found[i].ref,
           text |-> found[i].text, annotation |-> found[i].annotation,
           coordinates |-> Coordinates(found[i].annotation, graphs)]]
ClauseDocuments(content, graphs) == FragmentDocuments(content, "clause", graphs)
PersonDocuments(content, graphs) == FragmentDocuments(content, "person", graphs)
PlaceDocuments(content, graphs) == FragmentDocuments(content, "place", graphs)

\* A text points to the first region among its clauses, places and people.
FirstAnnotation(content) ==
    LET all == OfKind(content, "clause") \o OfKind(content, "place") \o OfKind(content, "person")
        named == SelectSeq(all, LAMBDA e : e.annotation # "none")
    IN IF named = <<>> THEN "none" ELSE Head(named).annotation
\* Names without repetitions, in order.
Distinct(names) ==
    FoldLeft(LAMBDA seen, n : IF n \in ToSet(seen) THEN seen ELSE Append(seen, n), <<>>, names)
NamesOf(content, dpt) == Distinct(Mapped(OfKind(content, dpt), LAMBDA e : e.text))
TextDocument(content, graphs) ==
    [text |-> PlainText(content), places |-> NamesOf(content, "place"),
     people |-> NamesOf(content, "person"), annotation |-> FirstAnnotation(content),
     coordinates |-> Coordinates(FirstAnnotation(content), graphs)]
=============================================================================
