----------------------------- MODULE TeiMarkup -----------------------------
(* The markup of a text (apps/manuscripts/services/tei, embed_annotation_   *)
(* ids.py, search/documents/dpt_parser.py): conversion between data-dpt     *)
(* spans and TEI elements, and the tokens that tie an element to a region.  *)
(*                                                                          *)
(* A content is the sequence of events that HTMLParser reports for it.      *)
(* Attributes are a sequence of pairs, since their order matters to the     *)
(* round trip; data-graph-id holds a sequence of ids, corresp a sequence of *)
(* tokens <<prefix, id>>, every other attribute a string.  Comments and     *)
(* declarations pass through everything and are left out.                   *)
EXTENDS SequencesExt, Integers

CONSTANT Digits      \* the strings that are a number: ids of graphs

Open(tag, attrs)  == [ev |-> "start", name |-> tag, attrs |-> attrs]
Empty(tag, attrs) == [ev |-> "empty", name |-> tag, attrs |-> attrs]
Close(tag)        == [ev |-> "end", name |-> tag, attrs |-> <<>>]
Data(text)        == [ev |-> "data", name |-> text, attrs |-> <<>>]
Entity(name)      == [ev |-> "entity", name |-> name, attrs |-> <<>>]

VoidElements == {"br", "img", "hr"}
XmlSafe == {"amp", "lt", "gt", "quot", "apos"}
Blanks == {" ", "nbsp"}              \* what \s matches

DptToTei == [clause |-> "seg", person |-> "persName", place |-> "placeName",
             ex |-> "ex", supplied |-> "supplied", lb |-> "lb"]
DptCat == [clause |-> "words", person |-> "chars", place |-> "chars",
           ex |-> "chars", supplied |-> "chars"]

\* HTMLParser folds the names of tags to lower case; what is emitted anew
\* needs its capital back.
Lower(tag) == CASE tag = "persName" -> "persname"
                [] tag = "placeName" -> "placename"
                [] OTHER -> tag
Canon(tag) == CASE tag = "persname" -> "persName"
                [] tag = "placename" -> "placeName"
                [] OTHER -> tag
TeiToDpt(tag) == {d \in DOMAIN DptToTei : Lower(DptToTei[d]) = tag}

Has(attrs, key) == \E i \in DOMAIN attrs : attrs[i][1] = key
Get(attrs, key, default) ==
    IF Has(attrs, key)
    THEN attrs[CHOOSE i \in DOMAIN attrs : attrs[i][1] = key][2] ELSE default
Put(attrs, key, value) ==
    IF Has(attrs, key)
    THEN [i \in DOMAIN attrs |-> IF attrs[i][1] = key THEN <<key, value>> ELSE attrs[i]]
    ELSE Append(attrs, <<key, value>>)
\* The elements of seq that are in S, in their order.
Only(seq, S) ==
    LET kept[i \in 0 .. Len(seq)] ==
            IF i = 0 THEN <<>>
            ELSE IF seq[i] \in S THEN Append(kept[i - 1], seq[i]) ELSE kept[i - 1]
    IN kept[Len(seq)]
Dropped(attrs, key) == Only(attrs, {a \in ToSet(attrs) : a[1] # key})
\* << <<to, value>> >> for a non-empty attribute, else nothing.
Carried(attrs, from, to) ==
    IF Get(attrs, from, "") = "" THEN <<>> ELSE << <<to, Get(attrs, from, "")>> >>

Mapped(seq, f(_)) == [i \in DOMAIN seq |-> f(seq[i])]
IsStart(t) == t.ev \in {"start", "empty"}

-----------------------------------------------------------------------------
(* The rewriters keep a stack of open elements: an end tag closes the       *)
(* element on top, whatever its name.                                       *)

Node(t) == [tag |-> Lower(t.name), attrs |-> t.attrs, parts |-> <<>>, own |-> <<>>]
Grown(stack, parts) == [stack EXCEPT ![Len(stack)].parts = @ \o parts]

Fed(stack, t, voids, render(_, _), entity(_)) ==
    CASE t.ev = "start" /\ t.name \notin voids -> Append(stack, Node(t))
      [] t.ev = "end" -> IF Len(stack) = 1 THEN stack
                         ELSE Grown(Front(stack), render(Last(stack), Lower(t.name)))
      [] t.ev = "data" -> [Grown(stack, <<t>>) EXCEPT ![Len(stack)].own = Append(@, t.name)]
      [] t.ev = "entity" -> Grown(stack, <<entity(t)>>)
      [] OTHER -> Grown(stack, <<t>>)
Root == <<Node(Open("", <<>>))>>
Same(t) == t
Verbatim(node) == <<Open(node.tag, node.attrs)>> \o node.parts \o <<Close(node.tag)>>

\* data-dpt -> TEI.
TeiAttrs(attrs, dpt) ==
    (IF dpt = "lb"
     THEN Carried(attrs, "data-dpt-src", "source")
          \o (IF Get(attrs, "data-dpt-cat", "") = "sep" THEN << <<"type", "sep">> >> ELSE <<>>)
     ELSE Carried(attrs, "data-dpt-type", "type"))
    \o (IF Get(attrs, "data-graph-id", <<>>) = <<>> THEN <<>>
        ELSE << <<"corresp", Mapped(Get(attrs, "data-graph-id", <<>>),
                                    LAMBDA id : <<"gid", id>>)>> >>)
RenderForward(node, closer) ==
    LET dpt == Get(node.attrs, "data-dpt", "")
    IN IF node.tag = "span" /\ dpt \in DOMAIN DptToTei
       THEN <<Open(DptToTei[dpt], TeiAttrs(node.attrs, dpt))>> \o node.parts
            \o <<Close(DptToTei[dpt])>>
       ELSE Verbatim(node)
\* HTML entities are unknown to XML: they become the character they name.
Decoded(t) == IF t.name \in XmlSafe THEN t ELSE Data(t.name)
ForwardStep(stack, t) == Fed(stack, t, VoidElements, RenderForward, Decoded)
DataDptToTei(content) ==
    LET stack == FoldLeft(ForwardStep, Root, content)
        Unclosed(i) == <<Open(stack[i].tag, stack[i].attrs)>> \o stack[i].parts
    IN stack[1].parts \o FlattenSeq([i \in 1..(Len(stack) - 1) |-> Unclosed(i + 1)])

\* TEI -> data-dpt; what is left open at the end is lost.
GraphIds(tokens) ==
    Mapped(Only(tokens, {t \in ToSet(tokens) : t[1] = "gid"}), LAMBDA t : t[2])
DptAttrs(attrs, dpt) ==
    << <<"data-dpt", dpt>> >>
    \o (IF dpt = "lb"
        THEN IF Get(attrs, "type", "") = "sep" THEN << <<"data-dpt-cat", "sep">> >> ELSE <<>>
        ELSE << <<"data-dpt-cat", DptCat[dpt]>> >> \o Carried(attrs, "type", "data-dpt-type"))
    \o Carried(attrs, "source", "data-dpt-src")
    \o (IF Get(attrs, "corresp", <<>>) = <<>> THEN <<>>
        ELSE << <<"data-graph-id", GraphIds(Get(attrs, "corresp", <<>>))>> >>)
RenderReverse(node, closer) ==
    IF TeiToDpt(node.tag) = {} THEN Verbatim(node)
    ELSE LET dpt == CHOOSE d \in TeiToDpt(node.tag) : TRUE
         IN <<Open("span", DptAttrs(node.attrs, dpt))>> \o node.parts \o <<Close("span")>>
ReverseStep(stack, t) == Fed(stack, t, VoidElements, RenderReverse, Same)
TeiToDataDpt(content) == FoldLeft(ReverseStep, Root, content)[1].parts

\* All entities decoded.
Canonical(content) == Mapped(content, LAMBDA t : IF t.ev = "entity" THEN Data(t.name) ELSE t)

\* Well-formed XML: every tag closed by its name, no HTML entity.
Nest(s, t) == CASE t.ev = "start" -> [s EXCEPT !.open = Append(@, t.name)]
                [] t.ev = "end" -> IF s.open # <<>> /\ Last(s.open) = t.name
                                   THEN [s EXCEPT !.open = Front(@)] ELSE [s EXCEPT !.error = TRUE]
                [] t.ev = "entity" /\ t.name \notin XmlSafe -> [s EXCEPT !.error = TRUE]
                [] OTHER -> s
WellFormed(content) ==
    LET unread == [open |-> <<>>, error |-> FALSE]
    IN FoldLeft(Nest, unread, content) = unread

\* What migrate_imagetext_to_tei asks of a row before it writes it.
\* Mutant: the round trip is not tried.
ConvertsUntried(legacy) == WellFormed(DataDptToTei(legacy))
Converts(legacy) ==
    /\ Canonical(TeiToDataDpt(DataDptToTei(legacy))) = Canonical(legacy)
    /\ WellFormed(DataDptToTei(legacy))

-----------------------------------------------------------------------------
(* Links: the tokens that name regions.                                     *)

DptSpan(t) == t.name = "span" /\ Has(t.attrs, "data-dpt")
Linkable(t) ==
    /\ IsStart(t)
    /\ \/ Lower(t.name) \in {"seg", "persname", "placename", "ex", "supplied", "lb"}
       \/ DptSpan(t)
Linkables(content) == Only(content, {t \in ToSet(content) : Linkable(t)})
LinkableCount(content) == Len(Linkables(content))

Numeric(ids) == Only(ids, Digits)
IdsIn(attrs) ==
    IF Get(attrs, "corresp", <<>>) # <<>>
    THEN Numeric(Mapped(Get(attrs, "corresp", <<>>), LAMBDA token : token[2]))
    ELSE Numeric(Get(attrs, "data-graph-id", <<>>))

\* parse_graph_refs: text goes to the nearest open element with ids; `open`
\* has one entry per start tag, void or not, and an end tag removes one.
RefStep(s, t) ==
    LET named == IdsIn(t.attrs) # <<>>
        ref == [ids |-> IdsIn(t.attrs), element |-> Lower(t.name), text |-> <<>>,
                type |-> Get(t.attrs, "type", Get(t.attrs, "data-dpt-type", ""))]
        nearest == SelectLastInSeq(s.open, LAMBDA i : i # 0)
    IN CASE IsStart(t) ->
              [refs |-> IF named THEN Append(s.refs, ref) ELSE s.refs,
               open |-> IF t.ev = "empty" THEN s.open
                        ELSE Append(s.open, IF named THEN Len(s.refs) + 1 ELSE 0)]
         [] t.ev = "end" /\ s.open # <<>> -> [s EXCEPT !.open = Front(@)]
         [] t.ev = "data" /\ nearest # 0 /\ t.name \notin Blanks ->
              [s EXCEPT !.refs[s.open[nearest]].text = Append(@, t.name)]
         [] OTHER -> s
GraphRefs(content) == FoldLeft(RefStep, [refs |-> <<>>, open |-> <<>>], content).refs
ReferencedIds(content) ==
    UNION {ToSet(IdsIn(content[i].attrs)) : i \in {j \in DOMAIN content : IsStart(content[j])}}

\* The position of the n-th linkable element, counted from 0.
Positions(content, n) ==
    {i \in DOMAIN content : /\ Linkable(content[i])
                            /\ LinkableCount(SubSeq(content, 1, i - 1)) = n}
WithRef(t, g) ==
    LET key == IF DptSpan(t) THEN "data-graph-id" ELSE "corresp"
        token == IF DptSpan(t) THEN g ELSE <<"gid", g>>
        old == Get(t.attrs, key, <<>>)
        new == IF token \in ToSet(old) THEN old ELSE Append(old, token)
    IN [t EXCEPT !.name = Canon(Lower(@)), !.attrs = Put(@, key, new)]
\* End tags are always emitted anew.
\* Mutant: in the lower case that the parser reports.
ReclosedLower(t) == IF t.ev = "end" THEN Close(Lower(t.name)) ELSE t
Reclosed(t) == IF t.ev = "end" THEN Close(Canon(Lower(t.name))) ELSE t
AddGraphRef(content, n, g) ==
    [i \in DOMAIN content |-> IF i \in Positions(content, n) THEN WithRef(content[i], g)
                              ELSE Reclosed(content[i])]

Unnamed(attrs, key, kept) ==
    IF Len(kept) = Len(Get(attrs, key, <<>>)) THEN attrs
    ELSE IF kept = <<>> THEN Dropped(attrs, key) ELSE Put(attrs, key, kept)
\* A tag that loses a reference is written anew, any other stays as it was.
WithoutRef(t, g) ==
    LET tokens == Get(t.attrs, "corresp", <<>>)
        ids == Get(t.attrs, "data-graph-id", <<>>)
        attrs == Unnamed(Unnamed(t.attrs, "corresp", Only(tokens, {k \in ToSet(tokens) : k[2] # g})),
                         "data-graph-id", Only(ids, ToSet(ids) \ {g}))
    IN IF attrs = t.attrs THEN t ELSE [t EXCEPT !.name = Canon(Lower(@)), !.attrs = attrs]
RemoveGraphRef(content, g) ==
    Mapped(content, LAMBDA t : IF IsStart(t) THEN WithoutRef(t, g) ELSE Reclosed(t))

\* Renumber by a regular expression over the attributes, in one pass.
\* Mutant: one id after the other.
RenumberedInTurn(attrs, new) ==
    LET One(as, old) == Mapped(as, LAMBDA a :
            CASE a[1] = "corresp" ->
                   <<a[1], Mapped(a[2], LAMBDA token :
                       IF token = <<"gid", old>> THEN <<"gid", new[old]>> ELSE token)>>
              [] a[1] = "data-graph-id" ->
                   <<a[1], Mapped(a[2], LAMBDA id : IF id = old THEN new[old] ELSE id)>>
              [] OTHER -> a)
    IN FoldLeft(One, attrs, SetToSeq(DOMAIN new))
Renumbered(attrs, new) ==
    Mapped(attrs, LAMBDA a :
        CASE a[1] = "corresp" ->
               <<a[1], Mapped(a[2], LAMBDA token :
                   IF token[1] = "gid" /\ token[2] \in DOMAIN new
                   THEN <<"gid", new[token[2]]>> ELSE token)>>
          [] a[1] = "data-graph-id" ->
               <<a[1], Mapped(a[2], LAMBDA id : IF id \in DOMAIN new THEN new[id] ELSE id)>>
          [] OTHER -> a)
RewriteGraphRefs(content, new) ==
    Mapped(content, LAMBDA t : [t EXCEPT !.attrs = Renumbered(@, new)])

\* embed_annotation_ids: name g on every span that the selector describes.
\* The rewriter knows no void elements.
Matches(node, spec) ==
    /\ node.tag = "span"
    /\ Get(node.attrs, "data-dpt", "") = spec.tag
    /\ spec.type # "" => Get(node.attrs, "data-dpt-type", "") = spec.type
    /\ spec.hint # "" => spec.hint \in ToSet(node.own)
\* Mutants: the ids that are there are replaced; the id goes to the TEI attribute.
EmbeddedAlone(attrs, g) == Put(attrs, "data-graph-id", <<g>>)
EmbeddedAsCorresp(attrs, g) == Put(attrs, "corresp", << <<"gid", g>> >>)
Embedded(attrs, g) ==
    LET ids == Get(attrs, "data-graph-id", <<>>)
    IN IF g \in ToSet(ids) THEN attrs ELSE Put(attrs, "data-graph-id", Append(ids, g))
\* The state of the rewriter has the selector and the id it was made for.
EmbedStep(s, t) ==
    LET matched(node) == Matches(node, s.spec)
        Render(node, closer) ==
            <<Open(node.tag, IF matched(node) THEN Embedded(node.attrs, s.id) ELSE node.attrs)>>
            \o node.parts \o <<Close(closer)>>
        lacks(node) == s.id \notin ToSet(Get(node.attrs, "data-graph-id", <<>>))
    IN [s EXCEPT !.stack = Fed(@, t, {}, Render, Same),
                 !.changed = \/ @
                             \/ /\ t.ev = "end" /\ Len(s.stack) > 1
                                /\ matched(Last(s.stack)) /\ lacks(Last(s.stack))]
EmbedParsed(content, spec, g) ==
    FoldLeft(EmbedStep, [stack |-> Root, changed |-> FALSE, spec |-> spec, id |-> g], content)
EmbedId(content, spec, g) == EmbedParsed(content, spec, g).stack[1].parts
EmbedChanges(content, spec, g) == EmbedParsed(content, spec, g).changed
\* Every start tag, that of a void element included, has an end tag.
Closes(content, spec, g) == Len(EmbedParsed(content, spec, g).stack) = 1

-----------------------------------------------------------------------------
(* Markup as the converters, the link helpers and the editor write it: an   *)
(* attribute once, the links of a data-dpt span in data-graph-id, of any    *)
(* other element in corresp, each as a token of its own with the prefix     *)
(* (parse_graph_refs takes a bare number for a link, too).                  *)

IsSeq(s) == s \in Seq(ToSet(s))
IsPair(p) == p = <<p[1], p[2]>>
IsToken(token) == IsPair(token) /\ (token[1] = "gid" \/ token[2] \notin Digits)
IsValue(key, value) ==
    /\ key = "corresp" => IsSeq(value) /\ \A i \in DOMAIN value : IsToken(value[i])
    /\ key = "data-graph-id" => IsSeq(value)
IsAttrs(attrs) ==
    /\ IsSeq(attrs)
    /\ \A i \in DOMAIN attrs : IsPair(attrs[i]) /\ IsValue(attrs[i][1], attrs[i][2])
    /\ \A i, j \in DOMAIN attrs : attrs[i][1] = attrs[j][1] => i = j
IsEvent(t) ==
    /\ t = [ev |-> t.ev, name |-> t.name, attrs |-> t.attrs] /\ IsAttrs(t.attrs)
    /\ Has(t.attrs, "corresp") => ~DptSpan(t)
    /\ Has(t.attrs, "data-graph-id") => DptSpan(t)
IsMarkup(content) == IsSeq(content) /\ \A i \in DOMAIN content : IsEvent(content[i])

-----------------------------------------------------------------------------
(* What search sees.                                                        *)

LooksLikeTei(content) ==
    /\ \A i \in DOMAIN content : ~Has(content[i].attrs, "data-dpt")
    /\ \E i \in DOMAIN content : IsStart(content[i]) /\ TeiToDpt(Lower(content[i].name)) # {}

FirstId(ids) == IF ids # <<>> /\ ids[1] \in Digits THEN ids[1] ELSE "none"
\* _DptExtractor: text goes to the nearest open clause, place or person, and
\* an element is reported when an end tag takes it off the stack.
ExtractStep(s, t) ==
    LET entry == [dpt |-> Get(t.attrs, "data-dpt", ""), type |-> Get(t.attrs, "data-dpt-type", ""),
                  ref |-> Get(t.attrs, "data-dpt-ref", ""),
                  annotation |-> FirstId(Get(t.attrs, "data-graph-id", <<>>)), text |-> <<>>]
        nearest == SelectLastInSeq(s.open, LAMBDA e : e.dpt \in {"clause", "place", "person"})
        closing == IF s.open = <<>> THEN entry ELSE Last(s.open)
    IN CASE t.ev = "start" -> [s EXCEPT !.open = Append(@, entry)]
         [] t.ev = "end" /\ s.open # <<>> ->
              [open |-> Front(s.open),
               found |-> IF closing.dpt \in {"clause", "place", "person"} /\ closing.text # <<>>
                         THEN Append(s.found, closing) ELSE s.found]
         [] t.ev \in {"data", "entity"} /\ nearest # 0 /\ t.name \notin Blanks ->
              [s EXCEPT !.open[nearest].text = Append(@, t.name)]
         [] OTHER -> s
Extracted(content) ==
    FoldLeft(ExtractStep, [open |-> <<>>, found |-> <<>>],
             IF LooksLikeTei(content) THEN TeiToDataDpt(content) ELSE content).found
OfKind(content, dpt) == SelectSeq(Extracted(content), LAMBDA e : e.dpt = dpt)

\* The full text of a document: markup stripped, entities left as they are.
PlainText(content) ==
    Only(content, {t \in ToSet(content) : /\ t.ev \in {"data", "entity"}
                                          /\ t \notin {Data(b) : b \in Blanks}})
=============================================================================
