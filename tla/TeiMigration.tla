---------------------------- MODULE TeiMigration ----------------------------
(* The commands that turn the texts of a database from data-dpt into TEI,   *)
(* back, and that embed and describe their links to regions                 *)
(* (apps/manuscripts/management/commands), run one after the other: either  *)
(* by the backup script on a scratch database of its own, or by hand on the *)
(* live one while editors link, unlink, redraw, write and delete.           *)
(*                                                                          *)
(* A command reads its rows in one query and writes them one by one, each   *)
(* in a transaction of its own; it may die in between.                      *)
EXTENDS SearchDocuments, FiniteSets

CONSTANTS Texts,        \* primary keys of ImageText
          Graphs,       \* primary keys of Graph
          ImageOf,      \* the image of each text and graph
          KindOf,       \* the annotation_type of each graph: "text" or another
          Selector,     \* the elementid each graph was imported with
          Corpus,       \* contents that texts may have at the start
          Typed,        \* contents an editor may write
          Plans,        \* sequences of commands that are run
          MaxEdits      \* bound: edits of the live database

ASSUME GraphsAssumption == Graphs \subseteq Digits
ASSUME DomainsAssumption ==
    DOMAIN ImageOf = Texts \cup Graphs /\ DOMAIN KindOf = Graphs /\ DOMAIN Selector = Graphs
\* A backup is dumped by the script only, whose last steps these are.
ASSUME PlansAssumption ==
    \A p \in Plans :
        /\ p \in Seq(Range(p))
        /\ \A i \in DOMAIN p : p[i] = "dump" =>
             i = Len(p) /\ i > 3 /\ p[i - 3] = "reencode" /\ p[i - 2] = "check" /\ p[i - 1] = "verify"

VARIABLES
  content, legacy,      \* ImageText.content and content_dpt_legacy
  texts, graphs,        \* the rows that exist
  elementid, oldElementid, shape,    \* annotation of a graph: the two properties
                                     \* the commands write, and its geometry
  plan, at,             \* commands to be run, and the one it is the turn of
  job,                  \* what the current command has read and not written
  dumped,               \* the script has written its backup
  edits,                \* how many edits there were
  wanted, drawn,        \* history: links that editors left, shapes they drew
  stored,               \* history: contents a text had other than by conversion
  stripped,             \* history: graphs that an editor has sent without the
                        \* two properties
  overrun               \* history: rows a command wrote on account of
                        \* something that was not, or no more, in the database,
                        \* and texts that embed has cut off

progress == <<plan, at, job, dumped>>
vars == <<content, legacy, texts, graphs, elementid, oldElementid, shape, progress,
          edits, wanted, drawn, stored, stripped, overrun>>

\* SQL NULL; a key that a JSON object lacks, or has with the value null.
Null == <<[ev |-> "null", name |-> "", attrs |-> <<>>]>>
Absent == <<"absent">>
JsonNull == <<"null">>

\* NULL is no content, and a converter leaves it alone; an imported selector is
\* missing rather than null.
ASSUME NullAssumption == DataDptToTei(Null) = Null
ASSUME SelectorAssumption == \A g \in Graphs : Selector[g] # JsonNull
\* A selector without a tag is passed over (parse_elementid); what editors and
\* importers write is markup as the program itself writes it.
ASSUME MarkupAssumption ==
    /\ \A g \in Graphs : Selector[g][1] = "tuple" => Selector[g][2].tag # ""
    /\ \A c \in Corpus \cup Typed : IsMarkup(c)

\* phase: what to read next, or "rows" when all has been read; found: the
\* references gathered by reencode; graph, texts: what embed is busy with.
Idle == [phase |-> "idle", todo |-> {}, found |-> [g \in Graphs |-> {}],
         graph |-> [key |-> "none"], texts |-> {}]
Command == IF at > Len(plan) THEN "none" ELSE plan[at]
Script == Len(plan) > 0 /\ Last(plan) = "dump"

Init == /\ plan \in Plans /\ at = 1 /\ job = Idle /\ dumped = FALSE
        /\ content \in [Texts -> Corpus]
        /\ legacy = [t \in Texts |-> Null]
        /\ texts = Texts /\ graphs = Graphs
        /\ elementid = Selector
        /\ oldElementid = [g \in Graphs |-> Absent]
        /\ shape = [g \in Graphs |-> 0] /\ drawn = shape
        /\ edits = 0 /\ overrun = {} /\ stripped = {}
        /\ wanted = [t \in Texts |-> ReferencedIds(content[t])]
        /\ stored = [t \in Texts |-> {content[t]}]

TextGraphs == {g \in graphs : KindOf[g] = "text"}

-----------------------------------------------------------------------------
(* How a command goes on.                                                   *)

Done == job' = Idle /\ at' = at + 1 /\ UNCHANGED <<plan, dumped>>
\* A command that fails ends the script (set -e); by hand the next one follows.
Stop == job' = Idle /\ at' = (IF Script THEN Len(plan) + 1 ELSE at + 1) /\ UNCHANGED <<plan, dumped>>
Read(phase, todo) ==
    job' = [job EXCEPT !.phase = phase, !.todo = todo] /\ UNCHANGED <<plan, at, dumped>>
Without(item) == job' = [job EXCEPT !.todo = @ \ {item}] /\ UNCHANGED <<plan, at, dumped>>
Overrun(key, stale) == overrun' = IF stale THEN overrun \cup {key} ELSE overrun

Row(t) == [key |-> t, content |-> content[t], legacy |-> legacy[t]]
GraphRow(g) == [key |-> g, elementid |-> elementid[g], old |-> oldElementid[g], shape |-> shape[g]]
OnTexts == UNCHANGED <<graphs, elementid, oldElementid, shape, edits, drawn, stripped>>
OnGraphs == UNCHANGED <<content, legacy, texts, graphs, edits, wanted, drawn, stored, stripped>>
OnNothing == OnTexts /\ UNCHANGED <<content, legacy, texts, wanted, stored, overrun>>

Crash == job # Idle /\ Stop /\ OnNothing
Finish == job.phase = "rows" /\ job.todo = {} /\ job.texts = {} /\ Done /\ OnNothing

\* migrate_imagetext_to_tei --apply.  The legacy column, once set, is the
\* source; a row that does not survive the round trip is left as it is.
ReadForApply ==
    Command = "apply" /\ job = Idle /\ Read("rows", {Row(t) : t \in texts}) /\ OnNothing
Source(row) == IF row.legacy = Null THEN row.content ELSE row.legacy
ApplyRow(row) ==
    /\ Command = "apply" /\ Converts(Source(row)) /\ row.key \in texts
    /\ content' = [content EXCEPT ![row.key] = DataDptToTei(Source(row))]
    /\ legacy' = [legacy EXCEPT ![row.key] = Source(row)]
    /\ Overrun(row.key, content[row.key] \notin {Source(row), DataDptToTei(Source(row))})
    /\ Without(row) /\ OnTexts /\ UNCHANGED <<texts, wanted, stored>>
SkipUnconverted(row) ==
    Command = "apply" /\ ~Converts(Source(row)) /\ Without(row) /\ OnNothing
\* save(update_fields) of a row deleted meanwhile raises.
RowGone(row) ==
    /\ \/ Command = "apply" /\ Converts(Source(row)) /\ row.key \notin texts
       \/ Command = "reverse" /\ row.key \notin texts
    /\ Stop /\ OnNothing

\* migrate_imagetext_to_tei --reverse.
ReadForReverse ==
    /\ Command = "reverse" /\ job = Idle /\ OnNothing
    /\ Read("rows", {Row(t) : t \in {u \in texts : legacy[u] # Null}})
ReverseRow(row) ==
    /\ Command = "reverse" /\ row.key \in texts
    /\ content' = [content EXCEPT ![row.key] = row.legacy]
    /\ legacy' = [legacy EXCEPT ![row.key] = Null]
    /\ Overrun(row.key, content[row.key] # DataDptToTei(row.legacy))
    /\ Without(row) /\ OnTexts /\ UNCHANGED <<texts, wanted, stored>>

\* reencode_graph_elementid --apply: which elements name which graph is
\* gathered first, then the graphs are read and written.
References(g) ==
    UNION {LET refs == GraphRefs(content[t])
           IN {<<t, i, [element |-> refs[i].element, type |-> refs[i].type, text |-> refs[i].text]>> :
                 i \in {j \in DOMAIN refs : g \in ToSet(refs[j].ids)}} : t \in texts}
ReadReferences ==
    /\ Command = "reencode" /\ job = Idle /\ OnNothing
    /\ job' = [job EXCEPT !.phase = "graphs", !.found = [g \in Graphs |-> References(g)]]
    /\ UNCHANGED <<plan, at, dumped>>
ReadGraphs ==
    /\ \/ Command = "reencode" /\ job.phase = "graphs"
       \/ Command = "restore" /\ job = Idle
    /\ Read("rows", {GraphRow(g) : g \in TextGraphs}) /\ OnNothing
\* The annotation is written whole, its geometry as it was read.
WriteAnnotation(row, new, old) ==
    /\ elementid' = [elementid EXCEPT ![row.key] = new]
    /\ oldElementid' = [oldElementid EXCEPT ![row.key] = old]
    /\ shape' = [shape EXCEPT ![row.key] = row.shape]
    /\ Overrun(row.key, shape[row.key] # row.shape)
    /\ Without(row) /\ OnGraphs
OrNull(value) == IF value = Absent THEN JsonNull ELSE value
\* Mutant: the selector is put aside again on every run.
ReencodeAgain(row) ==
    /\ Command = "reencode" /\ job.phase = "rows"
    /\ job.found[row.key] # {} /\ row.key \in graphs
    /\ WriteAnnotation(row, <<"refs", job.found[row.key]>>, OrNull(row.elementid))
ReencodeGraph(row) ==
    /\ Command = "reencode" /\ job.phase = "rows"
    /\ job.found[row.key] # {} /\ row.key \in graphs
    /\ WriteAnnotation(row, <<"refs", job.found[row.key]>>,
                       IF row.old = Absent THEN OrNull(row.elementid) ELSE row.old)
\* reencode_graph_elementid --reverse.
RestoreGraph(row) ==
    /\ Command = "restore" /\ row.old # Absent /\ row.key \in graphs
    /\ WriteAnnotation(row, IF row.old = JsonNull THEN Absent ELSE row.old, Absent)
Untouched(row) == \/ Command = "reencode" /\ job.phase = "rows" /\ job.found[row.key] = {}
                  \/ Command = "restore" /\ row.old = Absent
SkipGraph(row) == Untouched(row) /\ Without(row) /\ OnNothing
GraphGone(row) ==
    /\ Command \in {"reencode", "restore"} /\ job.phase = "rows"
    /\ ~Untouched(row) /\ row.key \notin graphs /\ Stop /\ OnNothing

\* embed_annotation_ids --from-graphs --apply: for each graph with a selector
\* the texts of its image are read, and those that change are saved whole:
\* a text deleted meanwhile is inserted again.
ReadSelectors ==
    /\ Command = "embed" /\ job = Idle /\ OnNothing
    /\ Read("rows", {GraphRow(g) : g \in {h \in graphs : elementid[h] # Absent}})
Selects(row) == row.elementid[1] = "tuple" /\ row.key \in graphs
ReadTexts(row) ==
    /\ Command = "embed" /\ job.texts = {} /\ Selects(row)
    /\ job' = [job EXCEPT !.todo = @ \ {row}, !.graph = row,
                          !.texts = {Row(t) : t \in {u \in texts : ImageOf[u] = ImageOf[row.key]}}]
    /\ UNCHANGED <<plan, at, dumped>> /\ OnNothing
SkipSelector(row) ==
    Command = "embed" /\ job.texts = {} /\ ~Selects(row) /\ Without(row) /\ OnNothing
Embed(row) == EmbedId(row.content, job.graph.elementid[2], job.graph.key)
Changes(row) == EmbedChanges(row.content, job.graph.elementid[2], job.graph.key)
Whole(row) == Closes(row.content, job.graph.elementid[2], job.graph.key)
WriteEmbedded(row) ==
    /\ Changes(row)
    /\ content' = [content EXCEPT ![row.key] = Embed(row)]
    /\ legacy' = [legacy EXCEPT ![row.key] = row.legacy]
    /\ texts' = texts \cup {row.key}
    /\ wanted' = [wanted EXCEPT ![row.key] = @ \cup {job.graph.key}]
    /\ stored' = [stored EXCEPT ![row.key] = @ \cup {Embed(row)}]
    /\ Overrun(row.key, row # Row(row.key) \/ row.key \notin texts \/ ~Whole(row))
EmbedText(row) ==
    /\ Command = "embed" /\ job' = [job EXCEPT !.texts = @ \ {row}]
    /\ UNCHANGED <<plan, at, dumped>>
    /\ \/ WriteEmbedded(row) /\ OnTexts
       \/ ~Changes(row) /\ OnNothing

\* check_text_links and verify_tei only read; a problem ends the script.
LinksResolve ==
    \A t \in texts : \A g \in ReferencedIds(content[t]) :
        g \in TextGraphs /\ ImageOf[g] = ImageOf[t]
AllWellFormed == \A t \in texts : WellFormed(content[t])
\* Mutant: problems are reported and the script goes on.
GateReports == Command \in {"check", "verify"} /\ job = Idle /\ OnNothing /\ Done
Gate == /\ Command \in {"check", "verify"} /\ job = Idle /\ OnNothing
        /\ IF (Command = "check" /\ LinksResolve) \/ (Command = "verify" /\ AllWellFormed)
           THEN Done ELSE Stop
Dump == /\ Command = "dump" /\ OnNothing
        /\ dumped' = TRUE /\ at' = at + 1 /\ UNCHANGED <<plan, job>>

CommandStep ==
    \/ ReadForApply \/ ReadForReverse \/ ReadReferences \/ ReadGraphs \/ ReadSelectors
    \/ Gate \/ Dump \/ Crash \/ Finish
    \/ \E row \in job.todo : \/ ApplyRow(row) \/ SkipUnconverted(row) \/ RowGone(row)
                             \/ ReverseRow(row)
                             \/ ReencodeGraph(row) \/ RestoreGraph(row) \/ SkipGraph(row)
                             \/ GraphGone(row)
                             \/ ReadTexts(row) \/ SkipSelector(row)
    \/ \E row \in job.texts : EmbedText(row)

-----------------------------------------------------------------------------
(* Editors of the live database.  RegionLinks has their own interleavings;  *)
(* here each of their requests is one step.                                 *)

Request == /\ ~Script /\ edits < MaxEdits /\ edits' = edits + 1
           /\ UNCHANGED <<legacy, progress, overrun>>
Edits == Request /\ UNCHANGED <<elementid, oldElementid, stripped>>
Rewrite(new, links) ==
    /\ content' = new /\ wanted' = links
    /\ stored' = [t \in Texts |-> stored[t] \cup {new[t]}]
    /\ UNCHANGED <<shape, drawn>>
LinkRegion(t, n, g) ==
    /\ Edits /\ t \in texts /\ g \in TextGraphs /\ ImageOf[g] = ImageOf[t]
    /\ n < LinkableCount(content[t])
    /\ Rewrite([content EXCEPT ![t] = AddGraphRef(@, n, g)],
               [wanted EXCEPT ![t] = @ \cup {g}])
    /\ UNCHANGED <<texts, graphs>>
UnlinkRegion(g) ==
    /\ Edits /\ g \in TextGraphs
    /\ Rewrite([t \in Texts |-> IF t \in texts /\ ImageOf[t] = ImageOf[g]
                                THEN RemoveGraphRef(content[t], g) ELSE content[t]],
               [t \in Texts |-> IF ImageOf[t] = ImageOf[g] THEN wanted[t] \ {g} ELSE wanted[t]])
    /\ graphs' = graphs \ {g} /\ UNCHANGED texts
WriteText(t, c) ==
    /\ Edits /\ t \in texts
    /\ Rewrite([content EXCEPT ![t] = c], [wanted EXCEPT ![t] = ReferencedIds(c)])
    /\ UNCHANGED <<texts, graphs>>
DeleteText(t) == /\ Edits /\ t \in texts /\ texts' = texts \ {t}
                 /\ UNCHANGED <<content, graphs, shape, wanted, drawn, stored>>
\* A PATCH replaces the annotation whole.  The editor's page sends the
\* properties along as they are, or as they were imported, if it was opened
\* before the commands ran; or it sends a geometry alone.
Replace(g, new, old) ==
    /\ Request /\ g \in graphs
    /\ elementid' = [elementid EXCEPT ![g] = new]
    /\ oldElementid' = [oldElementid EXCEPT ![g] = old]
    /\ shape' = [shape EXCEPT ![g] = @ + 1] /\ drawn' = [drawn EXCEPT ![g] = shape[g] + 1]
    /\ UNCHANGED <<content, texts, graphs, wanted, stored>>
Redraw(g) ==
    /\ Replace(g, elementid[g], oldElementid[g]) \/ Replace(g, Selector[g], Absent)
    /\ UNCHANGED stripped
RedrawBare(g) == Replace(g, Absent, Absent) /\ stripped' = stripped \cup {g}

Next == \/ CommandStep
        \/ \E t \in Texts, g \in Graphs, n \in 0..2 : LinkRegion(t, n, g)
        \/ \E g \in Graphs : UnlinkRegion(g) \/ Redraw(g) \/ RedrawBare(g)
        \/ \E t \in Texts : DeleteText(t) \/ \E c \in Typed : WriteText(t, c)

Spec == Init /\ [][Next]_vars

-----------------------------------------------------------------------------
(* Properties.                                                              *)

\* No command loses a link or a redrawing, except in rows that it wrote on
\* account of an earlier reading or of a legacy column older than the edit,
\* and in texts with an unclosed tag, <br> included, that embed cuts off: what a
\* text names is what its editors (and embed) made it name.
DrawingsSurvive == \A g \in graphs \ overrun : shape[g] = drawn[g]
EditsSurvive ==
    /\ \A t \in texts \ overrun : ReferencedIds(content[t]) = wanted[t]
    /\ DrawingsSurvive

\* What the reverse of a command would bring back is what there was: a content
\* that the text once had, and no selector but the one the graph was imported
\* with.  However often the commands are run, die and are run again, a graph
\* loses that selector to an editor alone, who replaced its annotation by one
\* without it.
Kept(g, new, old) == \/ old = Absent /\ new = Selector[g]
                     \/ old = OrNull(Selector[g])
Recoverable ==
    /\ \A t \in texts : legacy[t] = Null \/ legacy[t] \in stored[t]
    /\ \A g \in graphs : /\ oldElementid[g] \in {Absent, JsonNull, Selector[g]}
                         /\ g \in stripped \/ Kept(g, elementid[g], oldElementid[g])

\* Migrating a text, or rolling it back, changes neither which element an
\* editor's element_index addresses, nor what the elements name, nor the
\* documents that search builds from it.
Meaning(c) ==
    [linkable |-> LinkableCount(c),
     links |-> Mapped(GraphRefs(c), LAMBDA r : r.ids),
     documents |-> <<ClauseDocuments(c, graphs), PersonDocuments(c, graphs),
                     PlaceDocuments(c, graphs)>>,
     whole |-> TextDocument(Canonical(c), graphs)]
MeaningKept ==
    [][\A t \in texts : legacy'[t] # legacy[t] /\ t \notin overrun' =>
           Meaning(content'[t]) = Meaning(content[t])]_vars

\* A link names its graph on the element the editor pointed at and on no
\* other; everything else about the text stays as it was.  So does its being
\* XML, as long as start tags have their capitals (embed writes all tags in
\* lower case, the link helpers give end tags their capitals back).
Capitalised(c) == \A i \in DOMAIN c : c[i].ev = "start" => Canon(Lower(c[i].name)) = c[i].name
ExactlyLinked(t, n, g) ==
    LET old == Linkables(content[t])
        new == Linkables(content'[t])
    IN /\ Len(new) = Len(old)
       /\ \A i \in DOMAIN old :
            ToSet(IdsIn(new[i].attrs)) = ToSet(IdsIn(old[i].attrs))
                                         \cup (IF i = n + 1 THEN {g} ELSE {})
       /\ Capitalised(content[t]) =>
            /\ Capitalised(content'[t])
            /\ WellFormed(content[t]) => WellFormed(content'[t])
       /\ PlainText(content'[t]) = PlainText(content[t])
LinkIsExact ==
    [][\A t \in Texts, n \in 0..2, g \in Graphs :
         LinkRegion(t, n, g) => ExactlyLinked(t, n, g)]_vars

\* Renumbering links renames them all at once: exchanging two ids and
\* exchanging them back is the identity.
RenumberingIsExact ==
    \A t \in texts, g, h \in Graphs :
        LET swap == [k \in {g, h} |-> IF k = g THEN h ELSE g]
            new == RewriteGraphRefs(content[t], swap)
        IN /\ ReferencedIds(new) = {IF k \in {g, h} THEN swap[k] ELSE k :
                                        k \in ReferencedIds(content[t])}
           /\ RewriteGraphRefs(new, swap) = content[t]

\* Embedding the links of a graph a second time changes nothing, and once a
\* text is TEI it changes nothing at all; of a backup whose script embeds, every
\* selector that describes an element of its texts has been embedded.
EmbeddingSettles ==
    /\ \A t \in texts, g \in graphs : elementid[g][1] = "tuple" =>
         LET once == EmbedId(content[t], elementid[g][2], g)
         IN /\ ~EmbedChanges(once, elementid[g][2], g)
            /\ ReferencedIds(once) \subseteq ReferencedIds(content[t]) \cup {g}
            /\ LooksLikeTei(content[t]) => ~EmbedChanges(content[t], elementid[g][2], g)
    /\ dumped /\ plan[1] = "embed" =>
         \A t \in Texts, g \in TextGraphs :
            ImageOf[t] = ImageOf[g] /\ Selector[g][1] = "tuple" =>
              ~EmbedChanges(Source(Row(t)), Selector[g][2], g)

\* A backup that the script returns is sound: every link leads to a region of
\* the text's image, every text is XML, and every linked graph describes the
\* elements that name it as they are in the backup (set -e: what fails stops
\* the script before it dumps).
LinksDescribed ==
    \A g \in TextGraphs : References(g) # {} => elementid[g] = <<"refs", References(g)>>
DumpSound == dumped => LinksResolve /\ AllWellFormed /\ LinksDescribed

\* A backup holds no text that is still data-dpt.
DumpIsConverted ==
    dumped => \A t \in Texts : \A i \in DOMAIN content[t] : ~Has(content[t][i].attrs, "data-dpt")
=============================================================================
