---------------------------- MODULE LetterForms ----------------------------
(* The structure of one character - its allographs, their components, the   *)
(* features these have (apps/symbols_structure) - and the graphs that       *)
(* describe letters with them (apps/annotations).                           *)
(*                                                                          *)
(* A structure is read into a form, edited, and saved whole in one          *)
(* transaction.  A graph is saved with its components by a request without  *)
(* a transaction: the row, then the deletion of its components, then one    *)
(* insertion per component.  Several editors do this at once.               *)
EXTENDS SequencesExt, FiniteSets, Integers

CONSTANTS Components, Features,
          Glyphs,       \* primary keys of Graph
          Editors,
          LetterTypes,  \* annotation types that requests ask for
          Descriptions, \* sequences of components, with features, asked for
          MaxSaves      \* bound: saves, catalogue edits and deletions

None == 0               \* SQL NULL, or a key that a payload leaves out

ASSUME ComponentsAssumption == Components # {}
ASSUME GlyphsAssumption == Glyphs # {} /\ None \notin Glyphs
ASSUME DescriptionsAssumption == \A d \in Descriptions : d \in Seq(Range(d))

VARIABLES
  forms,        \* allograph -> its components: slot -> [component, features]
  catalogue,    \* component -> its features (Component.features)
  nextKey,      \* the database's sequence of keys
  graphs,       \* graph -> its row
  parts,        \* graph -> component -> features (GraphComponent)
  form,         \* what an editor has loaded
  request,      \* what is left of a request that writes a graph
  saves,        \* how many steps were counted towards MaxSaves
  told,         \* history: the components that were last asked for
  torn          \* history: graphs whose requests overlapped or broke off

structureVars == <<forms, catalogue, nextKey>>
letterVars == <<graphs, parts, told, torn>>
formVars == <<structureVars, letterVars, form, request, saves>>

NoForm == [loaded |-> FALSE, tree |-> <<>>]
NoRequest == [todo |-> "none", graph |-> None, row |-> <<>>, keeps |-> TRUE,
              parts |-> <<>>, asked |-> <<>>, alone |-> TRUE]

\* One allograph of one component, described in part; one letter of it.
FormsInit ==
    /\ forms = LET c == CHOOSE c \in Components : TRUE
                   f == CHOOSE f \in Features : TRUE
               IN [a \in {1} |-> [s \in {2} |-> [component |-> c, features |-> [x \in {f} |-> TRUE]]]]
    /\ catalogue = [c \in Components |-> Features]
    /\ nextKey = 3
    /\ graphs = LET first == CHOOSE g \in Glyphs : TRUE
                IN [g \in {first} |-> [type |-> "image", allograph |-> 1, hand |-> 7]]
    /\ parts = [g \in DOMAIN graphs |-> <<>>] /\ told = parts /\ torn = {}
    /\ form = [e \in Editors |-> NoForm]
    /\ request = [e \in Editors |-> NoRequest]
    /\ saves = 0

Limit == saves < MaxSaves /\ saves' = saves + 1
Only(f, S) == [x \in DOMAIN f \cap S |-> f[x]]
With(f, x, v) == [y \in DOMAIN f \cup {x} |-> IF y = x THEN v ELSE f[y]]
-----------------------------------------------------------------------------
(* Reading and editing the structure                                        *)

\* Mutant: a row counts as a default, whatever it says.
FormFeaturesListed(part) ==
    [f \in catalogue[part.component] |-> f \in DOMAIN part.features]

\* What a form shows of a component: the catalogue's features, each with the
\* default of its row, or FALSE.
FormFeatures(part) ==
    [f \in catalogue[part.component] |->
        f \in DOMAIN part.features /\ part.features[f]]

\* A component as a form shows it, and the allographs with theirs.
Shown(s, part) ==
    [id |-> s, component |-> part.component, features |-> FormFeatures(part)]
Reading(ids, order) ==
    [i \in DOMAIN ids |->
        LET a == ids[i]
        IN [id |-> a, parts |-> [j \in DOMAIN order[a] |-> Shown(order[a][j], forms[a][order[a][j]])]]]

\* The orders that the rows may come in: the allographs by their names, for
\* which their keys stand, the components of each as they come.
KeyOrders == {q \in SetToSeqs(DOMAIN forms) : \A i, j \in DOMAIN q : i < j => q[i] < q[j]}
RowOrders ==
    {o \in [DOMAIN forms -> UNION {SetToSeqs(DOMAIN forms[a]) : a \in DOMAIN forms}] :
        \A a \in DOMAIN forms : o[a] \in SetToSeqs(DOMAIN forms[a])}

Loaded == {Reading(ids, order) : ids \in KeyOrders, order \in RowOrders}

\* What the public list of allographs shows of a component: its own rows, or
\* the catalogue's features if it has none.
PublicFeatures(part) ==
    IF part.features # <<>> THEN part.features
    ELSE [f \in catalogue[part.component] |-> FALSE]

\* One default turned over, another component, other components.
Flipped(p, j, g) ==
    [p EXCEPT ![j].features = [f \in DOMAIN @ |-> IF f = g THEN ~@[f] ELSE @[f]]]
Moved(p, j, c) == [p EXCEPT ![j].component = c]
Replaced(tree, i, p) == [tree EXCEPT ![i].parts = p]

\* The trees an editor may make of the one loaded, with one change.
Edited(tree) ==
    LET new(c) == [id |-> None, component |-> c, features |-> [f \in catalogue[c] |-> FALSE]]
        ofParts(p) ==
          {Flipped(p, j, g) : j \in DOMAIN p, g \in Features}
          \cup {Append(p, new(c)) : c \in DOMAIN catalogue}
          \cup {Moved(p, j, c) : j \in DOMAIN p, c \in DOMAIN catalogue}
          \cup {RemoveAt(p, j) : j \in DOMAIN p}
    IN {tree, Append(tree, [id |-> None, parts |-> <<>>])}
       \cup {RemoveAt(tree, i) : i \in DOMAIN tree}
       \cup UNION {{Replaced(tree, i, p) : p \in ofParts(tree[i].parts)} : i \in DOMAIN tree}

LoadForm(e) ==
    /\ ~form[e].loaded
    /\ \E t \in Loaded : form' = [form EXCEPT ![e] = [loaded |-> TRUE, tree |-> t]]
    /\ UNCHANGED <<structureVars, letterVars, request, saves>>
-----------------------------------------------------------------------------
(* Saving the structure: update_structure                                   *)

Refused(s) == [s EXCEPT !.ok = FALSE]

\* One component: its row moves to the component submitted, unless the
\* allograph already has that one, and gets exactly the features submitted.
PutPart(s, part) ==
    LET slot == IF part.id = None THEN s.next ELSE part.id
        others == DOMAIN s.parts \ {slot}
    IN IF \/ ~s.ok
          \/ part.id # None /\ slot \notin DOMAIN s.parts
          \/ part.component \notin DOMAIN catalogue
          \/ \E o \in others : s.parts[o].component = part.component
       THEN Refused(s)
       ELSE [s EXCEPT !.next = @ + 1,
               !.parts = With(@, slot, [component |-> part.component, features |-> part.features])]

\* One allograph: components that were not submitted go first.
PutAllograph(s, item) ==
    LET a == IF item.id = None THEN s.next ELSE item.id
        old == IF item.id = None THEN <<>> ELSE s.forms[a]
        put == FoldLeft(PutPart,
                 [ok |-> TRUE, next |-> s.next + 1,
                  parts |-> Only(old, {item.parts[j].id : j \in DOMAIN item.parts})],
                 item.parts)
    IN IF ~s.ok \/ (item.id # None /\ a \notin DOMAIN s.forms) THEN Refused(s)
       ELSE [ok |-> put.ok, next |-> put.next, forms |-> With(s.forms, a, put.parts)]

\* Allographs that letters were described with cannot be deleted.
Used == {graphs[g].allograph : g \in DOMAIN graphs}

\* Mutant: allographs in use are deleted as well.
UpdateStructureFreely(tree) ==
    FoldLeft(PutAllograph,
      [ok |-> TRUE, next |-> nextKey, forms |-> Only(forms, {tree[i].id : i \in DOMAIN tree})],
      tree)

UpdateStructure(tree) ==
    LET kept == {tree[i].id : i \in DOMAIN tree}
    IN FoldLeft(PutAllograph,
         [ok |-> (DOMAIN forms \ kept) \cap Used = {}, next |-> nextKey, forms |-> Only(forms, kept)],
         tree)

\* Mutant: no transaction.
CommittedSoFar(s) ==
    forms' = s.forms /\ nextKey' = s.next

\* One transaction: what fails on the way takes everything back.
Committed(s) ==
    IF s.ok THEN forms' = s.forms /\ nextKey' = s.next ELSE UNCHANGED <<forms, nextKey>>

SaveForm(e) ==
    /\ Limit /\ form[e].loaded
    /\ \E tree \in Edited(form[e].tree) :
         LET s == UpdateStructure(tree)
         IN /\ Committed(s)
            /\ form' = [form EXCEPT ![e] = NoForm]
    /\ UNCHANGED <<catalogue, letterVars, request>>

\* PATCH of a component's features; the rows of allographs stay.
ChangeCatalogue ==
    /\ Limit
    /\ \E c \in DOMAIN catalogue, F \in SUBSET Features :
         F # catalogue[c] /\ catalogue' = [catalogue EXCEPT ![c] = F]
    /\ UNCHANGED <<forms, nextKey, letterVars, form, request>>

\* A component takes its slots and the descriptions that use it along.
DeleteComponent ==
    /\ Limit
    /\ \E c \in DOMAIN catalogue :
         LET Without(f) == Only(f, DOMAIN f \ {c})
         IN /\ catalogue' = Without(catalogue)
            /\ forms' = [a \in DOMAIN forms |->
                 Only(forms[a], {s \in DOMAIN forms[a] : forms[a][s].component # c})]
            /\ parts' = [g \in DOMAIN parts |-> Without(parts[g])]
            /\ told' = [g \in DOMAIN told |-> Without(told[g])]
    /\ UNCHANGED <<nextKey, graphs, torn, form, request>>

DeleteAllograph ==
    /\ Limit
    /\ \E a \in DOMAIN forms \ Used : forms' = Only(forms, DOMAIN forms \ {a})
    /\ UNCHANGED <<catalogue, nextKey, letterVars, form, request>>
-----------------------------------------------------------------------------
(* Saving a graph                                                           *)

\* The keys a request submits; the rest stays, or is bare in a new row.
Payloads ==
    {<<>>} \cup {"type" :> t @@ "allograph" :> None @@ "hand" :> None : t \in LetterTypes}
    \cup {"allograph" :> a @@ "hand" :> 7 : a \in DOMAIN forms}
    \cup {"type" :> "image"}

Bare == [type |-> "image", allograph |-> None, hand |-> None]

\* Annotations that are neither bare regions nor editorial are of an
\* allograph, by a hand: required of a request, and of every row.
Standard(row) == row.type \notin {"text", "editorial"}
Complete(row) == Standard(row) => row.allograph # None /\ row.hand # None

Busy(g) == {e \in Editors : request[e].todo # "none" /\ request[e].graph = g}

\* A PATCH works on the row as it was read here.
StartPatch(e) ==
    /\ Limit /\ request[e].todo = "none"
    /\ \E g \in DOMAIN graphs, payload \in Payloads, keeps \in BOOLEAN, d \in Descriptions :
         LET row == payload @@ graphs[g]
             others == Busy(g)
         IN /\ Complete(row) /\ (keeps => d = <<>>)
            /\ request' = [o \in Editors |->
                 IF o = e THEN [todo |-> "row", graph |-> g, row |-> row, keeps |-> keeps,
                                parts |-> d, asked |-> d, alone |-> others = {}]
                 ELSE IF o \in others THEN [request[o] EXCEPT !.alone = FALSE]
                 ELSE request[o]]
            /\ torn' = IF others = {} THEN torn ELSE torn \cup {g}
    /\ UNCHANGED <<structureVars, graphs, parts, told, form>>

StartPost(e) ==
    /\ Limit /\ request[e].todo = "none"
    /\ \E payload \in Payloads, d \in Descriptions :
         LET row == payload @@ Bare
         IN /\ Complete(row)
            /\ request' = [request EXCEPT ![e] =
                 [todo |-> "create", graph |-> None, row |-> row, keeps |-> FALSE,
                  parts |-> d, asked |-> d, alone |-> TRUE]]
    /\ UNCHANGED <<structureVars, letterVars, form>>

\* What the database refuses ends the request where it is.
Broken(e) ==
    /\ request' = [request EXCEPT ![e] = NoRequest]
    /\ torn' = torn \cup ({request[e].graph} \ {None})
    /\ UNCHANGED <<graphs, parts, told>>

Valid(row) == Complete(row) /\ row.allograph \in DOMAIN forms \cup {None}

\* Every column is written, from the row as it was read; a row that has gone
\* meanwhile is inserted again.
WriteRow(e) ==
    LET r == request[e]
    IN /\ r.todo = "row"
       /\ IF ~Valid(r.row) THEN Broken(e)
          ELSE /\ graphs' = With(graphs, r.graph, r.row)
               /\ parts' = [g \in DOMAIN graphs' |-> IF g \in DOMAIN parts THEN parts[g] ELSE <<>>]
               /\ request' = [request EXCEPT ![e] =
                    IF r.keeps THEN NoRequest ELSE [r EXCEPT !.todo = "clear"]]
               /\ UNCHANGED <<told, torn>>
    /\ UNCHANGED <<structureVars, form, saves>>

CreateRow(e) ==
    LET r == request[e]
    IN /\ r.todo = "create"
       /\ IF ~Valid(r.row) THEN Broken(e)
          ELSE \E g \in Glyphs \ DOMAIN told :
                 /\ graphs' = With(graphs, g, r.row)
                 /\ parts' = With(parts, g, <<>>)
                 /\ told' = With(told, g, <<>>)
                 /\ request' = [request EXCEPT ![e].todo = "add", ![e].graph = g]
                 /\ UNCHANGED torn
    /\ UNCHANGED <<structureVars, form, saves>>

\* Mutant: a request without components leaves those there are.
ClearPartsIfAny(e) ==
    LET r == request[e]
    IN /\ r.todo = "clear"
       /\ parts' = [h \in DOMAIN parts |-> IF h = r.graph /\ r.parts # <<>> THEN <<>> ELSE parts[h]]
       /\ request' = [request EXCEPT ![e].todo = "add"]
    /\ UNCHANGED <<structureVars, graphs, told, torn, form, saves>>

ClearParts(e) ==
    LET g == request[e].graph
    IN /\ request[e].todo = "clear"
       /\ parts' = [h \in DOMAIN parts |-> IF h = g THEN <<>> ELSE parts[h]]
       /\ request' = [request EXCEPT ![e].todo = "add"]
    /\ UNCHANGED <<structureVars, graphs, told, torn, form, saves>>

\* One component at a time; none twice, none of a graph that has gone.
AddPart(e) ==
    LET r == request[e]
        d == Head(r.parts)
    IN /\ r.todo = "add" /\ r.parts # <<>>
       /\ IF \/ d.component \notin DOMAIN catalogue
             \/ r.graph \notin DOMAIN graphs
             \/ d.component \in DOMAIN parts[r.graph]
          THEN Broken(e)
          ELSE /\ parts' = [parts EXCEPT ![r.graph] = With(@, d.component, d.features)]
               /\ request' = [request EXCEPT ![e].parts = Tail(@)]
               /\ UNCHANGED <<graphs, told, torn>>
    /\ UNCHANGED <<structureVars, form, saves>>

\* The answer of a request that went through.
FinishParts(e) ==
    LET r == request[e]
    IN /\ r.todo = "add" /\ r.parts = <<>>
       /\ request' = [request EXCEPT ![e] = NoRequest]
       /\ told' = With(told, r.graph,
            [c \in {d.component : d \in Range(r.asked)} \cap DOMAIN catalogue |->
                (CHOOSE d \in Range(r.asked) : d.component = c).features])
       /\ torn' = IF r.alone THEN torn \ {r.graph} ELSE torn
    /\ UNCHANGED <<structureVars, graphs, parts, form, saves>>

\* DELETE, in a transaction; its components go with the row.
DeleteGraph ==
    /\ Limit
    /\ \E g \in DOMAIN graphs :
         LET Without(f) == Only(f, DOMAIN f \ {g})
         IN /\ graphs' = Without(graphs) /\ parts' = Without(parts)
            /\ torn' = torn \cup {g}
    /\ UNCHANGED <<structureVars, told, form, request>>

FormsNext ==
    \/ \E e \in Editors :
         \/ LoadForm(e) \/ SaveForm(e) \/ StartPatch(e) \/ StartPost(e)
         \/ WriteRow(e) \/ CreateRow(e) \/ ClearParts(e) \/ AddPart(e) \/ FinishParts(e)
    \/ ChangeCatalogue \/ DeleteComponent \/ DeleteAllograph \/ DeleteGraph

FormsSpec == FormsInit /\ [][FormsNext]_formVars
-----------------------------------------------------------------------------
(* Properties                                                               *)

\* The explicit rows of the tree that was submitted, by allograph.
Submitted(tree) ==
    {{[component |-> tree[i].parts[j].component, features |-> tree[i].parts[j].features]
        : j \in DOMAIN tree[i].parts} : i \in DOMAIN tree}

Stored == {{forms[a][s] : s \in DOMAIN forms[a]} : a \in DOMAIN forms}

\* A save of the structure is all or nothing: what is then stored is one of
\* the forms the editor could submit, whole, whoever saved since it was
\* loaded; or, when a row was refused, the first or the last, nothing changed
\* (CharacterStructureService.update_structure).
StructureSaved ==
    [][\A e \in Editors :
         form[e].loaded /\ ~form'[e].loaded =>
           \/ Stored' \in {Submitted(tree) : tree \in Edited(form[e].tree)}
           \/ UNCHANGED structureVars]_formVars

\* Opening the form and saving it as it is leaves every default that the
\* public list shows, of the features the catalogue knows, although it turns
\* implied features into rows of their own and drops rows of features that
\* left the catalogue (get_allographs of the form, get_features of the list).
Defaults(part) ==
    LET shown == PublicFeatures(part)
    IN [component |-> part.component,
        features |-> {f \in catalogue[part.component] \cap DOMAIN shown : shown[f]}]

DefaultsOf(someForms) ==
    [a \in DOMAIN someForms |-> {Defaults(someForms[a][s]) : s \in DOMAIN someForms[a]}]

DefaultsKept ==
    \A tree \in Loaded :
        LET s == UpdateStructure(tree)
        IN s.ok /\ DefaultsOf(s.forms) = DefaultsOf(forms)

\* A graph is described by the components that the last request asked for,
\* once no request is at work on it, unless requests overlapped on it or one
\* stopped half way, which nothing takes back (GraphWriteMixin has no
\* transaction).
DescriptionKept ==
    \A g \in DOMAIN graphs :
        g \notin torn /\ Busy(g) = {} => parts[g] = told[g]

\* Every annotation of a letter keeps its hand and an allograph that exists,
\* however structures are saved, allographs deleted and annotations retyped
\* meanwhile (PROTECT of Graph.allograph, the check constraint).
LettersStand ==
    \A g \in DOMAIN graphs :
        /\ Standard(graphs[g]) => graphs[g].hand # None
        /\ graphs[g].allograph \in DOMAIN forms \cup {None}
        /\ Standard(graphs[g]) => graphs[g].allograph # None
=============================================================================
