----------------------------- MODULE RegionLinks -----------------------------
(***************************************************************************)
(* The links between the texts of one image and its regions.  A region is  *)
(* a Graph with annotation_type "text"; a text names it by a token in its  *)
(* markup, which no foreign key protects.  link_region and unlink_region   *)
(* of src/apps/manuscripts/views.py write the tokens, and the pre_delete   *)
(* signal of src/apps/manuscripts/signals.py strips them whichever way a   *)
(* Graph is deleted.                                                       *)
(*                                                                         *)
(* Requests run concurrently at READ COMMITTED.  A SELECT takes one step   *)
(* and returns committed rows over the request's own writes; an UPDATE     *)
(* takes one step, waits while another transaction has written the row,    *)
(* and writes what was computed from the SELECT; COMMIT makes the writes   *)
(* visible.  The transactions that write one text take one step.  Content  *)
(* is abstracted to the set of graphs that the text names.                 *)
(***************************************************************************)
EXTENDS Naturals

CONSTANTS
  Requests,   \* concurrent requests, each with the client that sends it
  NTexts,     \* texts of the image, in the order of ImageText.Meta.ordering
  Graphs,     \* primary keys the sequence may still issue
  Endpoints   \* which of AllEndpoints clients use

AllEndpoints == {"link", "unlink", "delete", "retype", "import", "edit"}

Texts == 1 .. NTexts

ASSUME TextsAssumption == NTexts \in Nat \ {0}
ASSUME GraphsAssumption == Graphs # {}
ASSUME EndpointAssumption == Endpoints \subseteq AllEndpoints

VARIABLES
  present,   \* the texts that exist
  content,   \* the graphs each text names, as committed
  kind,      \* of each graph: text, other (of another type or image), unissued or deleted
  pc,        \* what each request is doing
  text,      \* the text it addresses
  graph,     \* the graph it addresses
  found,     \* the kind of that graph as it read or wants to write it
  seen,      \* the texts as it read and wrote them
  locked,    \* the texts it has written and not committed
  raced,     \* history: texts written, or left alone, on account of a stale read
  retyped    \* history: graphs that a PATCH has made other than regions

tables == <<present, content, kind>>
request == <<pc, text, graph, found, seen, locked>>
history == <<raced, retyped>>
vars == <<tables, request, history>>

Existing == {"text", "other"}
Kinds == Existing \cup {"unissued", "deleted"}

TypeOK ==
  /\ present \subseteq Texts
  /\ content \in [Texts -> SUBSET Graphs]
  /\ kind \in [Graphs -> Kinds]
  /\ pc \in [Requests -> {"idle", "link", "join", "strip", "again", "delete", "signal",
                          "remove", "retype", "edit"}]
  /\ text \in [Requests -> Texts]
  /\ graph \in [Requests -> Graphs]
  /\ found \in [Requests -> Existing]
  /\ seen \in [Requests -> [Texts -> SUBSET Graphs]]
  /\ locked \in [Requests -> SUBSET Texts]
  /\ raced \subseteq Texts
  /\ retyped \subseteq Graphs

Init ==
  /\ present \in SUBSET Texts
  /\ content = [t \in Texts |-> {}]
  /\ kind = [g \in Graphs |-> "unissued"]
  /\ pc = [r \in Requests |-> "idle"]
  /\ text = [r \in Requests |-> 1]
  /\ graph = [r \in Requests |-> CHOOSE g \in Graphs : TRUE]
  /\ found = [r \in Requests |-> "text"]
  /\ seen = [r \in Requests |-> [t \in Texts |-> {}]]
  /\ locked = [r \in Requests |-> {}]
  /\ raced = {}
  /\ retyped = {}

-----------------------------------------------------------------------------
(* Reads, row locks and the end of a request.                              *)

Unlocked(r, t) == \A q \in Requests \ {r} : t \notin locked[q]

\* What request r reads of the texts: its own writes over what is committed.
View(r) == [t \in Texts |-> IF t \in locked[r] THEN seen[r][t] ELSE content[t]]

\* The request is over, its transaction committed or rolled back.
Ends(r) ==
  /\ pc' = [pc EXCEPT ![r] = "idle"]
  /\ text' = [text EXCEPT ![r] = 1]
  /\ graph' = [graph EXCEPT ![r] = CHOOSE g \in Graphs : TRUE]
  /\ found' = [found EXCEPT ![r] = "text"]
  /\ seen' = [seen EXCEPT ![r] = [t \in Texts |-> {}]]
  /\ locked' = [locked EXCEPT ![r] = {}]

\* A bad request is refused, a statement fails, a deadlock is broken or the
\* process dies: what was not committed is rolled back.
Fails(r) == pc[r] # "idle" /\ Ends(r) /\ UNCHANGED <<tables, history>>

\* One UPDATE of the content of t, committed at once.  The text is raced when it
\* is no longer what the request has seen of it.
WriteText(r, t, names) ==
  /\ Unlocked(r, t)
  /\ content' = [content EXCEPT ![t] = names]
  /\ raced' = IF content[t] = seen[r][t] THEN raced ELSE raced \cup {t}
  /\ UNCHANGED retyped

-----------------------------------------------------------------------------
(* link_region.                                                            *)

\* get_object reads the text.
ReadText(r, t, step) ==
  /\ pc[r] = "idle" /\ t \in present
  /\ pc' = [pc EXCEPT ![r] = step]
  /\ text' = [text EXCEPT ![r] = t]
  /\ seen' = [seen EXCEPT ![r][t] = content[t]]
  /\ UNCHANGED <<tables, graph, found, locked, history>>

StartLink(r, t) == "link" \in Endpoints /\ ReadText(r, t, "link")

\* Mutant: the region is created outside the transaction that names it.
LinkNewUnnamed(r, g) ==
  /\ pc[r] = "link" /\ kind[g] = "unissued"
  /\ kind' = [kind EXCEPT ![g] = "text"]
  /\ WriteText(r, text[r], seen[r][text[r]])
  /\ Ends(r)
  /\ UNCHANGED present

\* A new region and the token that names it, in one transaction.
LinkNew(r, g) ==
  /\ pc[r] = "link" /\ kind[g] = "unissued"
  /\ kind' = [kind EXCEPT ![g] = "text"]
  /\ WriteText(r, text[r], seen[r][text[r]] \cup {g})
  /\ Ends(r)
  /\ UNCHANGED present

\* An existing region of the image is looked up before the transaction.
FindRegion(r, g) ==
  /\ pc[r] = "link" /\ kind[g] = "text"
  /\ pc' = [pc EXCEPT ![r] = "join"]
  /\ graph' = [graph EXCEPT ![r] = g]
  /\ UNCHANGED <<tables, text, found, seen, locked, history>>

\* The token of an existing region is added; the region is not locked.  The
\* text is raced as well when the region is no longer what was looked up.
LinkExisting(r) ==
  /\ pc[r] = "join"
  /\ Unlocked(r, text[r])
  /\ content' = [content EXCEPT ![text[r]] = seen[r][text[r]] \cup {graph[r]}]
  /\ raced' = IF content[text[r]] = seen[r][text[r]] /\ kind[graph[r]] = "text"
              THEN raced ELSE raced \cup {text[r]}
  /\ Ends(r)
  /\ UNCHANGED <<present, kind, retyped>>

-----------------------------------------------------------------------------
(* Stripping the tokens of a graph from every text of the image.           *)

StripPhases == {"strip", "signal", "again"}

Naming(r) == {t \in present : graph[r] \in seen[r][t]}

First(S) == CHOOSE t \in S : \A u \in S : t <= u

\* Mutants: the texts are updated in any order; every token is stripped; the
\* text is not saved.
StripAnyOrder(r) ==
  \E t \in Naming(r) :
    /\ pc[r] \in StripPhases
    /\ Unlocked(r, t)
    /\ seen' = [seen EXCEPT ![r][t] = @ \ {graph[r]}]
    /\ locked' = [locked EXCEPT ![r] = @ \cup {t}]
    /\ raced' = IF View(r)[t] = seen[r][t] THEN raced ELSE raced \cup {t}
    /\ UNCHANGED <<tables, pc, text, graph, found, retyped>>
StripAll(r) ==
  LET t == First(Naming(r)) IN
  /\ pc[r] \in StripPhases /\ Naming(r) # {} /\ Unlocked(r, t)
  /\ seen' = [seen EXCEPT ![r][t] = {}]
  /\ locked' = [locked EXCEPT ![r] = @ \cup {t}]
  /\ UNCHANGED <<tables, pc, text, graph, found, history>>
StripUnsaved(r) ==
  /\ pc[r] \in StripPhases /\ Naming(r) # {}
  /\ seen' = [seen EXCEPT ![r][First(Naming(r))] = @ \ {graph[r]}]
  /\ UNCHANGED <<tables, pc, text, graph, found, locked, history>>

\* remove_graph_ref and save, for the next text that was read to name the graph.
Strip(r) ==
  LET t == First(Naming(r)) IN
  /\ pc[r] \in StripPhases /\ Naming(r) # {}
  /\ Unlocked(r, t)
  /\ seen' = [seen EXCEPT ![r][t] = @ \ {graph[r]}]
  /\ locked' = [locked EXCEPT ![r] = @ \cup {t}]
  /\ raced' = IF View(r)[t] = seen[r][t] THEN raced ELSE raced \cup {t}
  /\ UNCHANGED <<tables, pc, text, graph, found, retyped>>

\* unlink_region: the transaction begins and reads every text of the image.
StartUnlink(r, g) ==
  /\ "unlink" \in Endpoints /\ pc[r] = "idle" /\ present # {} /\ kind[g] # "unissued"
  /\ pc' = [pc EXCEPT ![r] = "strip"]
  /\ graph' = [graph EXCEPT ![r] = g]
  /\ seen' = [seen EXCEPT ![r] = content]
  /\ UNCHANGED <<tables, text, found, locked, history>>

Stripped(r) == pc[r] = "strip" /\ Naming(r) = {}

\* Mutant: only the rows that were found are kept.
PublishFound(r) == content' = [t \in present |-> View(r)[t]]

\* The commit publishes what was written.
Publish(r) == content' = View(r)

\* The texts that changed after r read them and that it did not write.
Missed(r) == {t \in present \ locked[r] : content[t] # seen[r][t]}

\* It deletes the region, if that is still one: the signal reads the texts again.
UnlinkRegion(r) ==
  /\ Stripped(r) /\ kind[graph[r]] = "text"
  /\ pc' = [pc EXCEPT ![r] = "again"]
  /\ seen' = [seen EXCEPT ![r] = View(r)]
  /\ UNCHANGED <<tables, text, graph, found, locked, history>>

\* No region to delete: the transaction commits what it stripped.
UnlinkNothing(r) ==
  /\ Stripped(r) /\ kind[graph[r]] # "text"
  /\ Publish(r)
  /\ Ends(r)
  /\ UNCHANGED <<present, kind, history>>

\* DELETE of a graph: get_object reads its annotation_type.
StartDelete(r, g) ==
  /\ "delete" \in Endpoints /\ pc[r] = "idle" /\ kind[g] \in Existing
  /\ pc' = [pc EXCEPT ![r] = "delete"]
  /\ graph' = [graph EXCEPT ![r] = g]
  /\ found' = [found EXCEPT ![r] = kind[g]]
  /\ UNCHANGED <<tables, text, seen, locked, history>>

\* Mutant: the signal is not connected.
SignalUnconnected(r) ==
  /\ pc[r] = "delete"
  /\ pc' = [pc EXCEPT ![r] = "remove"]
  /\ seen' = [seen EXCEPT ![r] = content]
  /\ UNCHANGED <<tables, text, graph, found, locked, history>>

\* pre_delete: the texts are read, unless the graph was read not to be a region.
Signal(r) ==
  /\ pc[r] = "delete"
  /\ pc' = [pc EXCEPT ![r] = IF found[r] = "text" THEN "signal" ELSE "remove"]
  /\ seen' = [seen EXCEPT ![r] = content]
  /\ UNCHANGED <<tables, text, graph, found, locked, history>>

\* The DELETE of the row, if it is still there, and the commit.
RemoveGraph(r) ==
  /\ pc[r] = "remove" \/ (pc[r] \in {"signal", "again"} /\ Naming(r) = {})
  /\ Publish(r)
  /\ kind' = [kind EXCEPT ![graph[r]] = IF @ \in Existing THEN "deleted" ELSE @]
  /\ raced' = raced \cup Missed(r)
  /\ Ends(r)
  /\ UNCHANGED <<present, retyped>>

-----------------------------------------------------------------------------
(* Other requests that write graphs or texts of the image.                 *)

\* PATCH of a graph sets its annotation_type or its image, or keeps both to reshape
\* the region.
StartRetype(r, g, k) ==
  /\ "retype" \in Endpoints /\ pc[r] = "idle" /\ kind[g] \in Existing
  /\ pc' = [pc EXCEPT ![r] = "retype"]
  /\ graph' = [graph EXCEPT ![r] = g]
  /\ found' = [found EXCEPT ![r] = k]
  /\ UNCHANGED <<tables, text, seen, locked, history>>

\* save() of every column; a row that was deleted meanwhile is inserted again.
Retype(r) ==
  /\ pc[r] = "retype"
  /\ kind' = [kind EXCEPT ![graph[r]] = found[r]]
  /\ retyped' = IF found[r] = "text" THEN retyped ELSE retyped \cup {graph[r]}
  /\ Ends(r)
  /\ UNCHANGED <<present, content, raced>>

\* import_htr: a text and its line regions, in one transaction.
Import(r, t, lines) ==
  /\ "import" \in Endpoints /\ pc[r] = "idle" /\ t \notin present
  /\ \A g \in lines : kind[g] = "unissued"
  /\ present' = present \cup {t}
  /\ content' = [content EXCEPT ![t] = lines]
  /\ kind' = [g \in Graphs |-> IF g \in lines THEN "text" ELSE kind[g]]
  /\ UNCHANGED <<request, history>>

\* An editor loads a text, changes its wording and saves it, tokens included.
StartEdit(r, t) == "edit" \in Endpoints /\ ReadText(r, t, "edit")

SaveEdit(r) ==
  /\ pc[r] = "edit"
  /\ WriteText(r, text[r], seen[r][text[r]])
  /\ Ends(r)
  /\ UNCHANGED <<present, kind>>

-----------------------------------------------------------------------------
Next ==
  \E r \in Requests :
    \/ \E t \in Texts : \/ StartLink(r, t) \/ StartEdit(r, t)
                       \/ \E lines \in SUBSET Graphs : Import(r, t, lines)
    \/ \E g \in Graphs :
         \/ LinkNew(r, g) \/ FindRegion(r, g) \/ StartUnlink(r, g) \/ StartDelete(r, g)
         \/ \E k \in Existing : StartRetype(r, g, k)
    \/ LinkExisting(r) \/ Strip(r) \/ UnlinkRegion(r) \/ UnlinkNothing(r)
    \/ Signal(r) \/ RemoveGraph(r) \/ Retype(r) \/ SaveEdit(r) \/ Fails(r)

Spec == Init /\ [][Next]_vars
-----------------------------------------------------------------------------
(* Properties.                                                             *)

\* No text names a graph that does not exist ("an INVARIANT of graph deletion
\* so no client can orphan a reference").
NoDangling == \A t \in present : \A g \in content[t] : kind[g] \in Existing

\* A text loses the name of a region only when that region goes: the tokens of
\* the other regions survive every link, unlink, deletion and edit that does not
\* rest on a stale read of the text.
NamesKept ==
  [][\A t \in present \ raced' : \A g \in (content[t] \ content'[t]) \ retyped :
       kind'[g] = "deleted"]_vars

\* A region that is linked or imported appears together with a text that names
\* it: none is created by a request that then fails to embed its token.
BornNamed ==
  [][\A g \in Graphs :
       kind[g] = "unissued" /\ kind'[g] # "unissued" => \E t \in present' : g \in content'[t]]_vars

\* Only a stale read, or a PATCH of its type, leaves the name of a graph dangling:
\* a text that no request wrote, or left alone, on account of an outdated read
\* names no graph that is gone, unless that graph was once no region.
DanglesOnlyByRace ==
  \A t \in present \ raced : \A g \in content[t] \ retyped : kind[g] \in Existing

\* Two requests never wait for each other's rows: all texts are stripped in the same
\* order.  Only the second pass of an unlink, which may meet a name that was added
\* during the first, can close a circle.
Waits(r, q) ==
  /\ q # r /\ pc[r] \in {"strip", "signal"} /\ Naming(r) # {}
  /\ First(Naming(r)) \in locked[q]
NoCircle == \A r, q \in Requests : ~(Waits(r, q) /\ Waits(q, r))
=============================================================================
