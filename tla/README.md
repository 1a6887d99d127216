# archetype3-backend in TLA+

This directory keeps the TLA+ specifications of the backend, the TLC
configurations that check them on small instances, and TLAPS proofs that hold
for every instance. Paths below are relative to the repository root; `apps/` is
`src/apps/`.

Run a configuration with `tlc -workers 2 -config X.cfg M`, where `PROJECT.json`
("runs") says which module `M` a configuration belongs to, and the proofs with
`tlapm M.tla`.

## 1. The system

A Django REST backend for the study of medieval charters: editors keep
transcriptions of charter images in TEI, tie passages of them to regions of the
image, describe letter forms, and publish; readers search. Requests are served
by several processes over one PostgreSQL database at READ COMMITTED, without
`ATOMIC_REQUESTS`; a request is a sequence of autocommitted statements except
where the code says `transaction.atomic()`. Search lives in a Meilisearch
server that is rebuilt by Celery tasks and management commands.

| Component | State | Operations | Interacts with |
|---|---|---|---|
| Search index rebuild (`apps/search/services.py`, `meilisearch/writer.py`) | live and build index per type, queue of Meilisearch tasks, Redis lock | reindex, clear, setup | reads all tables through the document builders; called by the tasks |
| Search administration, tasks (`tasks.py`, `progress.py`, `admin_service.py`, commands) | Celery task state | start, status, loops over all indexes | calls the rebuild |
| Editorial workflow (`apps/manuscripts/views.py`, `models.py`) | `ImageText` rows, `StatusTransition` log | create, upsert, import, transition, bulk actions, PATCH, delete | signals, audit trail |
| Text-region links (`signals.py`, `services/tei/links.py`, link/unlink endpoints) | TEXT graphs, references to them inside `ImageText.content` | link, unlink, delete, import | annotations; a `pre_delete` signal |
| TEI conversion, migration and repair commands | `content`, `content_dpt_legacy` | convert, reverse, verify, embed, re-encode | text content |
| Catalogue (`HistoricalItem`, parts, images, date assessments) | rows | CRUD; a multi-row save of assessments | shared `Date` rows |
| Annotations (`apps/annotations`) | graphs, components, positions, features | create, update, delete | characters, hands, signal above |
| Character structure (`apps/symbols_structure`) | character, allograph, component trees | update_structure | annotations |
| Audit trail (`apps/common/audit.py`) | `EditEvent` rows, actor context variable | signals around saves | every privileged view |
| Publications, worksets, scribes, users | rows | CRUD, moderation, sharing | |
| Search queries (`parsers.py`, `qb_parser.py`, `filters.py`, `reader.py`) | none | parameters to filter expressions | Meilisearch |
| IIIF, W3C annotations, reports | none | read-only JSON | |

What is hard here: rebuilds that overlap, die or time out half way while
readers are served; requests that read a row, compute, and write it back while
others do the same; references kept inside markup that no foreign key protects;
multi-row saves outside a transaction. `PROJECT.json` ("hazards") lists each at
its line with the properties that watch it.

What makes each component correct:

- *Rebuild*: readers see the previous documents or the new ones, whole; one
  rebuild at a time; a lock that is always freed and only by its owner.
- *Workflow*: one text per kind; the log tells every status change and tells it
  truly; no write is undone by someone else's; deleted texts stay deleted; a
  reviewer is named only for a text in review.
- *Links*: no text names a region that is gone; a linked region is named.
- *Migration*: reversible without losing edits, repeatable after interruption.
- *Annotations, structure, assessments*: the rules between the rows hold after
  every request, whatever half of it failed.
- *Audit*: each event names who did it.
- *Queries*: the filter selects what the tree of conditions means.

## 2. The modules

| Module | Models | Checked by | Proofs |
|---|---|---|---|
| `SearchReindex`, implements `AtomicIndex` | rebuilding one index | `SearchReindex*.cfg` | `SearchReindexProofs` |
| `ImageTextWorkflow`, implements `AuditedTexts` | rows and log of image texts | `Workflow*.cfg` | `ImageTextWorkflowProofs` |
| `RegionLinks` | texts that name regions | `RegionLinks*.cfg` | `RegionLinksProofs` |
| `TeiMarkup` | converters, link helpers and the extraction of search entries, as operators on markup | through `TeiMigration` | `TeiMigrationProofs` |
| `SearchDocuments`, on `TeiMarkup` | documents that search builds from a text | through `TeiMigration` | |
| `TeiMigration`, on both | migration and repair commands, the backup script, edits | `Tei*.cfg` | `TeiMigrationProofs` |
| `LetterForms` | character structure and graphs with components | `Services.cfg` | `LetterFormsProofs` |
| `SearchRegistry` | attributes of documents and lists of the registry | `Services.cfg` (its ASSUME) | |
| `SearchQueries` | requests, filter expressions, paging, export, suggestions | `Services.cfg` | `SearchQueriesProofs` |
| `SearchJobs` | tasks over one index or all, progress reports | `Services.cfg` | `SearchJobsProofs` |
| `SequenceFolds` | no code: induction over the values a fold or a recursion goes through, for any operator | | itself |

`MCSearchReindex`, `MCImageTextWorkflow`, `MCRegionLinks`, `MCTeiMigration` and
`MCServices` give the constants. `MCServices` composes `LetterForms`,
`SearchQueries` and `SearchJobs`, which share no state: a behaviour is of one of
them (`part`), chosen at first, so that the instance is the union of the three
state spaces and not their product.

What to write next, in this order: the save of an item's date assessments (several
rows without a transaction), the audit trail of edits (an event is written after
its row, and in the same transaction only where the request has one).
Worth proving next: `MeaningKept`, which needs the extractor of search entries
followed through the reverse converter (section 6 says what stands in the way).

## 3. `SearchReindex`: rebuilding a search index

`IndexingService.reindex` builds a staging index `<uid>__build` and swaps it
with the live index. Each worker walks through the phases of `pc`, one per
awaited call of `MeilisearchIndexWriter`: `ensure`, `settings`, `drop`,
`create`, `buildSettings`, `batches`, `swap`, `dropOld`, `release`. A call
enqueues a task (`Enqueue`) and, except in the batch loop, waits for it
(`waiting`, `WaitReturns`); Meilisearch processes its queue in order
(`ProcessTask`, `Effect`). `lock` is the Redis key of `reindex_lock`; its value
is the number of the rebuild that set it, although the code stores only "1": the
code cannot tell whose key it deletes, the properties can. `holds` is the local
`acquired`. `live` and `build` map each batch to the rebuild its documents come
from. `clear` and `setup` take no lock. The five settings updates of
`_apply_index_settings` are one task, since only the last is awaited and the
queue is in order.

`Faults` selects what may go wrong: a call of a job raises ("raise", which
includes a timeout of `wait_for_task` whose task still runs later), a worker
dies ("crash"), a rebuild outlives the lock's expiry ("slowHolder"), the lock
cache fails on taking or on releasing ("lockDown", "unlockFails"), an
add-documents task fails inside Meilisearch ("addFails").

`AtomicIndex` is the promise to readers: one served version, which changes in
one step to a complete rebuild or to nothing.

| Run | Question | Bounds |
|---|---|---|
| `SearchReindexSafe` | does everything promised to readers hold under exceptions, crashes and failed releases? | 2 workers, 2 batches, 3 rebuilds past the lock, a clear or setup starts behind at most one task |
| `SearchReindexRecovery` | does the lock come free, and are versions never mixed even when batches fail? | 2 workers, 2 batches, 3 rebuilds, a clear or setup starts on an empty queue |
| `SearchReindexOverlap` | does every job end when rebuilds overlap? | 2 workers, 1 batch, 2 rebuilds |
| `SearchReindexTorn` (violation) | may a partial index be published? Yes, when a batch fails | 2 workers, 2 batches, 2 rebuilds |

`NoForeignRelease` is claimed as long as no rebuild outlives the expiry: with
`"slowHolder"` a rebuild that ends late deletes the lock that another has set
meanwhile (`cache.delete` asks no one), and the mutual exclusion of the third is
lost with it.

Two workers are enough for one to disturb the other, two batches to tell half an
index from a whole one, three rebuilds for a crashed one, its successor and a
competitor. `MaxRuns` makes jobs stop once the numbers are used up, so the
passing runs do not check deadlock; `JobsEnd` says instead that a job past the
lock ends.

Fairness (`FairSpec`): a worker that picked up a job takes its next step (the OS
schedules it, or it crashes, which is an action of its own); Redis expires keys;
Meilisearch works off its queue. Exceptions, crashes and new jobs have none.

Proved in `SearchReindexProofs` for any number of workers, batches and rebuilds:
`TypeOK` under every fault. When no rebuild outlives the expiry and the lock
backend answers `cache.add` (`LockWorks`): mutual exclusion, `NeverMixed`,
`LiveConfigured`, `OwnBuild` and `NoForeignRelease`, whatever add-tasks fail. When
these succeed as well (`SafeFaults`): the other invariants, the two action
properties and `ServesAtomically`. The inductive
invariant `Inv` ties three things together: a worker in the section holds the
lock under its own number (so there is one); the queue splits into leftovers of
earlier runs followed by tasks of the current run in the order of its phases, so
that the drop of the build index precedes its batches; and what the build index
will hold once the queue is worked off is a prefix of the current rebuild's
batches, all of them when the swap is enqueued. The last part is needed because
a job that raised leaves its tasks behind: `LiveWhole` alone is not inductive.
`NeverMixed` uses less of it: since the drop comes first, all that reaches a build
index is of the rebuild that made it, even where a failed batch leaves a hole.

Only model-checked: the liveness properties.

## 4. `ImageTextWorkflow`: the editorial workflow

One row of `rows` per primary key in `present`; `issued` keeps keys from being
used twice; `log` is the `StatusTransition` log of each text. `transition` and
PATCH read their row with `get_object` and write later, so they take two steps
with what was read in `seen`; the others lock what they read
(`select_for_update`, `update_or_create`) or write in one statement and take
one. `transition` saves named columns (`Moved`); PATCH saves all (`Patch`), which
inserts a row that was deleted meanwhile. Requests answered with an error before
they write anything are left out: they change nothing. `Endpoints` selects what
clients use. `birth` and `asked` are history variables for the properties.

`AuditedTexts` is the promise of the log: a status moves only together with an
entry that names where it moved to.

| Run | Question | Bounds |
|---|---|---|
| `WorkflowAudited` | do import, transitions, bulk actions and deletions keep log and assignee truthful? | 2 requests, 2 texts, 2 kinds, 3 statuses, log of 2 |
| `WorkflowWrites` | is there ever a second text of a kind, and does any endpoint undo another's write or bring a row back? | all endpoints; 2 requests, 2 texts, 1 kind, 2 statuses, 1 reviewer, 2 languages, log of 1 |
| `WorkflowUnlogged` (violation) | does the log tell every change of status? No: the upsert writes none | 1 text |

Some properties are claimed of less than clients can do, since the code does not
keep them otherwise. The upsert writes Draft over Review and leaves
`review_assignee`, so `AssigneeOnlyInReview` is checked without it. A PATCH
writes back all columns it read, and inserts a row that was deleted meanwhile:
`NoLostUpdate` and `StaysDeleted` are checked with PATCH among the endpoints but
exempt its own writing step, so that they say no other endpoint does the same.
`NoLostUpdate` is about status, assignee and language, and for the assignee has a
second exemption (`ReviewEnds`): a transition to Review that nominates nobody
saves the `review_assignee` that `get_object` read (`views.py` 395, 409-414), over
one that was assigned or cleared meanwhile. Every other write of the three
columns, that of a transition's status and of a nominee included, is kept.

Two requests suffice for a stale read and its spoiler; one more step of a third
can be taken by a one-step endpoint. Only safety is claimed: nothing obliges a
client to finish.

Proved in `ImageTextWorkflowProofs` for any numbers: `TypeOK`, `OneTextPerKind`,
`NoLostUpdate` and `StaysDeleted` for all endpoints; `AssigneeOnlyInReview` with
the workflow's endpoints only; `FromWasReal` and the refinement of
`AuditedTexts` without upsert and PATCH. `TextStep` says
what a step does to one text (stays, is created, is moved, is deleted), and the
invariants are read off from it. `FromWasReal` is not inductive: a bulk action
logs the status in the table, so the newest entry must agree with the table
(`LogMatchesStatus`), and a transition logs what it saw, so what a pending
transition saw must be a status the text had (`SeenWasReal`).

## 5. `RegionLinks`: texts that name regions

The texts of one image and the graphs on it. `content[t]` is the set of graphs
whose token text `t` carries; where in the markup the token sits is left out, so
`add_graph_ref` adds to the set and `remove_graph_ref` takes away from it.
`kind[g]` tells whether `g` is a TEXT graph of the image, some other graph, not
issued yet or deleted. `Texts` is in the order of `ImageText.Meta.ordering`, in
which the signal and `unlink_region` walk the texts of an image.

A request reads in one step and writes in a later one: `seen` is what it read,
`locked` the rows it has updated and not committed, which others wait for
(`Unlocked`) and do not see (`View`). Transactions that update one text take one
step. `Strip` is one round of the loop of the signal or of `unlink_region`;
`Signal` and `UnlinkRegion` are its first read. A deletion reads the
`annotation_type` of its graph before the signal looks at it (`found`). `Fails`
rolls a request back at any point. `import_htr` is one transaction, an editor
reads a text and saves it with the tokens it read, and PATCH of a graph may
change its type or image, or re-insert a graph deleted meanwhile. Two variables
are history: `raced`, the texts that some request wrote, or left alone, on
account of a read that was out of date, and `retyped`, the graphs that a PATCH
has made other than regions.

| Run | Question | Bounds |
|---|---|---|
| `RegionLinksShared` | what remains of the links when requests overlap, and do they deadlock? | all endpoints; 2 requests, 2 texts, 2 graphs |
| `RegionLinksRace` (violation) | can a deleted graph stay named? Yes: a link or another deletion writes back content it read earlier | 2 requests |

`Fresh` bounds the first: a behaviour is followed until every text is raced or
every graph retyped, when `DanglesOnlyByRace` and `NamesKept` exempt all there is.

What the code does not keep is exempt by name: `DanglesOnlyByRace` and `NamesKept`
leave out the texts in `raced` and the graphs in `retyped` (the signal passes
over a graph whose type is not text when it is deleted, though texts may still
name it), `NoCircle` the second pass of an unlink, which may lock a text that
comes before one it has locked. PostgreSQL then fails one of the two requests
(`Fails`), which breaks no promise of the code.

An image has two kinds of texts and one text of each, so two texts are all there
are; two graphs let one token be lost while another is stripped. Graphs that are
created by POST, named by no text, are left out, as is the deletion of a text or
of the whole image.

Proved in `RegionLinksProofs` for any number of texts, graphs and requests and all
endpoints: `TypeOK`, `BornNamed`, `DanglesOnlyByRace`, `NamesKept` and
`NoCircle`. `NoDangling` itself is proved when requests do not overlap and no
PATCH changes a type. `DanglesOnlyByRace` is not inductive, since a deletion publishes what it wrote
steps earlier: `WrittenInv` says that a row it holds is the committed content
less its graph, `LockInv` that no one else can change that row meanwhile, and
`RetypedInv` that the signal passes over no graph that was a region all along.
`NoDangling` follows when nothing is ever raced, because what the only request
has read is what there is (`FreshInv`). `NoCircle` needs that what a deletion
has still to strip comes after what it has stripped (`OrderInv`), also when an
import adds a text in between.

## 6. `TeiMarkup`, `SearchDocuments`, `TeiMigration`: markup and its migration

The content of a text is the sequence of events that Python's `HTMLParser`
reports for it: start, end and empty tags with their attributes in order, text,
entities. All of `services/tei` and the extractor of `search/documents` are
rewriters or readers of that sequence, and so are their operators: `DataDptToTei`
and `TeiToDataDpt` with the stack of open elements they keep, `AddGraphRef`,
`RemoveGraphRef`, `RewriteGraphRefs`, `EmbedId`, `GraphRefs`, `Extracted`. Values of
attributes and stretches of text are atoms. `Converts` is the test a row must pass
before `migrate_imagetext_to_tei` writes it.

`TeiMigration` runs a plan of commands over texts and graphs. A command reads its
rows up front (`job.todo`) and writes them one by one; it may die between two
rows, and the next command starts from what is in the database. In a plan that
ends with a dump (the backup script) a failing gate ends the plan and nobody
edits; in the others editors link, unlink, redraw, write and delete in between.
A PATCH of a graph replaces the JSON of its annotation whole
(`annotations/serializers.py` 179-181): the editor's page sends the two properties
back as they are, or as they were imported if it was opened before the commands ran
(`Redraw`), and another client may send a geometry alone (`RedrawBare`).
`wanted`, `drawn`, `stored`, `stripped` and `overrun` are history: what editors and
embed made a text name, the shape an editor gave a graph, what a text held other
than by conversion, the graphs whose properties a PATCH left out, and the rows that
a command wrote on account of an outdated reading.

| Run | Question | Bounds |
|---|---|---|
| `TeiMigrationAll` | are links, drawings, originals and the meaning of texts kept, and is a returned backup sound? | 2 texts on 2 images, 2 graphs, 7 contents, 6 plans, 1 edit |
| `TeiGate` (violation) | is a returned backup fully converted? No: a row that fails the round trip but is well-formed XML passes the gates | the script alone, 2 contents |

The contents are chosen so that each takes another way through the code: nested
linked clauses with an HTML entity and a line break, two ids on one element,
attributes in an order that does not survive the round trip, an authority
reference, TEI from the start, an unclosed paragraph, a bare `<br>`. Two texts on
two images are enough for a command to be half done and for a selector to match
on the wrong image; one edit can fall between any two steps of a plan.

`EditsSurvive` exempts `overrun`: migrating a live database undoes what was edited
between the reading and the writing of a row, which the runbook forbids.
`MeaningKept` compares the ids of links but not the type of the linked element,
since a separator gets `type="sep"`; a document that has `data-dpt` elements hides
its TEI elements from search, and HTML entities reach the full text undecoded, so
that it compares the text decoded. Dry runs, `--limit` and `--csv` are left out.

`Recoverable` is proved in `TeiMigrationProofs` for any texts, graphs, contents,
plans, edits and deaths. The invariant: in every text, and in every row a command
has read, the content `--reverse` would bring back (`legacy`, or `content` while
`legacy` is NULL) is one that the text once held, and a graph's imported selector is
in place or put aside (`Kept`), unless the graph is in `stripped`. Of the graphs in
`stripped` the property says that what is put aside is nothing or the imported
selector, never the description that re-encoding wrote; the selector itself is gone
with the PATCH, and no command can bring it back. An editor who sends the annotation
as it was imported, after the commands have described it, loses nothing: the next
run puts the same selector aside again. It assumes that a conversion of no content is no content
(`NullAssumption`) and that an imported selector is not JSON null
(`SelectorAssumption`). 
`DumpSound` is proved of plans that dump only after the last steps of the script
(`PlansAssumption`, which the plans that TLC runs satisfy). Nothing it says holds
before the end, so the invariant (`ScriptInv`) says what each of the last steps has
established when the next one begins: `reencode` that every linked graph describes
the elements that name it (`LinksDescribed`; half way, those it has been at), `check`
that links lead to regions of the image, `verify` that texts are XML; and nothing
after them writes, since in a script nobody edits.

### What a text names: `EditsSurvive`, `RenumberingIsExact`, `LinkIsExact`

The first half of `TeiMigrationProofs` is about markup. Every rewriter is a fold of
a named step (`ForwardStep`, `ReverseStep`, `EmbedStep`, `Nest`) over a stack of open
elements, and `SequenceFolds` turns each fold into the chain of stacks it goes
through, so that a fact about one step becomes a fact about a text. `Only` takes the
place of `SelectSeq`, of which the provers know nothing. What it establishes:

- the two converters write no id that the text did not have, whatever the stack
  holds (`StackOk`, `StackForward`, `StackReverse`); that a row which is migrated
  loses none either comes from the round trip it had to pass (`Converts`);
- `add_graph_ref` adds one id to those of the text and `remove_graph_ref` takes one
  away (`AddGraphRefIs`, `RemoveGraphRefIs`); embed adds its graph's id where an
  element matches and loses none, in a text whose elements are all closed
  (`EmbedParsedIs`, where `Collects` says what the stack holds so far);
- renumbering by an exchange of two ids is its own inverse, on tokens, tags and texts
  (`NewTokenIs`, `NewEventIs`, `RewrittenIs`).

`EditsSurvive` is not inductive: a step may write the legacy column, or a row read
earlier. `LinksInv` therefore says of both columns that they hold markup and that a
legacy column passed the round trip, and `ReadInv` says the same of the rows in hand.
`RenumberingIsExact` needs nothing else. `LinkIsExact` compares the linkable elements
of the text before and after at the same places (`OnlyPairs`) and follows the
well-formedness check through both (`NestAlike`). Well-formedness is claimed of texts
whose start tags have their capitals (`Capitalised`): embed writes tags in lower
case, the link helpers put capitals back on end tags and on the start tags they
change, but copy the others, so that after embed the start tag `persname` meets the
end tag `persName`.

### What embedding settles: `EmbeddingSettles`

`Settles(parts, words, spec, g)` says that parts, read again by embed under any stack,
come out as they are with nothing changed. It is closed under concatenation
(`SettlesPlus`) and under putting settled parts into an element that embed does not
miss (`SettlesElement`), and what embed writes for an element is never missed again
(`RenderedMatches`); so embed's output settles, which is the first half of the
property. For another selector, an element is matched by attributes and text that
embed does not change, so a text it has nothing to do in stays one (`EmbedKeeps`),
and a text that is TEI has no element that a selector describes (`EmbedTei`). The
second half is about a whole script, and its invariant (`NamesInv`) follows the first
command: for each selector and text, the graph is still to come, or the text is still
in hand, or its content, or what `--reverse` would bring back, is settled
(`BeingNamed`); afterwards all are (`AllNamed`), and no later command undoes that.
It needs that what a command has read is still so (`FreshRows`), which holds in a
script because nobody else writes.

### What the proofs assume of contents

`MarkupAssumption`: contents in the database and contents that are typed in are
markup as the converters, the link helpers and the editor write it (`IsMarkup`): an
attribute occurs once in a tag; links are in `data-graph-id` on a `data-dpt` span and
in `corresp` on any other element; each `corresp` token has the prefix or is no
number. And a selector that embed uses has a tag, since `parse_elementid` refuses
one without. The API stores any string, so a text outside this shape can be typed
in, and of such texts the theorems say nothing: a `data-dpt` span that already had a
`corresp`, for one, would take links in an attribute that `parse_graph_refs` does not
look at. Nothing in `src/` writes one. The numbers an editor may give for an element
are `0 .. 2` in `Next`; `AddGraphRefIs` holds for any number.

`MeaningKept` is model-checked only. It is about the ids of links, which the proofs
above reach, but also about the documents that search builds, and those agree only
while a text has no `data-dpt` span of an unknown kind: such a span is left by the
converter, and hides the TEI around it from search. The contents that TLC runs have
none next to a linked element.

## 7. `LetterForms`: character structure and letters

A character's allographs with their components and features are loaded into a
form, changed and saved whole in one transaction (`UpdateStructure` over what was
loaded, however old). A graph with its components is saved by a request without a
transaction, one statement after the other: the row, the deletion of its
components, one insertion each. `torn` marks graphs whose requests overlapped or
broke off half way.

`DescriptionKept` says that a graph's components are the ones last asked for, unless
it is torn; `LettersStand` that no letter's allograph is missing, however structure
saves, deletions and graph saves overlap; `DefaultsKept` that opening the form and
saving it as it is leaves every default that the public list shows;
`StructureSaved` that a save stores the submitted tree whole or nothing.

Bounds (`Services`): 2 components, 1 feature, 2 keys of graphs, 2 interchangeable
editors, 3 saves, 3 descriptions, one of which names a component twice, which the
database refuses half way. `Loaded` reads allographs by name (`KeyOrders`; a key
stands for its name) and components in any order (`RowOrders`: the query has none).

`DescriptionKept` is proved in `LetterFormsProofs` for any number of graphs,
editors, saves and descriptions of any length. By itself it says nothing while a
request is at work; the invariant adds who works on what: a request that counts as
alone on a graph is the only one there (`AloneInv`), a graph that is shared, or gone
under a request, is torn (`TornInv`), a graph that nobody has begun to write is as
told (`ToldInv`), and a lone request that adds components has stored the first ones
it was asked for, those that still exist (`AddInv`). It assumes that there are graphs,
that NULL is no key of one, and that descriptions are sequences.

`StructureSaved`, `LettersStand` and `DefaultsKept` are proved there too, for
characters of any size. A save is two nested folds over the submitted tree, so the
proofs go along the chain of tables that the save goes through (`SequenceFolds`):
each slot that has been put stands as submitted, no later one disturbs it, keys
that are drawn are new, and a save that has failed once stays failed. The invariant
(`StructureInv`) is that tables and loaded forms are well formed: every key below the
next one, no slot in two allographs, no component twice. `LettersStand` is inductive;
its proof is that whatever takes an allograph away, first looks for its letters in
the table of the same transaction. `DefaultsKept` needs that reading what the form
showed gives back the rows (`PartsReread`).

## 8. `SearchRegistry` and `SearchQueries`: what a search asks for

`SearchRegistry` has the attributes of all nine kinds of documents and the lists of
the registry; its ASSUME says that every listed name is one that documents have
and that default facets are filterable. `SearchQueries` takes the lists as a
constant (`Lists`).

A request is parameters, a query-builder tree, dates, words, a sort and a page.
`ParseSearchQuery` follows `parsers.py`, `EvalNode` `qb_parser.py`,
`MeilisearchFilter` `filters.py`. A filter expression is kept as it is written, as
alternatives of factors, so that a missing parenthesis changes what it selects;
Meilisearch's evaluation (`Selected`, `TextHits`, `Readings`, `Refuses`) is external. The
conditions `contains` and `starts_with` are no filter: they are lifted out of the
tree, an OR included, and looked for in the text. The facets page searches twice;
pages are followed by offset; an export takes pages of its own size; suggestions
search each index. `Rebuilt` swaps the documents at any moment.

A value is written between quotes by `escape_filter_value`, which puts a backslash
before each quote and leaves backslashes alone. `Spelling` gives the quotes,
backslashes and other characters of those values that have any; `EscapeFilterValue`
is what the code writes of each, `ReadChar` how Meilisearch reads it, and `Quoted`
says that the literal ends where the value does. Where it does not, the rest of the
expression is read as what it happens to look like: it may select anything, or be
refused (`Readings`). So may a bound that is not finite be refused: `float()` reads
`nan` and `inf` (`qb_parser.py` 54-60, `parsers.py` 269-277).

`FilterSelects` compares the expression with what the tree and the parameters say
(`Passes`, `Says`, and `SaysCond` for single conditions, which does not go by the
expressions of `EvalCond`); an `is_empty` selects nothing, since `drop_none` leaves no nulls to
find. It exempts expressions with a literal that does not end with its value, and
says which values may do that: only those with a backslash, so that quotes are
escaped well. With a backslash before a quote, or at the end, a value does leave its
literal, although the docstring (`filter_contract.py` 10-12) says that it cannot.
`PagesWhole` holds without a swap in between. `Answered` exempts what Meilisearch
does refuse: date bounds sent to an index without dates, which
`sanitize_filter_spec` lets through, bounds that are not finite, and literals that
do not end. The parentheses of the AND group
(`qb_parser.py:144`) are redundant beside those of the OR group.

Bounds (`Services`): texts and scribes, 8 documents, all trees of two conditions or
groups out of four conditions and those of two groups of which one is about
places, nine lists of parameters (four with marked values or bounds that are not
finite), thirteen date filters, four values with quotes or backslashes, export pages of 2 rows up to
4, one swap. Single documents, highlighting, and the layout of CSV and BibTeX are
left out. Trees are JSON and so finite: `Height` has, for each node, a number greater
than those of its items, on which the recursion over trees rests.

`PagesWhole` is proved in `SearchQueriesProofs` for any indexes, documents, requests,
trees, page sizes and rebuilds. While the index stays as it is, what has been
collected is the first part of all hits up to the offset that comes next
(`SteadyInv`), which is why `Advance` must move by the size of the page that was
asked for; and hits are the same sequence whatever the offset and limit of the
query. Suggestions are a fold over hits: at every point the chosen ones have the
labels seen so far, each once. It assumes finitely many documents and positive
sizes (`SizesAssumption`).

`FilterSelects` and `Answered` are proved there too, for any documents, spellings,
parameters, dates and trees of any depth. What the proof goes through, in the order of the code:

- `WithAndIs`, `WithOrIs`, `ParenIs`: what the text of two texts with an AND or OR
  between selects. AND gives the intersection only if both sides are one alternative
  (`Whole`): a text with a bare OR on either side would be read apart.
- `ConjunctionJoined`, `DisjunctionJoined`: the same for any number of texts, along
  the fold of `Joined`.
- `TreeMeans`, by induction on `Height`: every node comes to nothing and says
  nothing, or comes to one text, which selects what the node says. `EvalNodeIs` and
  `SaysIs` first unfold the two recursions, whose functions exist by `Recursion`.
- `ParamsAddUp`, along the fold over parameters: for each attribute the last "is",
  "min" and "max", all exclusions together, and the names that are to be empty.
- `Asks`: a finite set of whole texts that together select a set of documents, and
  name nothing else than given attributes. Each kind of part does, so does the union,
  and `FilterOfIs` turns it into the text that is sent.
- `QuotesEnd`: along the fold over the characters of a value without a backslash, what
  is written stays inside the literal until the quote that closes it.

The invariant `RequestInv` carries this to the steps: while a request is at work its
query is what it was parsed to, up to the offset. The proof assumes that a parameter
has at least one value (`RequestsAssumption`; `_parse_filter_spec` skips one without).

## 9. `SearchJobs`: tasks over all indexes

Starting an action enqueues Celery tasks with increasing numbers: one index, all of
them as a task each, or all in one task; `StartCommand` is a management command
beside the workers. A task walks `count`, `lock`, `open`, `write`, `drop` for each of
its indexes; what happens to the index itself is `SearchReindex`. `Raise` is a failing
database or Meilisearch, `Die` a killed worker, whose lock expires later and whose
status stays as it was. `OthersRebuilt` says that a run over all indexes tries every
one and answers for exactly those that went through; `ProgressHonest` that a report
only moves forward, names the index at work and stays within the total unless
rows were added after the count.

Seen while modelling, and left as the code has it: the total is counted before the
lock is taken; `drop_build_index` raising after the swap reports as failed an index
that was replaced; `indexed` counts rows, not documents; `setup_all_indexes` does not
isolate failures, and like the single-index commands is left out. A lock backend
that is down belongs to `SearchReindex`.

Bounds (`Services`): 2 indexes, 1 and 3 rows, batches of 2, 2 tasks, 2 workers, 1
failure, 1 change of rows. Only safety is claimed. `Services` does not check
deadlock: its three parts stop when their bounds are used up.

Proved in `SearchJobsProofs` for any number of indexes, tasks, workers, rows and
failures: `OthersRebuilt` and `ProgressHonest`. The first needs that numbers are given
out in order (`FreeInv`), that the queue holds each queued task once (`QueueInv`), and
that for each task the indexes it has passed are those answered and those failed,
no index both, all answered ones swapped (`TaskInv`). The second ties the last
report of a task to where the task is and to the number of rows it still may read
(`ReportInv`).

## 10. Assumptions of the proofs, and what they leave out

The proofs rest on the ASSUMEs of the modules (non-empty sets, positive bounds,
finite sets of tasks, distinct indexes), on the fault or endpoint sets named in the
theorems (`SafeFaults`, `LoggedEndpoints`, `WorkflowEndpoints`, `Sequential`,
`NoRetype`), and on the fault model of each section. TLC evaluates every ASSUME.

The library's induction theorems take a predicate as parameter, which the provers
cannot instantiate. `SequenceFolds` gets around this: `Induction`, for a set of
numbers instead, follows from `WFMin` (a well-founded relation has minimal elements),
and the operator that is folded is a constant of the module, given by
`INSTANCE SequenceFolds WITH Step <- ...`. `FoldChain` turns a fold into a sequence of
values, one for each element, and the proofs go along it by `Induction`. `Recursion`
gives a recursive definition its function, if each node looks only at nodes below it.

Model-checked only: liveness (`LockFreed`, `JobsEnd`), because the prover has no
fairness and ENABLED; `MeaningKept` (section 6).

## 11. Not modelled

`PROJECT.json` ("components") gives the reason for each part. In short: JSON
rendering, IIIF, W3C annotations and report endpoints only read; users, scribes,
publications, worksets and lookups are single-row CRUD of the framework; HTR
parsing is input handling over XML libraries; date assessments and the audit trail
have no module yet; Django admin edits and the deletion of users (which nulls
`review_assignee`) are outside the API the workflow module models.

Two places where the documentation and the code part, found on the way and outside
any module: `docs/search-operations.md:63` names an action `clean_and_rebuild_all`
that the code calls `clear_and_rebuild_all`; its lines 70-73 advise switching
`SEARCH_AUTO_REINDEX` off, which `src/config/settings.py` reads and nothing uses.
