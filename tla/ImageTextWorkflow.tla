-------------------------- MODULE ImageTextWorkflow --------------------------
(***************************************************************************)
(* The editorial workflow of ImageText rows: every endpoint that writes    *)
(* status, review_assignee or language, or creates or deletes a row        *)
(* (ImageTextManagementViewSet and upsert_sole_image_text of               *)
(* src/apps/manuscripts/views.py), run by concurrent requests.             *)
(*                                                                         *)
(* Postgres runs at READ COMMITTED and no request is wrapped in a          *)
(* transaction, so an endpoint that reads its row with get_object and      *)
(* saves it later takes two steps here, with what it read in `seen`.  An   *)
(* endpoint that reads its rows under their row locks (select_for_update,  *)
(* update_or_create) or in the writing statement itself takes one.         *)
(***************************************************************************)
EXTENDS Naturals, Sequences

CONSTANTS
  Requests,   \* concurrent requests
  Texts,      \* primary keys the sequence may still issue
  Kinds,      \* (item_image, type) pairs
  Statuses,   \* ImageText.Status
  Reviewers,  \* users a text can be sent to
  NoOne,      \* review_assignee IS NULL
  Absent,     \* not a status: there is no such row
  Languages,  \* values of language; Unset is the empty string
  Unset,
  Endpoints,  \* which of AllEndpoints clients use
  MaxLog      \* bound: log entries of one text

AllEndpoints == {"create", "import", "upsert", "transition", "patch", "bulk", "delete"}

ASSUME KeyAssumption == Texts # {} /\ Kinds # {}
ASSUME StatusAssumption == {"Draft", "Review"} \subseteq Statuses /\ Absent \notin Statuses
ASSUME ReviewerAssumption == NoOne \notin Reviewers
ASSUME LanguageAssumption == Unset \in Languages
ASSUME EndpointAssumption == Endpoints \subseteq AllEndpoints
ASSUME LogBoundAssumption == MaxLog \in Nat

VARIABLES
  present,  \* primary keys of the rows that exist
  issued,   \* primary keys ever issued; the sequence never repeats one
  rows,     \* the row of each key; meaningful for present ones
  log,      \* the StatusTransition rows of each text, oldest first
  pc,       \* what each request is doing
  target,   \* the row it addresses
  seen,     \* that row as get_object returned it
  birth,    \* history: the status a text was created with
  asked     \* history: the status, assignee and language last asked for

tableVars == <<present, issued, rows, log>>
requestVars == <<pc, target, seen>>
history == <<birth, asked>>
vars == <<tableVars, requestVars, history>>

Assignees == Reviewers \cup {NoOne}
Row == [kind : Kinds, status : Statuses, assignee : Assignees, language : Languages]
Entry == [from : Statuses, to : Statuses]
Wish == [status : Statuses, assignee : Assignees, language : Languages]

Free(k) == \A t \in present : rows[t].kind # k

TypeOK ==
  /\ present \subseteq issued /\ issued \subseteq Texts
  /\ rows \in [Texts -> Row]
  /\ log \in [Texts -> Seq(Entry)]
  /\ pc \in [Requests -> {"idle"} \cup ({"transition", "patch"} \cap Endpoints)]
  /\ target \in [Requests -> Texts]
  /\ \A r \in Requests : pc[r] # "idle" => target[r] \in issued
  /\ seen \in [Requests -> Row]
  /\ birth \in [Texts -> Statuses]
  /\ asked \in [Texts -> Wish]

\* Nothing is stored yet; what a cell holds before it is written is never read.
NullRow == [kind |-> CHOOSE k \in Kinds : TRUE, status |-> "Draft",
            assignee |-> NoOne, language |-> Unset]
NullWish == [status |-> "Draft", assignee |-> NoOne, language |-> Unset]

Init ==
  /\ present = {} /\ issued = {}
  /\ rows = [t \in Texts |-> NullRow]
  /\ log = [t \in Texts |-> <<>>]
  /\ pc = [r \in Requests |-> "idle"]
  /\ target = [r \in Requests |-> CHOOSE t \in Texts : TRUE]
  /\ seen = [r \in Requests |-> NullRow]
  /\ birth = [t \in Texts |-> "Draft"]
  /\ asked = [t \in Texts |-> NullWish]

-----------------------------------------------------------------------------
(* Rows come and go.                                                       *)

\* What is asked for by who writes the row.
WishOf(row) == [status |-> row.status, assignee |-> row.assignee, language |-> row.language]

\* Mutant: the model has no unique constraint.
InsertAnother(row) ==
  \E t \in Texts \ issued :
    /\ present' = present \cup {t} /\ issued' = issued \cup {t}
    /\ rows' = [rows EXCEPT ![t] = row]
    /\ birth' = [birth EXCEPT ![t] = row.status]
    /\ asked' = [asked EXCEPT ![t] = WishOf(row)]
    /\ UNCHANGED <<log, requestVars>>

\* INSERT with a fresh key; UniqueConstraint(item_image, type) admits it.
Insert(row) ==
  \E t \in Texts \ issued :
    /\ Free(row.kind)
    /\ present' = present \cup {t} /\ issued' = issued \cup {t}
    /\ rows' = [rows EXCEPT ![t] = row]
    /\ birth' = [birth EXCEPT ![t] = row.status]
    /\ asked' = [asked EXCEPT ![t] = WishOf(row)]
    /\ UNCHANGED <<log, requestVars>>

\* POST of the management API: every field is the client's, no log entry.
Create == "create" \in Endpoints /\ \E row \in Row : Insert(row)

\* import_htr: an unassigned Draft.
ImportHtr(k, l) ==
  /\ "import" \in Endpoints
  /\ Insert([kind |-> k, status |-> "Draft", assignee |-> NoOne, language |-> l])

\* bulk_action "delete", or DELETE of one row; the log goes by cascade.
Delete(ids) ==
  /\ "delete" \in Endpoints
  /\ present' = present \ ids
  /\ log' = [t \in Texts |-> IF t \in ids THEN <<>> ELSE log[t]]
  /\ rows' = [t \in Texts |-> IF t \in ids THEN NullRow ELSE rows[t]]
  /\ asked' = [t \in Texts |-> IF t \in ids THEN NullWish ELSE asked[t]]
  /\ UNCHANGED <<issued, requestVars, birth>>

-----------------------------------------------------------------------------
(* Endpoints that take one step.                                           *)

\* Mutant: the status of the payload is not validated.
UpsertUnchecked(k, s, l) ==
  "upsert" \in Endpoints /\ Insert([kind |-> k, status |-> Absent, assignee |-> NoOne, language |-> l])

\* upsert_sole_image_text: update_or_create locks the row, or inserts one, and
\* saves content, status and language.  The status defaults to Draft, the
\* language to the empty string; assignee and log are left as they are.
Upsert(k, s, l) ==
  /\ "upsert" \in Endpoints
  /\ \/ \E t \in present :
          /\ rows[t].kind = k
          /\ rows' = [rows EXCEPT ![t].status = s, ![t].language = l]
          /\ asked' = [asked EXCEPT ![t].status = s, ![t].language = l]
          /\ UNCHANGED <<present, issued, log, requestVars, birth>>
     \/ Insert([kind |-> k, status |-> s, assignee |-> NoOne, language |-> l])

\* Mutant: the assignee is kept when the row leaves Review.
KeptAssignee(to, nominated, current) == IF nominated # NoOne THEN nominated ELSE current

\* Who is assigned after a transition to `to`: nobody outside Review.
AssigneeAfter(to, nominated, current) ==
  IF to # "Review" THEN NoOne ELSE IF nominated # NoOne THEN nominated ELSE current

\* Mutant: save() without update_fields writes back every column that was read.
MovedWhole(current, read, to, nominated) ==
  [read EXCEPT !.status = to, !.assignee = AssigneeAfter(to, nominated, read.assignee)]

\* A transition saves status and review_assignee and leaves the other columns.
Moved(current, read, to, nominated) ==
  [current EXCEPT !.status = to, !.assignee = AssigneeAfter(to, nominated, read.assignee)]

\* Mutants: from_status is read after the assignment; the two are swapped.
EntryAfterwards(from, to) == [from |-> to, to |-> to]
EntrySwapped(from, to) == [from |-> to, to |-> from]

\* The StatusTransition row of a change.
EntryOf(from, to) == [from |-> from, to |-> to]

\* What is asked for after a transition: one to Review without a nominee asks
\* for no assignee.
Wished(wish, to, nominated) ==
  [wish EXCEPT !.status = to, !.assignee = AssigneeAfter(to, nominated, @)]

\* bulk_action "transition": the rows are read under select_for_update and
\* written back with one log entry each, all in one transaction.
BulkTransition(ids, to) ==
  LET moved == ids \cap present IN
  /\ "bulk" \in Endpoints
  /\ \A t \in moved : Len(log[t]) < MaxLog
  /\ rows' = [t \in Texts |->
       IF t \in moved THEN Moved(rows[t], rows[t], to, NoOne) ELSE rows[t]]
  /\ log' = [t \in Texts |->
       IF t \in moved THEN Append(log[t], EntryOf(rows[t].status, to)) ELSE log[t]]
  /\ asked' = [t \in Texts |->
       IF t \in moved THEN Wished(asked[t], to, NoOne) ELSE asked[t]]
  /\ UNCHANGED <<present, issued, requestVars, birth>>

\* bulk_action "set_language": one UPDATE of that column.
BulkSetLanguage(ids, l) ==
  LET tagged == ids \cap present IN
  /\ "bulk" \in Endpoints
  /\ rows' = [t \in Texts |-> IF t \in tagged THEN [rows[t] EXCEPT !.language = l] ELSE rows[t]]
  /\ asked' = [t \in Texts |-> IF t \in tagged THEN [asked[t] EXCEPT !.language = l] ELSE asked[t]]
  /\ UNCHANGED <<present, issued, log, requestVars, birth>>

-----------------------------------------------------------------------------
(* Endpoints that read with get_object and write later.                    *)

GetObject(r, t, endpoint) ==
  /\ pc[r] = "idle" /\ t \in present /\ endpoint \in Endpoints
  /\ pc' = [pc EXCEPT ![r] = endpoint]
  /\ target' = [target EXCEPT ![r] = t]
  /\ seen' = [seen EXCEPT ![r] = rows[t]]
  /\ UNCHANGED <<tableVars, history>>

\* The request is answered and forgets what it read.
Answer(r) ==
  /\ pc' = [pc EXCEPT ![r] = "idle"]
  /\ seen' = [seen EXCEPT ![r] = NullRow]
  /\ UNCHANGED target

\* transition: one transaction saves status and review_assignee and inserts
\* the log entry, whose from_status is the one get_object saw.
Transition(r, to, nominated) ==
  LET t == target[r] IN
  /\ pc[r] = "transition" /\ t \in present
  /\ Len(log[t]) < MaxLog
  /\ rows' = [rows EXCEPT ![t] = Moved(@, seen[r], to, nominated)]
  /\ log' = [log EXCEPT ![t] = Append(@, EntryOf(seen[r].status, to))]
  /\ asked' = [asked EXCEPT ![t] = Wished(@, to, nominated)]
  /\ Answer(r)
  /\ UNCHANGED <<present, issued, birth>>

\* Mutant: save() without update_fields inserts the row again.
TransitionReinserts(r) ==
  /\ pc[r] = "transition" /\ target[r] \notin present /\ Free(seen[r].kind)
  /\ present' = present \cup {target[r]}
  /\ Answer(r)
  /\ UNCHANGED <<issued, rows, log, history>>

\* save(update_fields) of a row deleted meanwhile raises: nothing is written.
TransitionOfDeleted(r) ==
  /\ pc[r] = "transition" /\ target[r] \notin present
  /\ Answer(r)
  /\ UNCHANGED <<tableVars, history>>

\* PATCH or PUT: the serializer sets the fields the body names on the row that
\* get_object saw and saves every column of it.
Patched(r, row, named) ==
  \A f \in {"kind", "status", "assignee", "language"} \ named : row[f] = seen[r][f]

\* The unique constraint admits kind k for text t.
FreeFor(t, k) == \A u \in present \ {t} : rows[u].kind # k

Patch(r, row, named) ==
  LET t == target[r] IN
  /\ pc[r] = "patch" /\ Patched(r, row, named)
  /\ FreeFor(t, row.kind)
  /\ present' = present \cup {t}   \* UPDATE matches no row: save() inserts it again
  /\ rows' = [rows EXCEPT ![t] = row]
  /\ asked' = [asked EXCEPT ![t] =
       [f \in {"status", "assignee", "language"} |->
          IF f \in named \/ t \notin present THEN row[f] ELSE @[f]]]
  /\ Answer(r)
  /\ UNCHANGED <<issued, log, birth>>

\* The kind is another text's, as the validator or the constraint finds out:
\* nothing is written.
PatchRefused(r) ==
  /\ pc[r] = "patch" /\ \E k \in Kinds : ~FreeFor(target[r], k)
  /\ Answer(r)
  /\ UNCHANGED <<tableVars, history>>

-----------------------------------------------------------------------------
Next ==
  \/ Create
  \/ \E k \in Kinds, l \in Languages :
       ImportHtr(k, l) \/ \E s \in Statuses : Upsert(k, s, l)
  \/ \E ids \in SUBSET Texts :
       \/ Delete(ids)
       \/ \E to \in Statuses : BulkTransition(ids, to)
       \/ \E l \in Languages : BulkSetLanguage(ids, l)
  \/ \E r \in Requests :
       \/ \E t \in Texts, endpoint \in {"transition", "patch"} : GetObject(r, t, endpoint)
       \/ \E to \in Statuses, a \in Assignees : Transition(r, to, a)
       \/ \E row \in Row, named \in SUBSET {"kind", "status", "assignee", "language"} :
            Patch(r, row, named)
       \/ TransitionOfDeleted(r) \/ PatchRefused(r)

Spec == Init /\ [][Next]_vars
-----------------------------------------------------------------------------
(* Properties.                                                             *)

\* There is at most one transcription and one translation of an image, so that
\* sole_image_text and upsert_sole_image_text need no database id.
OneTextPerKind ==
  \A t, u \in present : rows[t].kind = rows[u].kind => t = u

\* review_assignee is "cleared when the row leaves Review": the review queue
\* never names a reviewer for a text that is not in review.
AssigneeOnlyInReview ==
  \A t \in present : rows[t].assignee # NoOne => rows[t].status = "Review"

\* The newest log entry of a text names the status it has, and a text without
\* entries has the status it was created with: last_transition is the truth.
LogMatchesStatus ==
  \A t \in present :
    rows[t].status = IF log[t] = <<>> THEN birth[t] ELSE log[t][Len(log[t])].to

\* Every log entry says of where the text came from a status that it really
\* had: the one it was created with or the one of an earlier entry.
FromWasReal ==
  \A t \in Texts : \A i \in 1 .. Len(log[t]) :
    \/ log[t][i].from = birth[t]
    \/ \E j \in 1 .. i - 1 : log[t][j].to = log[t][i].from

\* A PATCH of text t is answered.
PatchEnds(t) == \E r \in Requests : pc[r] = "patch" /\ target[r] = t /\ pc'[r] = "idle"

\* A transition of text t to Review that nominates nobody is answered: it
\* saves the review_assignee that get_object read.
ReviewEnds(t) ==
  /\ \E r \in Requests :
       /\ pc[r] = "transition" /\ target[r] = t /\ pc'[r] = "idle"
       /\ rows'[t].status = "Review" /\ rows'[t].assignee = seen[r].assignee
  /\ asked'[t].assignee = asked[t].assignee

\* No write is undone by a request that did not ask for it: the status, the
\* assignee and the language of a text change only to what was asked for last.
\* Two requests save more than they ask for: PATCH, which saves all the columns
\* it read, and a transition to Review without a nominee, which saves the
\* assignee it read over one that was assigned or cleared meanwhile.
NoLostUpdate ==
  [][\A t \in present \cap present' :
       \/ PatchEnds(t)
       \/ \A f \in {"status", "assignee", "language"} :
            \/ rows'[t][f] \in {rows[t][f], asked'[t][f]}
            \/ f = "assignee" /\ ReviewEnds(t)]_vars

\* A deleted text does not come back ("hard-deletes the rows"), unless a PATCH
\* that read it before saves it.
StaysDeleted == [][\A t \in issued \ present : t \in present' => PatchEnds(t)]_vars

\* The texts are AuditedTexts: no status changes without its log entry.
StatusOf(t) == IF t \in present THEN rows[t].status ELSE Absent
Audited == INSTANCE AuditedTexts WITH status <- [t \in Texts |-> StatusOf(t)], log <- log
AllAudited == Audited!ASpec
=============================================================================
