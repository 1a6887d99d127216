----------------------- MODULE ImageTextWorkflowProofs -----------------------
(***************************************************************************)
(* The editorial workflow for any number of requests, texts, reviewers and *)
(* log entries: which promises hold whatever clients do, and which hold as *)
(* long as they keep to the endpoints made for the workflow.               *)
(***************************************************************************)
EXTENDS ImageTextWorkflow, TLAPS, SequenceTheorems

\* Clients keep off the endpoints that write a status without a log entry.
LoggedEndpoints == Endpoints \cap {"upsert", "patch"} = {}

-----------------------------------------------------------------------------
(* Type correctness.                                                       *)

LEMMA NullFacts ==
  /\ NullRow \in Row /\ NullWish \in Wish
  /\ NullRow.status = "Draft" /\ NullRow.assignee = NoOne
<1>1. (CHOOSE k \in Kinds : TRUE) \in Kinds
  BY KeyAssumption
<1>. QED
  BY <1>1, StatusAssumption, LanguageAssumption DEF NullRow, NullWish, Row, Wish, Assignees

\* What a transition leaves of a row.
LEMMA MovedFacts ==
  ASSUME NEW current \in Row, NEW read \in Row, NEW to \in Statuses, NEW a \in Assignees
  PROVE  /\ Moved(current, read, to, a) \in Row
         /\ Moved(current, read, to, a).status = to
         /\ Moved(current, read, to, a).kind = current.kind
         /\ Moved(current, read, to, a).language = current.language
         /\ Moved(current, read, to, a).assignee = AssigneeAfter(to, a, read.assignee)
         /\ to # "Review" => Moved(current, read, to, a).assignee = NoOne
BY ReviewerAssumption DEF Moved, AssigneeAfter, Row, Assignees

\* What a transition asks for.
LEMMA WishedFacts ==
  ASSUME NEW wish \in Wish, NEW to \in Statuses, NEW a \in Assignees
  PROVE  /\ Wished(wish, to, a) \in Wish
         /\ Wished(wish, to, a).status = to
         /\ Wished(wish, to, a).assignee = AssigneeAfter(to, a, wish.assignee)
BY DEF Wished, AssigneeAfter, Wish, Assignees

LEMMA EntryFacts ==
  ASSUME NEW from \in Statuses, NEW to \in Statuses
  PROVE  EntryOf(from, to) \in Entry /\ EntryOf(from, to).from = from /\ EntryOf(from, to).to = to
BY DEF EntryOf, Entry

LEMMA InsertType ==
  ASSUME TypeOK, NEW row \in Row, Insert(row)
  PROVE  TypeOK'
<1>1. row.status \in Statuses /\ WishOf(row) \in Wish
  BY DEF Row, Wish, WishOf
<1>. QED
  BY <1>1 DEF TypeOK, Insert, requestVars

LEMMA TypeStep == TypeOK /\ [Next]_vars => TypeOK'
<1> SUFFICES ASSUME TypeOK, [Next]_vars PROVE TypeOK'
  OBVIOUS
<1>0. NoOne \in Assignees
  BY DEF Assignees
<1>1. CASE Create
  BY <1>1, InsertType DEF Create
<1>2. ASSUME NEW k \in Kinds, NEW l \in Languages, ImportHtr(k, l) PROVE TypeOK'
  BY <1>0, <1>2, InsertType, StatusAssumption DEF ImportHtr, Row
<1>3. ASSUME NEW k \in Kinds, NEW s \in Statuses, NEW l \in Languages, Upsert(k, s, l)
      PROVE  TypeOK'
  <2>1. CASE Insert([kind |-> k, status |-> s, assignee |-> NoOne, language |-> l])
    BY <1>0, <2>1, InsertType DEF Row
  <2>2. ASSUME NEW t \in present,
               rows' = [rows EXCEPT ![t].status = s, ![t].language = l],
               asked' = [asked EXCEPT ![t].status = s, ![t].language = l],
               UNCHANGED <<present, issued, log, requestVars, birth>>
        PROVE  TypeOK'
    <3>1. rows' \in [Texts -> Row]
      BY <2>2 DEF TypeOK, Row
    <3>2. asked' \in [Texts -> Wish]
      BY <2>2 DEF TypeOK, Wish
    <3>. QED
      BY <2>2, <3>1, <3>2 DEF TypeOK, requestVars
  <2>. QED
    BY <1>3, <2>1, <2>2 DEF Upsert
<1>4. ASSUME NEW ids \in SUBSET Texts, Delete(ids) PROVE TypeOK'
  BY <1>4, NullFacts, EmptySeq DEF TypeOK, Delete, requestVars
<1>5. ASSUME NEW ids \in SUBSET Texts, NEW to \in Statuses, BulkTransition(ids, to)
      PROVE  TypeOK'
  <2>1. rows' \in [Texts -> Row]
    BY <1>0, <1>5, MovedFacts DEF TypeOK, BulkTransition
  <2>2. log' \in [Texts -> Seq(Entry)]
    <3>1. ASSUME NEW t \in Texts PROVE Append(log[t], EntryOf(rows[t].status, to)) \in Seq(Entry)
      BY EntryFacts, AppendProperties DEF TypeOK, Row
    <3>. QED
      BY <1>5, <3>1 DEF TypeOK, BulkTransition
  <2>3. asked' \in [Texts -> Wish]
    BY <1>0, <1>5, WishedFacts DEF TypeOK, BulkTransition
  <2>. QED
    BY <1>5, <2>1, <2>2, <2>3 DEF TypeOK, BulkTransition, requestVars
<1>6. ASSUME NEW ids \in SUBSET Texts, NEW l \in Languages, BulkSetLanguage(ids, l)
      PROVE  TypeOK'
  <2>1. rows' \in [Texts -> Row]
    BY <1>6 DEF TypeOK, BulkSetLanguage, Row
  <2>2. asked' \in [Texts -> Wish]
    BY <1>6 DEF TypeOK, BulkSetLanguage, Wish
  <2>. QED
    BY <1>6, <2>1, <2>2 DEF TypeOK, BulkSetLanguage, requestVars
<1>7. ASSUME NEW r \in Requests, NEW t \in Texts, NEW e \in {"transition", "patch"},
             GetObject(r, t, e)
      PROVE  TypeOK'
  BY <1>7 DEF TypeOK, GetObject, tableVars, history
<1>8. ASSUME NEW r \in Requests, NEW to \in Statuses, NEW a \in Assignees, Transition(r, to, a)
      PROVE  TypeOK'
  <2>1. rows' \in [Texts -> Row]
    BY <1>8, MovedFacts DEF TypeOK, Transition
  <2>2. log' \in [Texts -> Seq(Entry)]
    <3>1. Append(log[target[r]], EntryOf(seen[r].status, to)) \in Seq(Entry)
      BY EntryFacts, AppendProperties DEF TypeOK, Row
    <3>. QED
      BY <1>8, <3>1 DEF TypeOK, Transition
  <2>3. asked' \in [Texts -> Wish]
    BY <1>8, WishedFacts DEF TypeOK, Transition
  <2>. QED
    BY <1>8, <2>1, <2>2, <2>3, NullFacts DEF TypeOK, Transition, Answer
<1>9. ASSUME NEW r \in Requests, NEW row \in Row,
             NEW named \in SUBSET {"kind", "status", "assignee", "language"}, Patch(r, row, named)
      PROVE  TypeOK'
  <2>1. asked' \in [Texts -> Wish]
    <3> DEFINE w == [f \in {"status", "assignee", "language"} |->
                       IF f \in named \/ target[r] \notin present THEN row[f] ELSE asked[target[r]][f]]
    <3>1. w \in Wish
      BY DEF TypeOK, Wish, Row
    <3>. QED
      BY <1>9, <3>1 DEF TypeOK, Patch
  <2>2. present' \subseteq issued' /\ issued' \subseteq Texts
    BY <1>9 DEF TypeOK, Patch
  <2>. QED
    BY <1>9, <2>1, <2>2, NullFacts DEF TypeOK, Patch, Answer
<1>10. ASSUME NEW r \in Requests, TransitionOfDeleted(r) \/ PatchRefused(r) PROVE TypeOK'
  BY <1>10, NullFacts DEF TypeOK, TransitionOfDeleted, PatchRefused, Answer, tableVars, history
<1>11. CASE UNCHANGED vars
  BY <1>11 DEF TypeOK, vars, tableVars, requestVars, history
<1>. QED
  BY <1>1, <1>2, <1>3, <1>4, <1>5, <1>6, <1>7, <1>8, <1>9, <1>10, <1>11 DEF Next

\* Every variable keeps its type, whichever endpoints clients use.
THEOREM TypeCorrect == Spec => []TypeOK
<1>1. Init => TypeOK
  <2>1. (CHOOSE t \in Texts : TRUE) \in Texts
    BY KeyAssumption
  <2>. QED
    BY <2>1, NullFacts, StatusAssumption, EmptySeq DEF Init, TypeOK
<1>. QED
  BY <1>1, TypeStep, PTL DEF Spec

-----------------------------------------------------------------------------
(* What a step does to the table, whatever endpoint takes it: facts the    *)
(* invariants below are read off from.                                     *)

\* A row that exists before and after a step: its kind changes only in PATCH,
\* and what an INSERT adds is a key never issued before.
LEMMA InsertFacts ==
  ASSUME TypeOK, NEW row \in Row, Insert(row)
  PROVE  \E t \in Texts \ issued :
           /\ t \notin present /\ Free(row.kind)
           /\ present' = present \cup {t} /\ rows' = [rows EXCEPT ![t] = row]
           /\ birth' = [birth EXCEPT ![t] = row.status]
           /\ asked' = [asked EXCEPT ![t] = WishOf(row)]
           /\ UNCHANGED <<log, pc, target, seen>>
BY DEF TypeOK, Insert, requestVars

\* What a transition does to the table.
LEMMA TransitionFacts ==
  ASSUME TypeOK, NEW r \in Requests, NEW to \in Statuses, NEW a \in Assignees,
         Transition(r, to, a)
  PROVE  /\ target[r] \in present /\ target[r] \in Texts
         /\ rows'[target[r]].status = to
         /\ rows'[target[r]].kind = rows[target[r]].kind
         /\ rows'[target[r]].language = rows[target[r]].language
         /\ rows'[target[r]].assignee = AssigneeAfter(to, a, seen[r].assignee)
         /\ to # "Review" => rows'[target[r]].assignee = NoOne
         /\ \A u \in Texts : u # target[r] => rows'[u] = rows[u]
         /\ UNCHANGED <<present, issued, birth>>
<1> DEFINE t == target[r]
           m == Moved(rows[t], seen[r], to, a)
<1>1. t \in Texts /\ rows[t] \in Row /\ seen[r] \in Row
  BY DEF TypeOK
<1>2. t \in present /\ rows' = [rows EXCEPT ![t] = m] /\ UNCHANGED <<present, issued, birth>>
  BY DEF Transition
<1>3. /\ m.status = to /\ m.kind = rows[t].kind /\ m.language = rows[t].language
      /\ m.assignee = AssigneeAfter(to, a, seen[r].assignee)
      /\ to # "Review" => m.assignee = NoOne
  <2> SUFFICES ASSUME NEW current \in Row, NEW read \in Row,
                      current = rows[t], read = seen[r]
               PROVE  LET new == Moved(current, read, to, a)
                      IN /\ new.status = to /\ new.kind = current.kind
                         /\ new.language = current.language
                         /\ new.assignee = AssigneeAfter(to, a, read.assignee)
                         /\ to # "Review" => new.assignee = NoOne
    BY <1>1, Zenon
  <2>. QED
    BY MovedFacts
<1>4. rows'[t] = m /\ \A u \in Texts : u # t => rows'[u] = rows[u]
  BY <1>1, <1>2 DEF TypeOK
<1> HIDE DEF m
<1>. QED
  BY <1>1, <1>2, <1>3, <1>4

\* What an upsert of an existing row does to the table.
LEMMA UpdateFacts ==
  ASSUME TypeOK, NEW t \in present, NEW s, NEW l,
         rows' = [rows EXCEPT ![t].status = s, ![t].language = l]
  PROVE  /\ t \in Texts
         /\ rows'[t].kind = rows[t].kind /\ rows'[t].status = s /\ rows'[t].language = l
         /\ rows'[t].assignee = rows[t].assignee
         /\ \A u \in Texts : u # t => rows'[u] = rows[u]
BY DEF TypeOK, Row

\* The rows an endpoint may insert.
LEMMA InsertedRows ==
  ASSUME NEW k \in Kinds, NEW s \in Statuses, NEW l \in Languages
  PROVE  LET row == [kind |-> k, status |-> s, assignee |-> NoOne, language |-> l] IN
         row \in Row /\ row.assignee = NoOne
BY DEF Row, Assignees

-----------------------------------------------------------------------------
(* One text per kind.                                                      *)

LEMMA OneStep == TypeOK /\ OneTextPerKind /\ [Next]_vars => OneTextPerKind'
<1> SUFFICES ASSUME TypeOK, OneTextPerKind, [Next]_vars PROVE OneTextPerKind'
  OBVIOUS
<1> USE DEF OneTextPerKind
<1>0. ASSUME NEW row \in Row, Insert(row) PROVE OneTextPerKind'
  <2>1. PICK t \in Texts \ issued : /\ t \notin present /\ Free(row.kind)
                                     /\ present' = present \cup {t} /\ rows' = [rows EXCEPT ![t] = row]
    BY <1>0, InsertFacts
  <2>2. rows'[t] = row /\ \A u \in present : u # t /\ rows'[u] = rows[u]
    BY <2>1 DEF TypeOK
  <2>. QED
    BY <2>1, <2>2 DEF Free
<1>1. CASE Create
  BY <1>0, <1>1 DEF Create
<1>2. ASSUME NEW k \in Kinds, NEW l \in Languages, ImportHtr(k, l) PROVE OneTextPerKind'
  BY <1>0, <1>2, InsertedRows, StatusAssumption DEF ImportHtr
<1>3. ASSUME NEW k \in Kinds, NEW s \in Statuses, NEW l \in Languages, Upsert(k, s, l)
      PROVE  OneTextPerKind'
  <2>1. CASE Insert([kind |-> k, status |-> s, assignee |-> NoOne, language |-> l])
    BY <1>0, <2>1, InsertedRows
  <2>2. ASSUME NEW t \in present, rows' = [rows EXCEPT ![t].status = s, ![t].language = l],
               present' = present
        PROVE  OneTextPerKind'
    <3>1. \A u \in Texts : rows'[u].kind = rows[u].kind
      BY <1>0, <2>2 DEF TypeOK, Row
    <3>. QED
      BY <2>2, <3>1 DEF TypeOK
  <2>. QED
    BY <1>3, <2>1, <2>2 DEF Upsert
<1>4. ASSUME NEW ids \in SUBSET Texts, Delete(ids) PROVE OneTextPerKind'
  BY <1>4 DEF TypeOK, Delete
<1>5. ASSUME NEW ids \in SUBSET Texts, NEW to \in Statuses, BulkTransition(ids, to)
      PROVE  OneTextPerKind'
  <2>1. \A t \in Texts : rows'[t].kind = rows[t].kind
    BY <1>5, MovedFacts DEF TypeOK, BulkTransition, Assignees
  <2>. QED
    BY <1>5, <2>1 DEF TypeOK, BulkTransition
<1>6. ASSUME NEW ids \in SUBSET Texts, NEW l \in Languages, BulkSetLanguage(ids, l)
      PROVE  OneTextPerKind'
  BY <1>6 DEF TypeOK, BulkSetLanguage, Row
<1>7. ASSUME NEW r \in Requests, NEW to \in Statuses, NEW a \in Assignees, Transition(r, to, a)
      PROVE  OneTextPerKind'
  <2>1. \A t \in Texts : rows'[t].kind = rows[t].kind
    BY <1>7, TransitionFacts
  <2>. QED
    BY <1>7, <2>1, TransitionFacts DEF TypeOK
<1>8. ASSUME NEW r \in Requests, NEW row \in Row,
             NEW named \in SUBSET {"kind", "status", "assignee", "language"}, Patch(r, row, named)
      PROVE  OneTextPerKind'
  BY <1>8 DEF TypeOK, Patch, FreeFor
<1>9. ASSUME NEW r \in Requests, \/ \E t \in Texts, e \in {"transition", "patch"} : GetObject(r, t, e)
                                 \/ TransitionOfDeleted(r) \/ PatchRefused(r)
      PROVE  OneTextPerKind'
  BY <1>9 DEF GetObject, TransitionOfDeleted, PatchRefused, tableVars
<1>10. CASE UNCHANGED vars
  BY <1>10 DEF vars, tableVars
<1>. QED
  BY <1>1, <1>2, <1>3, <1>4, <1>5, <1>6, <1>7, <1>8, <1>9, <1>10 DEF Next

\* However clients interleave, there is at most one text of a kind: every
\* endpoint that writes item_image and type goes through the unique constraint.
THEOREM SoleText == Spec => []OneTextPerKind
<1>1. Init => OneTextPerKind
  BY DEF Init, OneTextPerKind
<1>. QED
  BY <1>1, OneStep, TypeCorrect, PTL DEF Spec

-----------------------------------------------------------------------------
(* The endpoints made for the workflow keep what PATCH and upsert break.   *)

\* Rows are changed by import, transition and bulk actions and deletions only.
WorkflowEndpoints == Endpoints \cap {"create", "upsert", "patch"} = {}

LEMMA AssigneeStep ==
  ASSUME WorkflowEndpoints
  PROVE  TypeOK /\ AssigneeOnlyInReview /\ [Next]_vars => AssigneeOnlyInReview'
<1> SUFFICES ASSUME TypeOK, AssigneeOnlyInReview, [Next]_vars PROVE AssigneeOnlyInReview'
  OBVIOUS
<1> USE DEF AssigneeOnlyInReview
<1>1. ASSUME NEW k \in Kinds, NEW l \in Languages, ImportHtr(k, l) PROVE AssigneeOnlyInReview'
  <2> DEFINE row == [kind |-> k, status |-> "Draft", assignee |-> NoOne, language |-> l]
  <2>1. row \in Row /\ row.assignee = NoOne /\ Insert(row)
    BY <1>1, InsertedRows, StatusAssumption DEF ImportHtr
  <2> HIDE DEF row
  <2>2. PICK t \in Texts \ issued : present' = present \cup {t} /\ rows' = [rows EXCEPT ![t] = row]
    BY <2>1, InsertFacts
  <2>3. rows'[t] = row /\ \A u \in present : rows'[u] = rows[u]
    BY <2>2 DEF TypeOK
  <2>. QED
    BY <2>1, <2>2, <2>3
<1>2. ASSUME NEW ids \in SUBSET Texts, Delete(ids) PROVE AssigneeOnlyInReview'
  BY <1>2 DEF TypeOK, Delete
<1>3. ASSUME NEW ids \in SUBSET Texts, NEW to \in Statuses, BulkTransition(ids, to)
      PROVE  AssigneeOnlyInReview'
  BY <1>3, MovedFacts DEF TypeOK, BulkTransition, Assignees
<1>4. ASSUME NEW ids \in SUBSET Texts, NEW l \in Languages, BulkSetLanguage(ids, l)
      PROVE  AssigneeOnlyInReview'
  BY <1>4 DEF TypeOK, BulkSetLanguage, Row
<1>5. ASSUME NEW r \in Requests, NEW to \in Statuses, NEW a \in Assignees, Transition(r, to, a)
      PROVE  AssigneeOnlyInReview'
  BY <1>5, TransitionFacts DEF TypeOK
<1>6. ASSUME NEW r \in Requests, NEW t \in Texts, NEW e \in {"transition", "patch"}, GetObject(r, t, e)
      PROVE  AssigneeOnlyInReview'
  BY <1>6 DEF GetObject, tableVars
<1>7. ASSUME NEW r \in Requests, TransitionOfDeleted(r) \/ PatchRefused(r)
      PROVE  AssigneeOnlyInReview'
  BY <1>7 DEF TransitionOfDeleted, PatchRefused, tableVars
<1>8. CASE UNCHANGED vars
  BY <1>8 DEF vars, tableVars
<1>9. ASSUME NEW r \in Requests PROVE pc[r] # "patch"
  BY DEF TypeOK, WorkflowEndpoints
<1>. QED
  BY <1>1, <1>2, <1>3, <1>4, <1>5, <1>6, <1>7, <1>8, <1>9
  DEF Next, WorkflowEndpoints, Create, Upsert, Patch

\* Import, transitions and bulk actions leave no reviewer on a text that is not
\* in Review, whatever the order of stale transitions and bulk actions.
THEOREM AssigneeCleared ==
  ASSUME WorkflowEndpoints
  PROVE  Spec => []AssigneeOnlyInReview
<1>1. Init => AssigneeOnlyInReview
  BY DEF Init, AssigneeOnlyInReview
<1>. QED
  BY <1>1, AssigneeStep, TypeCorrect, PTL DEF Spec

-----------------------------------------------------------------------------
(* What loses writes, or brings rows back.                                 *)

\* What NoLostUpdate says of a step.
Kept(t) ==
  \/ PatchEnds(t)
  \/ /\ rows'[t].status \in {rows[t].status, asked'[t].status}
     /\ rows'[t].language \in {rows[t].language, asked'[t].language}
     /\ rows'[t].assignee \in {rows[t].assignee, asked'[t].assignee} \/ ReviewEnds(t)

LEMMA PatchFacts ==
  ASSUME TypeOK, NEW r \in Requests, NEW row \in Row,
         NEW named \in SUBSET {"kind", "status", "assignee", "language"}, Patch(r, row, named)
  PROVE  /\ PatchEnds(target[r])
         /\ \A u \in Texts : u # target[r] => rows'[u] = rows[u] /\ (u \in present' => u \in present)
<1>1. pc' = [pc EXCEPT ![r] = "idle"] /\ pc[r] = "patch" /\ target[r] \in Texts
  BY DEF Patch, Answer, TypeOK
<1>2. pc'[r] = "idle"
  BY <1>1 DEF TypeOK
<1>3. PatchEnds(target[r])
  BY <1>1, <1>2 DEF PatchEnds
<1>4. \A u \in Texts : u # target[r] => rows'[u] = rows[u] /\ (u \in present' => u \in present)
  BY <1>1 DEF Patch, TypeOK
<1>. QED
  BY <1>3, <1>4

LEMMA UpdateStep ==
  TypeOK /\ [Next]_vars => \A t \in present \cap present' : Kept(t)
<1> SUFFICES ASSUME TypeOK, [Next]_vars, NEW t \in present, t \in present' PROVE Kept(t)
  OBVIOUS
<1>a. t \in Texts
  BY DEF TypeOK
<1> USE DEF Kept
<1>0. ASSUME NEW row \in Row, Insert(row) PROVE Kept(t)
  BY <1>0, <1>a, InsertFacts DEF TypeOK, Row
<1>1. CASE Create
  BY <1>0, <1>1 DEF Create
<1>2. ASSUME NEW k \in Kinds, NEW l \in Languages, ImportHtr(k, l) PROVE Kept(t)
  BY <1>0, <1>2, InsertedRows, StatusAssumption DEF ImportHtr
<1>3. ASSUME NEW k \in Kinds, NEW s \in Statuses, NEW l \in Languages, Upsert(k, s, l)
      PROVE  Kept(t)
  <2>1. CASE Insert([kind |-> k, status |-> s, assignee |-> NoOne, language |-> l])
    BY <1>0, <2>1, InsertedRows
  <2>2. ASSUME NEW u \in present, rows' = [rows EXCEPT ![u].status = s, ![u].language = l],
               asked' = [asked EXCEPT ![u].status = s, ![u].language = l]
        PROVE  Kept(t)
    <3>1. /\ u \in Texts /\ rows'[u].status = s /\ rows'[u].language = l
          /\ rows'[u].assignee = rows[u].assignee
          /\ \A v \in Texts : v # u => rows'[v] = rows[v]
      BY <1>0, <2>2 DEF TypeOK, Row
    <3>2. asked'[u].status = s /\ asked'[u].language = l
      BY <2>2, <3>1 DEF TypeOK, Wish
    <3>3. CASE t = u
      BY <3>1, <3>2, <3>3
    <3>4. CASE t # u
      BY <1>a, <3>1, <3>4
    <3>. QED
      BY <3>3, <3>4
  <2>. QED
    BY <1>3, <2>1, <2>2 DEF Upsert
<1>4. ASSUME NEW ids \in SUBSET Texts, Delete(ids) PROVE Kept(t)
  BY <1>4, <1>a DEF TypeOK, Delete
<1>5. ASSUME NEW ids \in SUBSET Texts, NEW to \in Statuses, BulkTransition(ids, to)
      PROVE  Kept(t)
  <2>1. CASE t \in ids
    <3>1. rows'[t] = Moved(rows[t], rows[t], to, NoOne) /\ asked'[t] = Wished(asked[t], to, NoOne)
      BY <1>5, <1>a, <2>1 DEF BulkTransition
    <3>2. NoOne \in Assignees /\ rows[t] \in Row /\ asked[t] \in Wish
      BY <1>a DEF TypeOK, Assignees
    <3>3. /\ rows'[t].status = to /\ rows'[t].language = rows[t].language
          /\ rows'[t].assignee = AssigneeAfter(to, NoOne, rows[t].assignee)
      BY <3>1, <3>2, MovedFacts
    <3>4. asked'[t].status = to /\ asked'[t].assignee = AssigneeAfter(to, NoOne, asked[t].assignee)
      BY <3>1, <3>2, WishedFacts
    <3>5. rows'[t].assignee \in {rows[t].assignee, asked'[t].assignee}
      BY <3>3, <3>4 DEF AssigneeAfter
    <3>. QED
      BY <3>3, <3>4, <3>5
  <2>2. CASE t \notin ids
    BY <1>5, <1>a, <2>2 DEF BulkTransition
  <2>. QED
    BY <2>1, <2>2
<1>6. ASSUME NEW ids \in SUBSET Texts, NEW l \in Languages, BulkSetLanguage(ids, l)
      PROVE  Kept(t)
  BY <1>6, <1>a DEF TypeOK, BulkSetLanguage, Row, Wish
<1>7. ASSUME NEW r \in Requests, NEW to \in Statuses, NEW a \in Assignees, Transition(r, to, a)
      PROVE  Kept(t)
  <2> DEFINE u == target[r]
  <2>1. /\ u \in Texts /\ rows'[u].status = to /\ rows'[u].language = rows[u].language
        /\ rows'[u].assignee = AssigneeAfter(to, a, seen[r].assignee)
        /\ \A v \in Texts : v # u => rows'[v] = rows[v]
    BY <1>7, TransitionFacts
  <2>2. pc[r] = "transition" /\ pc'[r] = "idle" /\ asked'[u] = Wished(asked[u], to, a) /\ asked[u] \in Wish
    BY <1>7 DEF Transition, Answer, TypeOK
  <2> HIDE DEF u
  <2>3. asked'[u].status = to /\ asked'[u].assignee = AssigneeAfter(to, a, asked[u].assignee)
    BY <2>2, WishedFacts
  <2>4. CASE t = u /\ to = "Review" /\ a = NoOne
    <3>1. rows'[u].assignee = seen[r].assignee /\ asked'[u].assignee = asked[u].assignee
      BY <2>1, <2>3, <2>4 DEF AssigneeAfter
    <3>2. ReviewEnds(u)
      BY <2>1, <2>2, <2>4, <3>1 DEF ReviewEnds, u
    <3>. QED
      BY <2>1, <2>3, <2>4, <3>2
  <2>5. CASE t = u /\ ~(to = "Review" /\ a = NoOne)
    <3>1. rows'[u].assignee = asked'[u].assignee
      BY <2>1, <2>3, <2>5 DEF AssigneeAfter
    <3>. QED
      BY <2>1, <2>3, <2>5, <3>1
  <2>6. CASE t # u
    BY <1>a, <2>1, <2>6
  <2>. QED
    BY <2>4, <2>5, <2>6
<1>8. ASSUME NEW r \in Requests, \/ \E u \in Texts, e \in {"transition", "patch"} : GetObject(r, u, e)
                                 \/ TransitionOfDeleted(r) \/ PatchRefused(r)
      PROVE  Kept(t)
  BY <1>8 DEF GetObject, TransitionOfDeleted, PatchRefused, tableVars
<1>9. ASSUME NEW r \in Requests, NEW row \in Row,
             NEW named \in SUBSET {"kind", "status", "assignee", "language"}, Patch(r, row, named)
      PROVE  Kept(t)
  <2>1. CASE t = target[r]
    BY <1>9, <2>1, PatchFacts
  <2>2. CASE t # target[r]
    <3>1. rows'[t] = rows[t]
      BY <1>9, <1>a, <2>2, PatchFacts
    <3>. QED
      BY <3>1
  <2>. QED
    BY <2>1, <2>2
<1>10. CASE UNCHANGED vars
  BY <1>10 DEF vars, tableVars, history
<1>. QED
  BY <1>1, <1>2, <1>3, <1>4, <1>5, <1>6, <1>7, <1>8, <1>9, <1>10 DEF Next

\* Endpoints that lock the row or save named columns never undo one another,
\* nor what a PATCH wrote; but a transition to Review that nominates nobody may
\* undo an assignment.
THEOREM WritesKept == Spec => NoLostUpdate
<1> DEFINE Says(t) ==
             \/ PatchEnds(t)
             \/ \A f \in {"status", "assignee", "language"} :
                  \/ rows'[t][f] \in {rows[t][f], asked'[t][f]}
                  \/ f = "assignee" /\ ReviewEnds(t)
<1>1. TypeOK /\ [Next]_vars => [\A t \in present \cap present' : Kept(t)]_vars
  BY UpdateStep
<1>2. ASSUME NEW t, Kept(t) PROVE Says(t)
  <2> SUFFICES ASSUME ~PatchEnds(t), NEW f \in {"status", "assignee", "language"}
               PROVE  \/ rows'[t][f] \in {rows[t][f], asked'[t][f]}
                      \/ f = "assignee" /\ ReviewEnds(t)
    OBVIOUS
  <2>1. CASE f = "status"
    BY <1>2, <2>1 DEF Kept
  <2>2. CASE f = "language"
    BY <1>2, <2>2 DEF Kept
  <2>3. CASE f = "assignee"
    BY <1>2, <2>3 DEF Kept
  <2>. QED
    BY <2>1, <2>2, <2>3
<1>3. [\A t \in present \cap present' : Kept(t)]_vars => [\A t \in present \cap present' : Says(t)]_vars
  <2> HIDE DEF Says
  <2>. QED
    BY <1>2
<1>. QED
  BY <1>1, <1>3, TypeCorrect, PTL DEF Spec, NoLostUpdate

LEMMA DeletedStep ==
  TypeOK /\ [Next]_vars => \A t \in issued \ present : t \in present' => PatchEnds(t)
<1> SUFFICES ASSUME TypeOK, [Next]_vars, NEW t \in issued \ present, t \in present' PROVE PatchEnds(t)
  OBVIOUS
<1>a. t \in Texts
  BY DEF TypeOK
<1>0. ASSUME NEW row \in Row, Insert(row) PROVE FALSE
  BY <1>0 DEF Insert
<1>1. ASSUME NEW k \in Kinds, NEW l \in Languages,
             ImportHtr(k, l) \/ \E s \in Statuses : Upsert(k, s, l)
      PROVE  FALSE
  BY <1>0, <1>1, InsertedRows, StatusAssumption DEF ImportHtr, Upsert
<1>2. ASSUME NEW ids \in SUBSET Texts,
             \/ Delete(ids)
             \/ \E to \in Statuses : BulkTransition(ids, to)
             \/ \E l \in Languages : BulkSetLanguage(ids, l)
      PROVE  FALSE
  BY <1>2 DEF Delete, BulkTransition, BulkSetLanguage
<1>3. ASSUME NEW r \in Requests,
             \/ \E u \in Texts, e \in {"transition", "patch"} : GetObject(r, u, e)
             \/ \E to \in Statuses, a \in Assignees : Transition(r, to, a)
             \/ TransitionOfDeleted(r) \/ PatchRefused(r)
      PROVE  FALSE
  BY <1>3 DEF GetObject, Transition, TransitionOfDeleted, PatchRefused, tableVars
<1>4. ASSUME NEW r \in Requests, NEW row \in Row,
             NEW named \in SUBSET {"kind", "status", "assignee", "language"}, Patch(r, row, named)
      PROVE  PatchEnds(t)
  <2>1. t = target[r]
    BY <1>4, <1>a, PatchFacts
  <2>. QED
    BY <1>4, <2>1, PatchFacts
<1>5. CASE UNCHANGED vars
  BY <1>5 DEF vars, tableVars
<1>. QED
  BY <1>0, <1>1, <1>2, <1>3, <1>4, <1>5 DEF Next, Create

\* A transition that read a row before it was deleted does not bring it back.
THEOREM NeverReturns == Spec => StaysDeleted
<1>1. TypeOK /\ [Next]_vars => [\A t \in issued \ present : t \in present' => PatchEnds(t)]_vars
  BY DeletedStep
<1>. QED
  BY <1>1, TypeCorrect, PTL DEF Spec, StaysDeleted

-----------------------------------------------------------------------------
(* The audit log.  As long as every status is written through transition   *)
(* or bulk_action, each text enters, moves, leaves or stays as AuditedTexts *)
(* has it, and what a stale transition logs as from_status is at least a    *)
(* status the text once had.                                                *)

StaysAsIs(t) ==
  /\ t \in present <=> t \in present'
  /\ t \in present => rows'[t].status = rows[t].status
  /\ log'[t] = log[t] /\ birth'[t] = birth[t]

IsCreated(t) ==
  /\ t \notin issued /\ t \in present'
  /\ rows'[t].status = birth'[t] /\ log'[t] = log[t]

\* The status of a move comes from the table, or from what a request has seen.
KnownBy(t, from) ==
  \/ from = rows[t].status
  \/ \E r \in Requests : pc[r] = "transition" /\ target[r] = t /\ seen[r].status = from

IsMoved(t) ==
  /\ t \in present /\ t \in present' /\ birth'[t] = birth[t]
  /\ \E from \in Statuses :
       KnownBy(t, from) /\ log'[t] = Append(log[t], EntryOf(from, rows'[t].status))

IsDeleted(t) == t \in present /\ t \notin present' /\ log'[t] = <<>> /\ birth'[t] = birth[t]

\* A deleted text has lost its log, and so has a key not yet issued.
NoStrayEntries == \A t \in Texts \ present : log[t] = <<>>

LEMMA TextStep ==
  ASSUME LoggedEndpoints, TypeOK, NoStrayEntries, [Next]_vars, NEW t \in Texts
  PROVE  StaysAsIs(t) \/ IsCreated(t) \/ IsMoved(t) \/ IsDeleted(t)
<1> DEFINE G == StaysAsIs(t) \/ IsCreated(t) \/ IsMoved(t) \/ IsDeleted(t)
<1>0. ASSUME NEW row \in Row, Insert(row) PROVE G
  <2>1. PICK u \in Texts \ issued : /\ present' = present \cup {u} /\ rows' = [rows EXCEPT ![u] = row]
                                     /\ birth' = [birth EXCEPT ![u] = row.status] /\ log' = log
    BY <1>0, InsertFacts
  <2>2. CASE t = u
    BY <2>1, <2>2 DEF TypeOK, IsCreated
  <2>3. CASE t # u
    BY <2>1, <2>3 DEF TypeOK, StaysAsIs
  <2>. QED
    BY <2>2, <2>3
<1>1. CASE Create
  BY <1>0, <1>1 DEF Create
<1>2. ASSUME NEW k \in Kinds, NEW l \in Languages, ImportHtr(k, l) PROVE G
  BY <1>0, <1>2, InsertedRows, StatusAssumption DEF ImportHtr
<1>3. ASSUME NEW ids \in SUBSET Texts, Delete(ids) PROVE G
  <2>1. CASE t \in ids /\ t \in present
    BY <1>3, <2>1 DEF Delete, IsDeleted
  <2>2. CASE t \notin ids
    BY <1>3, <2>2 DEF TypeOK, Delete, StaysAsIs
  <2>3. CASE t \in ids /\ t \notin present
    BY <1>3, <2>3 DEF TypeOK, Delete, NoStrayEntries, StaysAsIs
  <2>. QED
    BY <2>1, <2>2, <2>3
<1>4. ASSUME NEW ids \in SUBSET Texts, NEW to \in Statuses, BulkTransition(ids, to) PROVE G
  <2>1. CASE t \in ids \cap present
    <3>1. rows[t].status \in Statuses /\ KnownBy(t, rows[t].status)
      BY DEF TypeOK, Row, KnownBy
    <3>2. rows'[t].status = to
      BY <1>4, <2>1, MovedFacts DEF BulkTransition, TypeOK, Assignees
    <3>3. log'[t] = Append(log[t], EntryOf(rows[t].status, to))
      BY <1>4, <2>1 DEF BulkTransition, TypeOK
    <3>4. present' = present /\ birth' = birth
      BY <1>4 DEF BulkTransition
    <3>. QED
      BY <2>1, <3>1, <3>2, <3>3, <3>4 DEF IsMoved
  <2>2. CASE t \notin ids \cap present
    BY <1>4, <2>2 DEF BulkTransition, TypeOK, StaysAsIs
  <2>. QED
    BY <2>1, <2>2
<1>5. ASSUME NEW ids \in SUBSET Texts, NEW l \in Languages, BulkSetLanguage(ids, l) PROVE G
  BY <1>5 DEF BulkSetLanguage, TypeOK, Row, StaysAsIs
<1>6. ASSUME NEW r \in Requests, NEW to \in Statuses, NEW a \in Assignees, Transition(r, to, a)
      PROVE  G
  <2>1. /\ pc[r] = "transition" /\ seen[r].status \in Statuses
        /\ log' = [log EXCEPT ![target[r]] = Append(@, EntryOf(seen[r].status, to))]
    BY <1>6 DEF Transition, TypeOK, Row
  <2>2. CASE t = target[r]
    <3>1. KnownBy(t, seen[r].status) /\ log'[t] = Append(log[t], EntryOf(seen[r].status, to))
      BY <2>1, <2>2 DEF KnownBy, TypeOK
    <3>2. t \in present /\ rows'[t].status = to /\ present' = present /\ birth' = birth
      BY <1>6, <2>2, TransitionFacts
    <3>. QED
      BY <2>1, <3>1, <3>2 DEF IsMoved
  <2>3. CASE t # target[r]
    <3>1. log'[t] = log[t]
      BY <2>1, <2>3 DEF TypeOK
    <3>2. rows'[t] = rows[t] /\ present' = present /\ birth' = birth
      BY <1>6, <2>3, TransitionFacts
    <3>. QED
      BY <3>1, <3>2 DEF StaysAsIs
  <2>. QED
    BY <2>2, <2>3
<1>7. ASSUME NEW r \in Requests, \/ \E u \in Texts, e \in {"transition", "patch"} : GetObject(r, u, e)
                                 \/ TransitionOfDeleted(r) \/ PatchRefused(r)
      PROVE  G
  BY <1>7 DEF GetObject, TransitionOfDeleted, PatchRefused, tableVars, history, StaysAsIs
<1>8. ASSUME NEW r \in Requests PROVE pc[r] # "patch"
  BY DEF TypeOK, LoggedEndpoints
<1>9. CASE UNCHANGED vars
  BY <1>9 DEF vars, tableVars, history, StaysAsIs
<1>. QED
  BY <1>1, <1>2, <1>3, <1>4, <1>5, <1>6, <1>7, <1>8, <1>9
  DEF Next, LoggedEndpoints, Upsert, Patch

LEMMA StrayStep ==
  ASSUME LoggedEndpoints, TypeOK, NoStrayEntries, [Next]_vars
  PROVE  NoStrayEntries'
<1> SUFFICES ASSUME NEW t \in Texts, t \notin present' PROVE log'[t] = <<>>
  BY DEF NoStrayEntries
<1>. QED
  BY TextStep DEF StaysAsIs, IsCreated, IsMoved, IsDeleted, NoStrayEntries

\* The table implements AuditedTexts: while a text exists its status moves only
\* together with a new log entry that names the status it moved to.
THEOREM Refinement ==
  ASSUME LoggedEndpoints
  PROVE  Spec => AllAudited
<1> DEFINE st == [t \in Texts |-> StatusOf(t)]
<1>1. Init => Audited!AInit /\ NoStrayEntries
  BY DEF Init, Audited!AInit, StatusOf, NoStrayEntries
<1>2. TypeOK /\ NoStrayEntries /\ [Next]_vars => [Audited!ANext]_<<st, log>> /\ NoStrayEntries'
  <2> SUFFICES ASSUME TypeOK, NoStrayEntries, [Next]_vars
               PROVE  Audited!ANext /\ NoStrayEntries'
    OBVIOUS
  <2>1. ASSUME NEW t \in Texts
        PROVE  Audited!Enter(t) \/ Audited!Move(t) \/ Audited!Leave(t) \/ Audited!Stay(t)
    <3>1. /\ st[t] = IF t \in present THEN rows[t].status ELSE Absent
          /\ st'[t] = IF t \in present' THEN rows'[t].status ELSE Absent
      BY DEF StatusOf
    <3>2. /\ t \in present => rows[t].status \in Statuses
          /\ t \in present' => rows'[t].status \in Statuses
          /\ Absent \notin Statuses
      BY TypeStep, StatusAssumption DEF TypeOK, Row
    <3>3. CASE StaysAsIs(t)
      BY <3>1, <3>3 DEF StaysAsIs, Audited!Stay
    <3>4. CASE IsCreated(t)
      BY <3>1, <3>2, <3>4 DEF IsCreated, Audited!Enter, NoStrayEntries, TypeOK
    <3>5. CASE IsMoved(t)
      BY <3>1, <3>2, <3>5 DEF IsMoved, EntryOf, Audited!Move
    <3>6. CASE IsDeleted(t)
      BY <3>1, <3>2, <3>6 DEF IsDeleted, Audited!Leave
    <3>. QED
      BY <3>3, <3>4, <3>5, <3>6, TextStep
  <2>. QED
    BY <2>1, StrayStep DEF Audited!ANext
<1>. QED
  BY <1>1, <1>2, TypeCorrect, PTL DEF Spec, AllAudited, Audited!ASpec

-----------------------------------------------------------------------------
(* What the log says of the past.  FromWasReal alone is not inductive: a    *)
(* bulk action logs the status of the table, so the newest entry must agree *)
(* with the table (LogMatchesStatus); a transition logs what its get_object *)
(* saw, so that must be a status the text had (SeenWasReal).                *)

\* The text t has had the status s.
Had(t, s) == s = birth[t] \/ \E j \in 1 .. Len(log[t]) : log[t][j].to = s

SeenWasReal ==
  \A r \in Requests :
    pc[r] = "transition" /\ target[r] \in present => Had(target[r], seen[r].status)

PastInv ==
  /\ TypeOK /\ NoStrayEntries
  /\ LogMatchesStatus /\ SeenWasReal /\ FromWasReal

\* What a request knows it knew before, or reads from the table in this step.
LEMMA RequestStep ==
  ASSUME TypeOK, [Next]_vars, NEW r \in Requests, pc'[r] = "transition"
  PROVE  \/ pc[r] = "transition" /\ target'[r] = target[r] /\ seen'[r] = seen[r]
         \/ target'[r] \in present /\ seen'[r] = rows[target'[r]]
            /\ present' = present /\ log' = log /\ birth' = birth
<1> DEFINE G == \/ pc[r] = "transition" /\ target'[r] = target[r] /\ seen'[r] = seen[r]
                \/ target'[r] \in present /\ seen'[r] = rows[target'[r]]
                   /\ present' = present /\ log' = log /\ birth' = birth
<1>0. UNCHANGED <<pc, target, seen>> => G
  OBVIOUS
<1>1. ASSUME NEW row \in Row, Insert(row) PROVE UNCHANGED <<pc, target, seen>>
  BY <1>1 DEF Insert, requestVars
<1>2. ASSUME NEW k \in Kinds, NEW l \in Languages,
             ImportHtr(k, l) \/ \E s \in Statuses : Upsert(k, s, l)
      PROVE  UNCHANGED <<pc, target, seen>>
  BY <1>1, <1>2, InsertedRows, StatusAssumption DEF ImportHtr, Upsert, requestVars
<1>3. ASSUME NEW ids \in SUBSET Texts,
             \/ Delete(ids)
             \/ \E to \in Statuses : BulkTransition(ids, to)
             \/ \E l \in Languages : BulkSetLanguage(ids, l)
      PROVE  UNCHANGED <<pc, target, seen>>
  BY <1>3 DEF Delete, BulkTransition, BulkSetLanguage, requestVars
<1>4. ASSUME NEW q \in Requests, NEW t \in Texts, NEW e \in {"transition", "patch"}, GetObject(q, t, e)
      PROVE  G
  BY <1>4 DEF GetObject, TypeOK, tableVars, history
<1>5. ASSUME NEW q \in Requests, Answer(q) PROVE G
  BY <1>5 DEF Answer, TypeOK
<1>6. ASSUME NEW q \in Requests,
             \/ \E to \in Statuses, a \in Assignees : Transition(q, to, a)
             \/ \E row \in Row, named \in SUBSET {"kind", "status", "assignee", "language"} :
                  Patch(q, row, named)
             \/ TransitionOfDeleted(q) \/ PatchRefused(q)
      PROVE  Answer(q)
  BY <1>6 DEF Transition, Patch, TransitionOfDeleted, PatchRefused
<1>7. CASE UNCHANGED vars
  BY <1>7 DEF vars, requestVars
<1>. QED
  BY <1>0, <1>1, <1>2, <1>3, <1>4, <1>5, <1>6, <1>7 DEF Next, Create

\* A move keeps the past of a text and adds the new status to it.
LEMMA AppendFacts ==
  ASSUME NEW s \in Seq(Entry), NEW e \in Entry
  PROVE  /\ Len(Append(s, e)) = Len(s) + 1 /\ Len(s) \in Nat
         /\ Append(s, e)[Len(s) + 1] = e
         /\ \A j \in 1 .. Len(s) : Append(s, e)[j] = s[j]
BY AppendProperties, LenProperties

LEMMA PastStep ==
  ASSUME LoggedEndpoints, PastInv, [Next]_vars
  PROVE  PastInv'
<1> USE DEF PastInv
<1>1. TypeOK' /\ NoStrayEntries'
  BY TypeStep, StrayStep
<1>2. ASSUME NEW t \in Texts, t \in present, NEW from \in Statuses, KnownBy(t, from)
      PROVE  Had(t, from)
  <2>1. Had(t, rows[t].status)
    BY <1>2, LenProperties DEF LogMatchesStatus, Had, TypeOK
  <2>. QED
    BY <1>2, <2>1 DEF KnownBy, SeenWasReal
<1>3. ASSUME NEW t \in Texts, IsMoved(t)
      PROVE  \E from \in Statuses :
               /\ Had(t, from) /\ Len(log'[t]) = Len(log[t]) + 1 /\ Len(log[t]) \in Nat
               /\ log'[t][Len(log[t]) + 1] = EntryOf(from, rows'[t].status)
               /\ \A j \in 1 .. Len(log[t]) : log'[t][j] = log[t][j]
               /\ birth'[t] = birth[t] /\ t \in present
  <2>1. PICK from \in Statuses : KnownBy(t, from) /\ log'[t] = Append(log[t], EntryOf(from, rows'[t].status))
    BY <1>3 DEF IsMoved
  <2>2. rows'[t].status \in Statuses /\ log[t] \in Seq(Entry)
    BY <1>1 DEF TypeOK, Row
  <2>3. EntryOf(from, rows'[t].status) \in Entry
    BY <2>2, EntryFacts
  <2>. QED
    BY <1>2, <1>3, <2>1, <2>2, <2>3, AppendFacts DEF IsMoved
<1>4. ASSUME NEW t \in Texts, t \in present, t \in present', NEW s, Had(t, s) PROVE Had(t, s)'
  <2>1. CASE StaysAsIs(t)
    BY <1>4, <2>1 DEF StaysAsIs, Had
  <2>2. CASE IsMoved(t)
    BY <1>3, <1>4, <2>2 DEF Had
  <2>. QED
    BY <1>4, <2>1, <2>2, TextStep DEF IsCreated, IsDeleted, TypeOK
<1>5. LogMatchesStatus'
  <2> SUFFICES ASSUME NEW t \in Texts, t \in present'
               PROVE  rows'[t].status = IF log'[t] = <<>> THEN birth'[t] ELSE log'[t][Len(log'[t])].to
    BY <1>1 DEF LogMatchesStatus, TypeOK
  <2>1. CASE StaysAsIs(t)
    BY <2>1 DEF StaysAsIs, LogMatchesStatus
  <2>2. CASE IsCreated(t)
    BY <2>2 DEF IsCreated, NoStrayEntries, TypeOK
  <2>3. CASE IsMoved(t)
    <3>1. PICK from \in Statuses :
               /\ Len(log'[t]) = Len(log[t]) + 1 /\ Len(log[t]) \in Nat
               /\ log'[t][Len(log[t]) + 1] = EntryOf(from, rows'[t].status)
      BY <1>3, <2>3
    <3>2. EntryOf(from, rows'[t].status).to = rows'[t].status
      BY DEF EntryOf
    <3>3. Len(log'[t]) # 0
      BY <3>1
    <3>4. log'[t] # <<>>
      BY <3>3, EmptySeq
    <3>. QED
      BY <3>1, <3>2, <3>4
  <2>. QED
    BY <2>1, <2>2, <2>3, TextStep DEF IsDeleted
<1>6. SeenWasReal'
  <2> SUFFICES ASSUME NEW r \in Requests, pc'[r] = "transition", target'[r] \in present'
               PROVE  Had(target[r], seen[r].status)'
    BY Zenon DEF SeenWasReal
  <2>1. CASE pc[r] = "transition" /\ target'[r] = target[r] /\ seen'[r] = seen[r]
    <3>1. target[r] \in Texts /\ target[r] \in issued
      BY <2>1 DEF TypeOK
    <3>2. CASE target[r] \in present
      <4>1. Had(target[r], seen[r].status)
        BY <2>1, <3>2 DEF SeenWasReal
      <4>2. PICK u \in Texts, s \in {seen[r].status} : u = target[r] /\ s = seen[r].status
        BY <3>1
      <4>3. u \in present /\ u \in present' /\ Had(u, s)
        BY <2>1, <3>2, <4>1, <4>2
      <4>4. Had(u, s)'
        BY <1>4, <4>3
      <4>. QED
        BY <2>1, <4>2, <4>4 DEF Had
    <3>3. CASE target[r] \notin present
      BY <2>1, <3>1, <3>3, TextStep DEF StaysAsIs, IsCreated, IsMoved, IsDeleted
    <3>. QED
      BY <3>2, <3>3
  <2>2. CASE target'[r] \in present /\ seen'[r] = rows[target'[r]]
             /\ present' = present /\ log' = log /\ birth' = birth
    <3> DEFINE t == target'[r]
    <3>1. t \in Texts /\ log[t] \in Seq(Entry)
      BY <1>1 DEF TypeOK
    <3>2. Had(t, rows[t].status)
      BY <2>2, <3>1, LenProperties DEF LogMatchesStatus, Had
    <3>. QED
      BY <2>2, <3>2 DEF Had
  <2>. QED
    BY <2>1, <2>2, RequestStep
<1>7. FromWasReal'
  <2> SUFFICES ASSUME NEW t \in Texts, NEW i \in 1 .. Len(log'[t])
               PROVE  \/ log'[t][i].from = birth'[t]
                      \/ \E j \in 1 .. i - 1 : log'[t][j].to = log'[t][i].from
    BY DEF FromWasReal
  <2>1. CASE StaysAsIs(t)
    BY <2>1 DEF StaysAsIs, FromWasReal
  <2>2. CASE IsCreated(t) \/ IsDeleted(t)
    BY <2>2, EmptySeq DEF IsCreated, IsDeleted, NoStrayEntries, TypeOK
  <2>3. CASE IsMoved(t)
    <3>1. PICK from \in Statuses :
               /\ Had(t, from) /\ Len(log'[t]) = Len(log[t]) + 1 /\ Len(log[t]) \in Nat
               /\ log'[t][Len(log[t]) + 1] = EntryOf(from, rows'[t].status)
               /\ \A j \in 1 .. Len(log[t]) : log'[t][j] = log[t][j]
               /\ birth'[t] = birth[t] /\ t \in present
      BY <1>3, <2>3
    <3>2. CASE i = Len(log[t]) + 1
      BY <3>1, <3>2 DEF Had, EntryOf
    <3>3. CASE i \in 1 .. Len(log[t])
      <4>1. \/ log[t][i].from = birth[t]
            \/ \E j \in 1 .. i - 1 : log[t][j].to = log[t][i].from
        BY <3>3 DEF FromWasReal
      <4>2. log'[t][i] = log[t][i] /\ \A j \in 1 .. i - 1 : log'[t][j] = log[t][j]
        BY <3>1, <3>3
      <4>. QED
        BY <3>1, <4>1, <4>2
    <3>. QED
      BY <3>1, <3>2, <3>3
  <2>. QED
    BY <2>1, <2>2, <2>3, TextStep
<1>. QED
  BY <1>1, <1>5, <1>6, <1>7

\* However stale the read of a transition, what it logs as from_status is a
\* status the text had: the one it was created with, or one of an earlier entry.
THEOREM LoggedPastIsReal ==
  ASSUME LoggedEndpoints
  PROVE  Spec => []FromWasReal
<1>1. Init /\ TypeOK => PastInv
  BY EmptySeq DEF Init, PastInv, NoStrayEntries, LogMatchesStatus, SeenWasReal, FromWasReal
<1>2. PastInv /\ [Next]_vars => PastInv'
  BY PastStep
<1>3. PastInv => FromWasReal
  BY DEF PastInv
<1>. QED
  BY <1>1, <1>2, <1>3, TypeCorrect, PTL DEF Spec
=============================================================================
