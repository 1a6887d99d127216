-------------------------- MODULE RegionLinksProofs --------------------------
(***************************************************************************)
(* The safety of the links between texts and regions, for any number of    *)
(* texts, graphs and, where a theorem does not say otherwise, requests.    *)
(***************************************************************************)
EXTENDS RegionLinks, TLAPS, WellFoundedInduction

\* No client changes the annotation_type or the image of a graph (deleting a
\* retyped graph strips no text).
NoRetype == "retype" \notin Endpoints

\* Requests do not overlap (the run RegionLinksRace shows why this matters).
Sequential == \A q, r \in Requests : q = r

\* The steps that the proofs split Next into.
LinkStep(r) ==
  \/ \E t \in Texts : StartLink(r, t)
  \/ \E g \in Graphs : LinkNew(r, g) \/ FindRegion(r, g)
  \/ LinkExisting(r)
StripStep(r) ==
  \/ \E g \in Graphs : StartUnlink(r, g) \/ StartDelete(r, g)
  \/ Signal(r) \/ Strip(r) \/ UnlinkRegion(r) \/ UnlinkNothing(r) \/ RemoveGraph(r)
OtherStep(r) ==
  \/ \E t \in Texts : StartEdit(r, t) \/ \E lines \in SUBSET Graphs : Import(r, t, lines)
  \/ \E g \in Graphs, k \in Existing : StartRetype(r, g, k)
  \/ Retype(r) \/ SaveEdit(r) \/ Fails(r)

LEMMA Steps == Next => \E r \in Requests : LinkStep(r) \/ StripStep(r) \/ OtherStep(r)
BY Zenon DEF Next, LinkStep, StripStep, OtherStep

-----------------------------------------------------------------------------
(* The first text of a set is one of the set.                              *)

Less == {p \in Nat \X Nat : p[1] < p[2]}

LEMMA FirstIn == ASSUME NEW S, S \subseteq Nat, S # {}
                 PROVE  First(S) \in S /\ \A u \in S : First(S) <= u
<1>1. OpToRel(<, Nat) = Less
  BY Zenon DEF OpToRel, Less
<1>2. IsWellFoundedOn(Less, Nat)
  BY NatLessThanWellFounded, <1>1, Zenon
<1>3. PICK x \in S : \A y \in S : <<y, x>> \notin Less
  BY <1>2, WFMin, Zenon
<1>4. ASSUME NEW y \in S PROVE x <= y
  <2>1. x \in Nat /\ y \in Nat
    OBVIOUS
  <2>2. <<y, x>> \in Nat \X Nat
    BY <2>1
  <2>3. y < x => <<y, x>> \in Less
    BY <2>2 DEF Less
  <2> QED BY <2>1, <2>3, <1>3
<1> QED BY <1>4 DEF First

LEMMA FirstNaming == ASSUME TypeOK, NEW r \in Requests, Naming(r) # {}
                     PROVE  /\ First(Naming(r)) \in Naming(r)
                            /\ \A u \in Naming(r) : First(Naming(r)) <= u
<1>1. Texts \subseteq Nat
  BY TextsAssumption DEF Texts
<1>2. Naming(r) \subseteq Nat
  BY <1>1 DEF TypeOK, Naming
<1> QED BY <1>2, FirstIn, Zenon

-----------------------------------------------------------------------------
(* Types.                                                                  *)

LEMMA InitType == Init => TypeOK
BY TextsAssumption, GraphsAssumption DEF Init, TypeOK, Texts, Existing, Kinds

LEMMA EndsType == ASSUME TypeOK, NEW r \in Requests, Ends(r)
                  PROVE  /\ pc' \in [Requests -> {"idle", "link", "join", "strip", "again", "delete",
                                                  "signal", "remove", "retype", "edit"}]
                         /\ text' \in [Requests -> Texts]
                         /\ graph' \in [Requests -> Graphs]
                         /\ found' \in [Requests -> Existing]
                         /\ seen' \in [Requests -> [Texts -> SUBSET Graphs]]
                         /\ locked' \in [Requests -> SUBSET Texts]
BY TextsAssumption, GraphsAssumption DEF TypeOK, Ends, Texts, Existing

LEMMA ViewType == ASSUME TypeOK, NEW r \in Requests
                  PROVE  View(r) \in [Texts -> SUBSET Graphs]
BY DEF TypeOK, View

LEMMA NextType == TypeOK /\ [Next]_vars => TypeOK'
<1> SUFFICES ASSUME TypeOK, [Next]_vars PROVE TypeOK'
  OBVIOUS
<1>1. CASE UNCHANGED vars
  BY <1>1 DEF TypeOK, vars, tables, request, history
<1>2. ASSUME NEW r \in Requests, LinkStep(r) PROVE TypeOK'
  <2>1. CASE \E t \in Texts : StartLink(r, t)
    BY <2>1 DEF TypeOK, StartLink, ReadText, tables, history
  <2>2. CASE \E g \in Graphs : LinkNew(r, g)
    <3>1. PICK g \in Graphs : LinkNew(r, g)
      BY <2>2
    <3>2. Ends(r) /\ UNCHANGED present /\ kind' \in [Graphs -> Kinds]
      BY <3>1 DEF LinkNew, TypeOK, Kinds, Existing
    <3>3. content' \in [Texts -> SUBSET Graphs] /\ raced' \subseteq Texts /\ retyped' \subseteq Graphs
      BY <3>1 DEF LinkNew, WriteText, TypeOK
    <3> QED BY <3>2, <3>3, EndsType DEF TypeOK
  <2>3. CASE \E g \in Graphs : FindRegion(r, g)
    BY <2>3 DEF TypeOK, FindRegion, tables, history
  <2>4. CASE LinkExisting(r)
    <3>1. Ends(r) /\ UNCHANGED <<present, kind, retyped>>
      BY <2>4 DEF LinkExisting
    <3>2. content' \in [Texts -> SUBSET Graphs] /\ raced' \subseteq Texts
      BY <2>4 DEF LinkExisting, TypeOK
    <3> QED BY <3>1, <3>2, EndsType DEF TypeOK
  <2> QED BY <1>2, <2>1, <2>2, <2>3, <2>4 DEF LinkStep
<1>3. ASSUME NEW r \in Requests, StripStep(r) PROVE TypeOK'
  <2>1. CASE \E g \in Graphs : StartUnlink(r, g)
    BY <2>1 DEF TypeOK, StartUnlink, tables, history
  <2>7. CASE \E g \in Graphs : StartDelete(r, g)
    BY <2>7 DEF TypeOK, StartDelete, tables, history
  <2>2. CASE Signal(r)
    BY <2>2 DEF TypeOK, Signal, tables, history
  <2>3. CASE Strip(r)
    <3>1. First(Naming(r)) \in Texts
      BY <2>3, FirstNaming DEF Strip, Naming, TypeOK
    <3> QED BY <2>3, <3>1 DEF TypeOK, Strip, tables, history
  <2>4. CASE UnlinkRegion(r)
    BY <2>4, ViewType DEF TypeOK, UnlinkRegion, tables, history
  <2>5. CASE UnlinkNothing(r)
    <3>1. Ends(r) /\ content' = View(r) /\ UNCHANGED <<present, kind, history>>
      BY <2>5 DEF UnlinkNothing, Publish
    <3> QED BY <3>1, EndsType, ViewType DEF TypeOK, history
  <2>6. CASE RemoveGraph(r)
    <3>1. Ends(r) /\ content' = View(r) /\ UNCHANGED <<present, retyped>>
      BY <2>6 DEF RemoveGraph, Publish
    <3>2. kind' \in [Graphs -> Kinds] /\ raced' \subseteq Texts
      BY <2>6 DEF RemoveGraph, TypeOK, Kinds, Existing, Missed
    <3> QED BY <3>1, <3>2, EndsType, ViewType DEF TypeOK
  <2> QED BY <1>3, <2>1, <2>2, <2>3, <2>4, <2>5, <2>6, <2>7 DEF StripStep
<1>4. ASSUME NEW r \in Requests, OtherStep(r) PROVE TypeOK'
  <2>1. CASE \E t \in Texts : StartEdit(r, t)
    BY <2>1 DEF TypeOK, StartEdit, ReadText, tables, history
  <2>2. CASE \E t \in Texts, lines \in SUBSET Graphs : Import(r, t, lines)
    BY <2>2 DEF TypeOK, Import, request, history, Kinds, Existing
  <2>3. CASE \E g \in Graphs, k \in Existing : StartRetype(r, g, k)
    BY <2>3 DEF TypeOK, StartRetype, tables, history
  <2>4. CASE Retype(r)
    <3>1. /\ Ends(r) /\ UNCHANGED <<present, content, raced>>
          /\ kind' \in [Graphs -> Kinds] /\ retyped' \subseteq Graphs
      BY <2>4 DEF Retype, TypeOK, Kinds
    <3> QED BY <3>1, EndsType DEF TypeOK
  <2>5. CASE SaveEdit(r)
    <3>1. Ends(r) /\ UNCHANGED <<present, kind>>
      BY <2>5 DEF SaveEdit
    <3>2. /\ content' \in [Texts -> SUBSET Graphs]
          /\ raced' \subseteq Texts /\ retyped' \subseteq Graphs
      BY <2>5 DEF SaveEdit, WriteText, TypeOK
    <3> QED BY <3>1, <3>2, EndsType DEF TypeOK
  <2>6. CASE Fails(r)
    <3>1. Ends(r) /\ UNCHANGED <<tables, history>>
      BY <2>6 DEF Fails
    <3> QED BY <3>1, EndsType DEF TypeOK, tables, history
  <2> QED BY <1>4, <2>1, <2>2, <2>3, <2>4, <2>5, <2>6 DEF OtherStep
<1> QED BY <1>1, <1>2, <1>3, <1>4, Steps

\* Every variable keeps its type, whatever the endpoints do.
THEOREM TypeCorrect == Spec => []TypeOK
BY InitType, NextType, PTL DEF Spec

-----------------------------------------------------------------------------
(* Row locks, which hold whatever the endpoints do.                        *)

Stripping(r) == pc[r] \in StripPhases

\* Only requests that strip texts hold rows across steps, no two the same row,
\* and what they have written no longer names their graph.
LockInv ==
  /\ \A r \in Requests :
       /\ locked[r] \subseteq present
       /\ locked[r] # {} => Stripping(r)
       /\ \A t \in locked[r] : graph[r] \notin seen[r][t]
  /\ \A q, r \in Requests : q # r => locked[q] \cap locked[r] = {}

\* A request that will write a text, or a graph, addresses one there is.
TargetInv ==
  \A r \in Requests :
    /\ pc[r] \in {"link", "join", "edit"} => text[r] \in present
    /\ pc[r] = "retype" => kind[graph[r]] # "unissued"

\* The fate of the request r that ends and of the others.
LEMMA EndsRequest ==
  ASSUME TypeOK, NEW r \in Requests, Ends(r)
  PROVE  /\ pc'[r] = "idle" /\ locked'[r] = {}
         /\ \A q \in Requests \ {r} :
              /\ pc'[q] = pc[q] /\ text'[q] = text[q] /\ graph'[q] = graph[q]
              /\ found'[q] = found[q] /\ seen'[q] = seen[q] /\ locked'[q] = locked[q]
BY DEF TypeOK, Ends

LEMMA EndsLocks == ASSUME TypeOK, LockInv, NEW r \in Requests, Ends(r), present \subseteq present'
                   PROVE  LockInv'
BY EndsRequest DEF LockInv, Stripping, StripPhases

LEMMA NextLocks == TypeOK /\ LockInv /\ [Next]_vars => LockInv'
<1> SUFFICES ASSUME TypeOK, LockInv, [Next]_vars PROVE LockInv'
  OBVIOUS
<1>1. CASE UNCHANGED vars
  BY <1>1 DEF LockInv, Stripping, StripPhases, vars, tables, request, history
<1>2. ASSUME NEW r \in Requests, LinkStep(r) PROVE LockInv'
  <2>1. CASE \E t \in Texts : StartLink(r, t)
    BY <2>1 DEF TypeOK, LockInv, Stripping, StripPhases, StartLink, ReadText, tables, history
  <2>2. CASE \E g \in Graphs : LinkNew(r, g)
    BY <2>2, EndsLocks DEF LinkNew
  <2>3. CASE \E g \in Graphs : FindRegion(r, g)
    BY <2>3 DEF TypeOK, LockInv, Stripping, StripPhases, FindRegion, tables, history
  <2>4. CASE LinkExisting(r)
    BY <2>4, EndsLocks DEF LinkExisting
  <2> QED BY <1>2, <2>1, <2>2, <2>3, <2>4 DEF LinkStep
<1>3. ASSUME NEW r \in Requests, StripStep(r) PROVE LockInv'
  <2>1. CASE \E g \in Graphs : StartUnlink(r, g)
    BY <2>1 DEF TypeOK, LockInv, Stripping, StripPhases, StartUnlink, tables, history
  <2>2. CASE \E g \in Graphs : StartDelete(r, g)
    BY <2>2 DEF TypeOK, LockInv, Stripping, StripPhases, StartDelete, tables, history
  <2>3. CASE Signal(r)
    BY <2>3 DEF TypeOK, LockInv, Stripping, StripPhases, Signal, tables, history
  <2>4. CASE Strip(r)
    <3> DEFINE t == First(Naming(r))
    <3>1. t \in present /\ t \in Texts
      BY <2>4, FirstNaming DEF Strip, Naming, TypeOK
    <3> HIDE DEF t
    <3>2. /\ Stripping(r) /\ Unlocked(r, t)
          /\ seen' = [seen EXCEPT ![r][t] = @ \ {graph[r]}]
          /\ locked' = [locked EXCEPT ![r] = @ \cup {t}]
          /\ UNCHANGED <<present, pc, graph>>
      BY <2>4 DEF Strip, t, Stripping, StripPhases, tables, history
    <3> QED BY <3>1, <3>2 DEF TypeOK, LockInv, Stripping, StripPhases, Unlocked
  <2>5. CASE UnlinkRegion(r)
    BY <2>5 DEF TypeOK, LockInv, Stripping, StripPhases, UnlinkRegion, Stripped, View, tables, history
  <2>6. CASE UnlinkNothing(r)
    BY <2>6, EndsLocks DEF UnlinkNothing
  <2>7. CASE RemoveGraph(r)
    BY <2>7, EndsLocks DEF RemoveGraph
  <2> QED BY <1>3, <2>1, <2>2, <2>3, <2>4, <2>5, <2>6, <2>7 DEF StripStep
<1>4. ASSUME NEW r \in Requests, OtherStep(r) PROVE LockInv'
  <2>1. CASE \E t \in Texts : StartEdit(r, t)
    BY <2>1 DEF TypeOK, LockInv, Stripping, StripPhases, StartEdit, ReadText, tables, history
  <2>2. CASE \E t \in Texts, lines \in SUBSET Graphs : Import(r, t, lines)
    BY <2>2 DEF TypeOK, LockInv, Stripping, StripPhases, Import, request, history
  <2>3. CASE \E g \in Graphs, k \in Existing : StartRetype(r, g, k)
    BY <2>3 DEF TypeOK, LockInv, Stripping, StripPhases, StartRetype, tables, history
  <2>4. CASE Retype(r)
    BY <2>4, EndsLocks DEF Retype
  <2>5. CASE SaveEdit(r)
    BY <2>5, EndsLocks DEF SaveEdit
  <2>6. CASE Fails(r)
    BY <2>6, EndsLocks DEF Fails, tables, history
  <2> QED BY <1>4, <2>1, <2>2, <2>3, <2>4, <2>5, <2>6 DEF OtherStep
<1> QED BY <1>1, <1>2, <1>3, <1>4, Steps

LEMMA NextTargets == TypeOK /\ TargetInv /\ [Next]_vars => TargetInv'
<1> SUFFICES ASSUME TypeOK, TargetInv, [Next]_vars PROVE TargetInv'
  OBVIOUS
<1> USE DEF TargetInv
<1>1. CASE UNCHANGED vars
  BY <1>1 DEF vars, tables, request, history
<1>0. ASSUME NEW r \in Requests, Ends(r), present' = present,
             \A g \in Graphs : kind[g] # "unissued" => kind'[g] # "unissued"
      PROVE  TargetInv'
  <2>1. pc'[r] = "idle"
    BY <1>0, EndsRequest
  <2>2. \A q \in Requests \ {r} : pc'[q] = pc[q] /\ text'[q] = text[q] /\ graph'[q] = graph[q]
    BY <1>0, EndsRequest
  <2>3. \A q \in Requests : graph[q] \in Graphs
    BY DEF TypeOK
  <2> QED BY <1>0, <2>1, <2>2, <2>3
<1>2. ASSUME NEW r \in Requests, LinkStep(r) PROVE TargetInv'
  <2>1. CASE \E t \in Texts : StartLink(r, t)
    BY <2>1 DEF TypeOK, StartLink, ReadText, tables, history
  <2>2. CASE \E g \in Graphs : LinkNew(r, g)
    BY <2>2, <1>0 DEF LinkNew, TypeOK
  <2>3. CASE \E g \in Graphs : FindRegion(r, g)
    BY <2>3 DEF TypeOK, FindRegion, tables, history
  <2>4. CASE LinkExisting(r)
    BY <2>4, <1>0 DEF LinkExisting
  <2> QED BY <1>2, <2>1, <2>2, <2>3, <2>4 DEF LinkStep
<1>3. ASSUME NEW r \in Requests, StripStep(r) PROVE TargetInv'
  <2>1. CASE \E g \in Graphs : StartUnlink(r, g)
    BY <2>1 DEF TypeOK, StartUnlink, tables, history
  <2>2. CASE \E g \in Graphs : StartDelete(r, g)
    BY <2>2 DEF TypeOK, StartDelete, tables, history
  <2>3. CASE Signal(r)
    BY <2>3 DEF TypeOK, Signal, tables, history
  <2>4. CASE Strip(r)
    BY <2>4 DEF TypeOK, Strip, tables, history
  <2>5. CASE UnlinkRegion(r)
    BY <2>5 DEF TypeOK, UnlinkRegion, tables, history
  <2>6. CASE UnlinkNothing(r)
    BY <2>6, <1>0 DEF UnlinkNothing
  <2>7. CASE RemoveGraph(r)
    BY <2>7, <1>0 DEF RemoveGraph, TypeOK, Existing
  <2> QED BY <1>3, <2>1, <2>2, <2>3, <2>4, <2>5, <2>6, <2>7 DEF StripStep
<1>4. ASSUME NEW r \in Requests, OtherStep(r) PROVE TargetInv'
  <2>1. CASE \E t \in Texts : StartEdit(r, t)
    BY <2>1 DEF TypeOK, StartEdit, ReadText, tables, history
  <2>2. CASE \E t \in Texts, lines \in SUBSET Graphs : Import(r, t, lines)
    BY <2>2 DEF TypeOK, Import, request, history
  <2>3. CASE \E g \in Graphs, k \in Existing : StartRetype(r, g, k)
    BY <2>3 DEF TypeOK, StartRetype, Existing, tables, history
  <2>4. CASE Retype(r)
    BY <2>4, <1>0 DEF Retype, TypeOK, Existing
  <2>5. CASE SaveEdit(r)
    BY <2>5, <1>0 DEF SaveEdit
  <2>6. CASE Fails(r)
    BY <2>6, <1>0 DEF Fails, tables, history
  <2> QED BY <1>4, <2>1, <2>2, <2>3, <2>4, <2>5, <2>6 DEF OtherStep
<1> QED BY <1>1, <1>2, <1>3, <1>4, Steps

LEMMA InitLocks == Init => LockInv /\ TargetInv
BY DEF Init, LockInv, TargetInv, Stripping, StripPhases

-----------------------------------------------------------------------------
(* Regions are born with their name.                                       *)

\* What BornNamed says of one step.
Born == \A g \in Graphs : kind[g] = "unissued" /\ kind'[g] # "unissued" =>
          \E t \in present' : g \in content'[t]

LEMMA NextBorn == TypeOK /\ TargetInv /\ [Next]_vars => Born
<1> SUFFICES ASSUME TypeOK, TargetInv, [Next]_vars PROVE Born
  OBVIOUS
<1>1. CASE \A g \in Graphs : kind[g] = "unissued" => kind'[g] = "unissued"
  BY <1>1 DEF Born
<1>2. CASE \E r \in Requests, g \in Graphs : LinkNew(r, g)
  <2>1. PICK r \in Requests, g \in Graphs : LinkNew(r, g)
    BY <1>2
  <2>2. text[r] \in present' /\ text[r] \in Texts
    BY <2>1 DEF LinkNew, TargetInv, TypeOK
  <2>3. g \in content'[text[r]]
    BY <2>1, <2>2 DEF LinkNew, WriteText, TypeOK
  <2>4. \A h \in Graphs \ {g} : kind'[h] = kind[h]
    BY <2>1 DEF LinkNew, TypeOK
  <2> QED BY <2>2, <2>3, <2>4 DEF Born
<1>3. CASE \E r \in Requests, t \in Texts, lines \in SUBSET Graphs : Import(r, t, lines)
  BY <1>3 DEF Import, Born, TypeOK
<1>4. ASSUME NEW r \in Requests, LinkStep(r) PROVE Born
  BY <1>4, <1>1, <1>2 DEF LinkStep, StartLink, ReadText, FindRegion, LinkExisting, tables, history
<1>5. ASSUME NEW r \in Requests, StripStep(r) PROVE Born
  <2>1. kind' = kind \/ RemoveGraph(r)
    BY <1>5 DEF StripStep, StartUnlink, StartDelete, Signal, Strip, UnlinkRegion, UnlinkNothing,
                tables
  <2> QED BY <2>1, <1>1 DEF RemoveGraph, TypeOK, Existing
<1>6. ASSUME NEW r \in Requests, OtherStep(r) PROVE Born
  <2>1. kind' = kind \/ Retype(r) \/ \E t \in Texts, lines \in SUBSET Graphs : Import(r, t, lines)
    BY <1>6 DEF OtherStep, StartEdit, ReadText, StartRetype, SaveEdit, Fails, tables, history
  <2>2. CASE Retype(r)
    BY <2>2, <1>1 DEF Retype, TargetInv, TypeOK
  <2> QED BY <2>1, <2>2, <1>1, <1>3
<1>7. CASE UNCHANGED vars
  BY <1>7, <1>1 DEF vars, tables, history
<1> QED BY <1>4, <1>5, <1>6, <1>7, Steps

\* However many requests link, import and delete, a region appears together with
\* a text that names it.
THEOREM NamedAtBirth == Spec => BornNamed
<1>1. Spec => [](TypeOK /\ TargetInv)
  BY InitType, InitLocks, NextType, NextTargets, PTL DEF Spec
<1>2. TypeOK /\ TargetInv /\ [Next]_vars => [Born]_vars
  BY NextBorn
<1>3. Spec => [][Born]_vars
  BY <1>1, <1>2, PTL DEF Spec
<1> QED BY <1>3 DEF BornNamed, Born

-----------------------------------------------------------------------------
(* Graphs that are no regions were made so.                                *)

RetypedInv ==
  /\ \A g \in Graphs : kind[g] = "other" => g \in retyped
  /\ \A r \in Requests :
       /\ pc[r] = "remove" => found[r] = "other"
       /\ pc[r] \in {"delete", "remove"} /\ found[r] = "other" => graph[r] \in retyped

LEMMA EndsRetyped ==
  ASSUME TypeOK, RetypedInv, NEW r \in Requests, Ends(r), retyped \subseteq retyped',
         \A g \in Graphs : kind'[g] \in {kind[g], "text", "deleted"} \/ g \in retyped'
  PROVE  RetypedInv'
<1>1. \A g \in Graphs : kind'[g] = "other" => g \in retyped'
  BY DEF RetypedInv
<1> QED BY <1>1, EndsRequest DEF RetypedInv

LEMMA NextRetyped == TypeOK /\ RetypedInv /\ [Next]_vars => RetypedInv'
<1> SUFFICES ASSUME TypeOK, RetypedInv, [Next]_vars PROVE RetypedInv'
  OBVIOUS
<1>1. CASE UNCHANGED vars
  BY <1>1 DEF RetypedInv, vars, tables, request, history
<1>2. ASSUME NEW r \in Requests, LinkStep(r) PROVE RetypedInv'
  <2>1. CASE \E t \in Texts : StartLink(r, t)
    BY <2>1 DEF TypeOK, RetypedInv, StartLink, ReadText, tables, history
  <2>2. CASE \E g \in Graphs : LinkNew(r, g)
    BY <2>2, EndsRetyped DEF LinkNew, WriteText, TypeOK
  <2>3. CASE \E g \in Graphs : FindRegion(r, g)
    BY <2>3 DEF TypeOK, RetypedInv, FindRegion, tables, history
  <2>4. CASE LinkExisting(r)
    BY <2>4, EndsRetyped DEF LinkExisting
  <2> QED BY <1>2, <2>1, <2>2, <2>3, <2>4 DEF LinkStep
<1>3. ASSUME NEW r \in Requests, StripStep(r) PROVE RetypedInv'
  <2>1. CASE \E g \in Graphs : StartUnlink(r, g)
    BY <2>1 DEF TypeOK, RetypedInv, StartUnlink, tables, history
  <2>2. CASE \E g \in Graphs : StartDelete(r, g)
    BY <2>2 DEF TypeOK, RetypedInv, StartDelete, tables, history
  <2>3. CASE Signal(r)
    BY <2>3 DEF TypeOK, RetypedInv, Signal, Existing, tables, history
  <2>4. CASE Strip(r)
    BY <2>4 DEF TypeOK, RetypedInv, Strip, tables, history
  <2>5. CASE UnlinkRegion(r)
    BY <2>5 DEF TypeOK, RetypedInv, UnlinkRegion, tables, history
  <2>6. CASE UnlinkNothing(r)
    BY <2>6, EndsRetyped DEF UnlinkNothing, history
  <2>7. CASE RemoveGraph(r)
    BY <2>7, EndsRetyped DEF RemoveGraph, TypeOK
  <2> QED BY <1>3, <2>1, <2>2, <2>3, <2>4, <2>5, <2>6, <2>7 DEF StripStep
<1>4. ASSUME NEW r \in Requests, OtherStep(r) PROVE RetypedInv'
  <2>1. CASE \E t \in Texts : StartEdit(r, t)
    BY <2>1 DEF TypeOK, RetypedInv, StartEdit, ReadText, tables, history
  <2>2. CASE \E t \in Texts, lines \in SUBSET Graphs : Import(r, t, lines)
    BY <2>2 DEF TypeOK, RetypedInv, Import, request, history
  <2>3. CASE \E g \in Graphs, k \in Existing : StartRetype(r, g, k)
    BY <2>3 DEF TypeOK, RetypedInv, StartRetype, tables, history
  <2>4. CASE Retype(r)
    BY <2>4, EndsRetyped DEF Retype, TypeOK, Existing
  <2>5. CASE SaveEdit(r)
    BY <2>5, EndsRetyped DEF SaveEdit, WriteText
  <2>6. CASE Fails(r)
    BY <2>6, EndsRetyped DEF Fails, tables, history
  <2> QED BY <1>4, <2>1, <2>2, <2>3, <2>4, <2>5, <2>6 DEF OtherStep
<1> QED BY <1>1, <1>2, <1>3, <1>4, Steps

LEMMA InitRetyped == Init => RetypedInv
BY DEF Init, RetypedInv

-----------------------------------------------------------------------------
(* What a request has written of a text, and what a text names, unless the *)
(* text is raced.                                                          *)

WrittenInv ==
  \A r \in Requests : \A t \in locked[r] \ raced : seen[r][t] = content[t] \ {graph[r]}

NamedInv == \A t \in present \ raced : \A g \in content[t] \ retyped : kind[g] = "text"

Inv == TypeOK /\ LockInv /\ RetypedInv /\ WrittenInv /\ NamedInv

\* A request that ends leaves alone what others have written.
LEMMA EndsWritten ==
  ASSUME TypeOK, LockInv, WrittenInv, NEW r \in Requests, Ends(r), raced \subseteq raced',
         \A q \in Requests \ {r} : \A t \in locked[q] : content'[t] = content[t]
  PROVE  WrittenInv'
BY EndsRequest DEF WrittenInv

\* A commit changes no row of another request.
LEMMA PublishesOwn ==
  ASSUME TypeOK, LockInv, NEW r \in Requests, Publish(r)
  PROVE  /\ \A q \in Requests \ {r} : \A t \in locked[q] : content'[t] = content[t]
         /\ \A t \in Texts : content'[t] = IF t \in locked[r] THEN seen[r][t] ELSE content[t]
BY DEF TypeOK, LockInv, Publish, View

LEMMA WritesOwn ==
  ASSUME TypeOK, NEW r \in Requests, NEW t \in Texts, NEW names, WriteText(r, t, names)
  PROVE  /\ \A q \in Requests \ {r} : \A u \in locked[q] : content'[u] = content[u]
         /\ raced \subseteq raced'
         /\ t \notin raced' => content[t] = seen[r][t]
         /\ content'[t] = names
         /\ \A u \in Texts \ {t} : content'[u] = content[u]
         /\ retyped' = retyped
BY DEF TypeOK, WriteText, Unlocked

LEMMA LinkKeepsInv == ASSUME Inv, NEW r \in Requests, LinkStep(r)
                      PROVE  WrittenInv' /\ NamedInv'
<1> USE DEF Inv
<1>1. CASE \E t \in Texts : StartLink(r, t)
  BY <1>1 DEF TypeOK, LockInv, Stripping, StripPhases, WrittenInv, NamedInv, StartLink, ReadText, tables, history
<1>2. CASE \E g \in Graphs : LinkNew(r, g)
  <2>1. PICK g \in Graphs : LinkNew(r, g)
    BY <1>2
  <2>2. text[r] \in Texts /\ WriteText(r, text[r], seen[r][text[r]] \cup {g})
    BY <2>1 DEF LinkNew, TypeOK
  <2>3. WrittenInv'
    BY <2>1, <2>2, WritesOwn, EndsWritten DEF LinkNew
  <2>4. \A h \in Graphs : kind'[h] = IF h = g THEN "text" ELSE kind[h]
    BY <2>1 DEF LinkNew, TypeOK
  <2>5. present' = present /\ retyped' = retyped
    BY <2>1, <2>2, WritesOwn DEF LinkNew
  <2>6. ASSUME NEW t \in present' \ raced', NEW h \in content'[t] \ retyped'
        PROVE  kind'[h] = "text"
    <3>1. t \in present \ raced /\ t \in Texts
      BY <2>2, <2>5, <2>6, WritesOwn DEF TypeOK
    <3>2. h \in content[t] \/ h = g
      BY <2>2, <2>6, <3>1, WritesOwn
    <3>3. h \in Graphs
      BY <2>1, <3>1, <3>2 DEF TypeOK
    <3> QED BY <3>1, <3>2, <3>3, <2>4, <2>5, <2>6 DEF NamedInv
  <2> QED BY <2>3, <2>6 DEF NamedInv
<1>3. CASE \E g \in Graphs : FindRegion(r, g)
  BY <1>3 DEF TypeOK, LockInv, Stripping, StripPhases, WrittenInv, NamedInv, FindRegion, tables, history
<1>4. CASE LinkExisting(r)
  <2>1. /\ Unlocked(r, text[r]) /\ Ends(r) /\ UNCHANGED <<present, kind, retyped>>
        /\ content' = [content EXCEPT ![text[r]] = seen[r][text[r]] \cup {graph[r]}]
        /\ raced \subseteq raced'
        /\ text[r] \notin raced' => content[text[r]] = seen[r][text[r]] /\ kind[graph[r]] = "text"
    BY <1>4 DEF LinkExisting
  <2>2. WrittenInv'
    BY <2>1, EndsWritten DEF Unlocked, TypeOK, LockInv
  <2> QED BY <2>1, <2>2 DEF NamedInv, TypeOK
<1> QED BY <1>1, <1>2, <1>3, <1>4 DEF LinkStep

LEMMA StripKeepsInv == ASSUME Inv, NEW r \in Requests, StripStep(r)
                       PROVE  WrittenInv' /\ NamedInv'
<1> USE DEF Inv
<1>1. CASE \E g \in Graphs : StartUnlink(r, g)
  BY <1>1 DEF TypeOK, LockInv, Stripping, StripPhases, WrittenInv, NamedInv, StartUnlink, tables, history
<1>2. CASE \E g \in Graphs : StartDelete(r, g)
  BY <1>2 DEF TypeOK, LockInv, Stripping, StripPhases, WrittenInv, NamedInv, StartDelete, tables, history
<1>3. CASE Signal(r)
  BY <1>3 DEF TypeOK, LockInv, Stripping, StripPhases, WrittenInv, NamedInv, Signal, tables, history
<1>4. CASE Strip(r)
  <2> DEFINE t == First(Naming(r))
  <2>1. t \in Naming(r) /\ t \in Texts
    BY <1>4, FirstNaming DEF Strip, Naming, TypeOK
  <2>2. t \notin locked[r]
    BY <2>1 DEF Naming, LockInv
  <2> HIDE DEF t
  <2>3. /\ seen' = [seen EXCEPT ![r][t] = @ \ {graph[r]}]
        /\ locked' = [locked EXCEPT ![r] = @ \cup {t}]
        /\ raced' = IF View(r)[t] = seen[r][t] THEN raced ELSE raced \cup {t}
        /\ UNCHANGED <<tables, graph, retyped>>
    BY <1>4 DEF Strip, t
  <2>4. raced \subseteq raced' /\ (t \notin raced' => content[t] = seen[r][t])
    BY <2>1, <2>2, <2>3 DEF View
  <2>5. seen'[r][t] = seen[r][t] \ {graph[r]} /\ \A u \in Texts \ {t} : seen'[r][u] = seen[r][u]
    BY <2>1, <2>3 DEF TypeOK
  <2>6. locked'[r] = locked[r] \cup {t}
    BY <2>3 DEF TypeOK
  <2>7. \A q \in Requests \ {r} : seen'[q] = seen[q] /\ locked'[q] = locked[q]
    BY <2>3 DEF TypeOK
  <2>8. WrittenInv'
    BY <2>3, <2>4, <2>5, <2>6, <2>7 DEF WrittenInv, TypeOK, tables
  <2>9. NamedInv'
    BY <2>3, <2>4 DEF NamedInv, tables
  <2> QED BY <2>8, <2>9
<1>5. CASE UnlinkRegion(r)
  BY <1>5 DEF TypeOK, LockInv, WrittenInv, NamedInv, UnlinkRegion, View, tables, history
<1>6. CASE UnlinkNothing(r)
  <2>1. Publish(r) /\ Ends(r) /\ UNCHANGED <<present, kind, raced, retyped>>
    BY <1>6 DEF UnlinkNothing, history
  <2>2. WrittenInv'
    BY <2>1, PublishesOwn, EndsWritten
  <2>3. \A t \in present \ raced : content'[t] \subseteq content[t]
    BY <2>1, PublishesOwn DEF WrittenInv, TypeOK
  <2> QED BY <2>1, <2>2, <2>3 DEF NamedInv
<1>7. CASE RemoveGraph(r)
  <2>1. /\ Publish(r) /\ Ends(r) /\ UNCHANGED <<present, retyped>>
        /\ kind' = [kind EXCEPT ![graph[r]] = IF @ \in Existing THEN "deleted" ELSE @]
        /\ raced' = raced \cup Missed(r)
        /\ pc[r] = "remove" \/ Naming(r) = {}
    BY <1>7 DEF RemoveGraph
  <2>2. WrittenInv'
    BY <2>1, PublishesOwn, EndsWritten
  <2>3. \A t \in present \ raced' : content'[t] \subseteq content[t] \ ({graph[r]} \ retyped)
    <3>1. TAKE t \in present \ raced'
    <3>2. t \in Texts /\ t \notin raced /\ t \notin Missed(r)
      BY <2>1 DEF TypeOK
    <3>3. CASE t \in locked[r]
      BY <2>1, <3>2, <3>3, PublishesOwn DEF WrittenInv
    <3>4. CASE t \notin locked[r] /\ Naming(r) = {}
      <4>1. content[t] = seen[r][t] /\ graph[r] \notin seen[r][t]
        BY <2>1, <3>2, <3>4 DEF Missed, Naming
      <4> QED BY <2>1, <3>2, <3>4, <4>1, PublishesOwn
    <3>5. CASE t \notin locked[r] /\ pc[r] = "remove"
      <4>1. graph[r] \in retyped
        BY <3>5 DEF RetypedInv
      <4> QED BY <2>1, <3>2, <3>5, <4>1, PublishesOwn
    <3> QED BY <2>1, <3>3, <3>4, <3>5
  <2>4. \A g \in Graphs \ {graph[r]} : kind'[g] = kind[g]
    BY <2>1 DEF TypeOK
  <2>5. \A t \in present \ raced' : content[t] \subseteq Graphs
    BY <2>1 DEF TypeOK
  <2> QED BY <2>1, <2>2, <2>3, <2>4, <2>5 DEF NamedInv
<1> QED BY <1>1, <1>2, <1>3, <1>4, <1>5, <1>6, <1>7 DEF StripStep

LEMMA OtherKeepsInv == ASSUME Inv, NEW r \in Requests, OtherStep(r)
                       PROVE  WrittenInv' /\ NamedInv'
<1> USE DEF Inv
<1>1. CASE \E t \in Texts : StartEdit(r, t)
  BY <1>1 DEF TypeOK, LockInv, Stripping, StripPhases, WrittenInv, NamedInv, StartEdit, ReadText, tables, history
<1>2. CASE \E t \in Texts, lines \in SUBSET Graphs : Import(r, t, lines)
  <2>1. PICK t \in Texts, lines \in SUBSET Graphs : Import(r, t, lines)
    BY <1>2
  <2>2. \A u \in present : content'[u] = content[u]
    BY <2>1 DEF Import, TypeOK
  <2>3. content'[t] = lines /\ present' = present \cup {t} /\ UNCHANGED <<request, raced, retyped>>
    BY <2>1 DEF Import, TypeOK, history
  <2>4. WrittenInv'
    BY <2>2, <2>3 DEF WrittenInv, LockInv, request
  <2>5. \A g \in Graphs : kind'[g] = IF g \in lines THEN "text" ELSE kind[g]
    BY <2>1 DEF Import
  <2>6. \A u \in present : content[u] \subseteq Graphs
    BY DEF TypeOK
  <2>7. NamedInv'
    BY <2>2, <2>3, <2>5, <2>6 DEF NamedInv
  <2> QED BY <2>4, <2>7
<1>3. CASE \E g \in Graphs, k \in Existing : StartRetype(r, g, k)
  BY <1>3 DEF TypeOK, LockInv, Stripping, StripPhases, WrittenInv, NamedInv, StartRetype, tables, history
<1>4. CASE Retype(r)
  <2>1. Ends(r) /\ UNCHANGED <<present, content, raced>>
    BY <1>4 DEF Retype
  <2>2. \A g \in Graphs \ retyped' : g \notin retyped /\ kind'[g] \in {kind[g], "text"}
    BY <1>4 DEF Retype, TypeOK, Existing
  <2>3. \A t \in present : content[t] \subseteq Graphs
    BY DEF TypeOK
  <2> QED BY <2>1, <2>2, <2>3, EndsWritten DEF NamedInv
<1>5. CASE SaveEdit(r)
  <2>1. WriteText(r, text[r], seen[r][text[r]]) /\ text[r] \in Texts
    BY <1>5 DEF SaveEdit, TypeOK
  <2>2. Ends(r) /\ UNCHANGED <<present, kind>>
    BY <1>5 DEF SaveEdit
  <2>3. WrittenInv'
    BY <2>1, <2>2, WritesOwn, EndsWritten
  <2>4. /\ raced \subseteq raced' /\ retyped' = retyped
        /\ \A t \in Texts \ raced' : content'[t] = content[t]
    BY <2>1, WritesOwn
  <2>5. NamedInv'
    BY <2>2, <2>4 DEF NamedInv, TypeOK
  <2> QED BY <2>3, <2>5
<1>6. CASE Fails(r)
  <2>1. Ends(r) /\ UNCHANGED <<tables, history>>
    BY <1>6 DEF Fails
  <2> QED BY <2>1, EndsWritten DEF NamedInv, tables, history
<1> QED BY <1>1, <1>2, <1>3, <1>4, <1>5, <1>6 DEF OtherStep

LEMMA InitInv == Init => Inv
<1>1. Init => WrittenInv /\ NamedInv
  BY DEF Init, WrittenInv, NamedInv
<1> QED BY <1>1, InitType, InitLocks, InitRetyped DEF Inv

LEMMA NextInv == Inv /\ [Next]_vars => Inv'
<1> SUFFICES ASSUME Inv, [Next]_vars PROVE WrittenInv' /\ NamedInv'
  BY NextType, NextLocks, NextRetyped DEF Inv
<1>1. CASE UNCHANGED vars
  BY <1>1 DEF Inv, WrittenInv, NamedInv, vars, tables, request, history
<1> QED BY <1>1, Steps, LinkKeepsInv, StripKeepsInv, OtherKeepsInv

\* Whatever the endpoints do and for any number of concurrent requests, a dangling
\* name is due to a stale read, or to a PATCH that made its graph no region.
THEOREM OnlyRacesDangle == Spec => []DanglesOnlyByRace
<1>1. Inv => DanglesOnlyByRace
  BY DEF Inv, NamedInv, DanglesOnlyByRace, Existing
<1>2. Inv /\ [Next]_vars => Inv'
  BY NextInv
<1> QED BY <1>1, <1>2, InitInv, PTL DEF Spec

-----------------------------------------------------------------------------
(* One request at a time: what it has read is what there is.               *)

FreshInv ==
  \A r \in Requests :
    /\ pc[r] \in {"link", "join", "edit"} => seen[r][text[r]] = content[text[r]]
    /\ pc[r] = "join" => kind[graph[r]] = "text"
    /\ Stripping(r) => \A t \in present \ locked[r] : seen[r][t] = content[t]

SoleInv ==
  /\ Inv /\ FreshInv /\ raced = {}
  /\ retyped = {} /\ \A r \in Requests : pc[r] # "retype"

LEMMA EndsFresh == ASSUME Sequential, TypeOK, NEW r \in Requests, Ends(r)
                   PROVE  FreshInv'
BY EndsRequest DEF Sequential, FreshInv, Stripping, StripPhases

LEMMA WritesFresh ==
  ASSUME SoleInv, NEW r \in Requests, pc[r] \in {"link", "edit"}, NEW names,
         WriteText(r, text[r], names)
  PROVE  raced' = {} /\ retyped' = {}
BY DEF SoleInv, FreshInv, WriteText

\* A step of another kind than a PATCH.
LEMMA NextUntyped == NoRetype /\ SoleInv /\ [Next]_vars =>
                       retyped' = {} /\ \A r \in Requests : pc'[r] # "retype"
<1> SUFFICES ASSUME NoRetype, SoleInv, [Next]_vars
             PROVE  retyped' = {} /\ \A q \in Requests : pc'[q] # "retype"
  OBVIOUS
<1> USE DEF SoleInv, Inv, TypeOK
<1>1. CASE UNCHANGED vars
  BY <1>1 DEF vars, request, history
<1>2. ASSUME NEW r \in Requests, Ends(r), retyped' = retyped
      PROVE  retyped' = {} /\ \A q \in Requests : pc'[q] # "retype"
  BY <1>2 DEF Ends
<1>3. ASSUME NEW r \in Requests, LinkStep(r)
      PROVE  retyped' = {} /\ \A q \in Requests : pc'[q] # "retype"
  BY <1>2, <1>3 DEF LinkStep, StartLink, ReadText, LinkNew, WriteText, FindRegion, LinkExisting,
                    history
<1>4. ASSUME NEW r \in Requests, StripStep(r)
      PROVE  retyped' = {} /\ \A q \in Requests : pc'[q] # "retype"
  BY <1>2, <1>4 DEF StripStep, StartUnlink, StartDelete, Signal, Strip, UnlinkRegion,
                    UnlinkNothing, RemoveGraph, history
<1>5. ASSUME NEW r \in Requests, OtherStep(r)
      PROVE  retyped' = {} /\ \A q \in Requests : pc'[q] # "retype"
  BY <1>2, <1>5 DEF OtherStep, StartEdit, ReadText, Import, NoRetype, StartRetype, Retype,
                    SaveEdit, WriteText, Fails, request, history
<1> QED BY <1>1, <1>3, <1>4, <1>5, Steps

LEMMA NextSole == Sequential /\ NoRetype /\ SoleInv /\ [Next]_vars => SoleInv'
<1> SUFFICES ASSUME Sequential, NoRetype, SoleInv, [Next]_vars PROVE FreshInv' /\ raced' = {}
  BY NextInv, NextUntyped DEF SoleInv
<1> USE DEF SoleInv, Inv
<1>1. CASE UNCHANGED vars
  BY <1>1 DEF FreshInv, Stripping, StripPhases, vars, tables, request, history
<1>2. ASSUME NEW r \in Requests, LinkStep(r) PROVE FreshInv' /\ raced' = {}
  <2>1. CASE \E t \in Texts : StartLink(r, t)
    BY <2>1 DEF Sequential, TypeOK, FreshInv, Stripping, StripPhases, StartLink, ReadText, tables, history
  <2>2. CASE \E g \in Graphs : LinkNew(r, g)
    BY <2>2, EndsFresh, WritesFresh DEF LinkNew
  <2>3. CASE \E g \in Graphs : FindRegion(r, g)
    BY <2>3 DEF Sequential, TypeOK, FreshInv, Stripping, StripPhases, FindRegion, tables, history
  <2>4. CASE LinkExisting(r)
    BY <2>4, EndsFresh DEF LinkExisting, FreshInv
  <2> QED BY <1>2, <2>1, <2>2, <2>3, <2>4 DEF LinkStep
<1>3. ASSUME NEW r \in Requests, StripStep(r) PROVE FreshInv' /\ raced' = {}
  <2>1. CASE \E g \in Graphs : StartUnlink(r, g)
    BY <2>1 DEF Sequential, TypeOK, FreshInv, Stripping, StripPhases, StartUnlink, tables, history
  <2>2. CASE \E g \in Graphs : StartDelete(r, g)
    BY <2>2 DEF Sequential, TypeOK, FreshInv, Stripping, StripPhases, StartDelete, tables, history
  <2>3. CASE Signal(r)
    BY <2>3 DEF Sequential, TypeOK, FreshInv, Stripping, StripPhases, Signal, tables, history
  <2>4. CASE Strip(r)
    <3> DEFINE t == First(Naming(r))
    <3>1. t \in Naming(r) /\ t \in Texts /\ t \in present
      BY <2>4, FirstNaming DEF Strip, Naming, TypeOK
    <3>2. t \notin locked[r]
      BY <3>1 DEF Naming, LockInv
    <3> HIDE DEF t
    <3>3. /\ Stripping(r)
          /\ seen' = [seen EXCEPT ![r][t] = @ \ {graph[r]}]
          /\ locked' = [locked EXCEPT ![r] = @ \cup {t}]
          /\ raced' = IF View(r)[t] = seen[r][t] THEN raced ELSE raced \cup {t}
          /\ UNCHANGED <<tables, pc, text, graph>>
      BY <2>4 DEF Strip, t, Stripping, StripPhases
    <3>4. raced' = {}
      BY <3>1, <3>2, <3>3 DEF View, FreshInv
    <3>5. FreshInv'
      BY <3>1, <3>3 DEF Sequential, TypeOK, FreshInv, Stripping, StripPhases, tables
    <3> QED BY <3>4, <3>5
  <2>5. CASE UnlinkRegion(r)
    BY <2>5 DEF Sequential, TypeOK, FreshInv, Stripping, StripPhases, UnlinkRegion, View, tables, history
  <2>6. CASE UnlinkNothing(r)
    BY <2>6, EndsFresh DEF UnlinkNothing, history
  <2>7. CASE RemoveGraph(r)
    BY <2>7, EndsFresh DEF RemoveGraph, Missed, FreshInv, RetypedInv, Stripping, StripPhases
  <2> QED BY <1>3, <2>1, <2>2, <2>3, <2>4, <2>5, <2>6, <2>7 DEF StripStep
<1>4. ASSUME NEW r \in Requests, OtherStep(r) PROVE FreshInv' /\ raced' = {}
  <2>1. CASE \E t \in Texts : StartEdit(r, t)
    BY <2>1 DEF Sequential, TypeOK, FreshInv, Stripping, StripPhases, StartEdit, ReadText, tables, history
  <2>2. CASE \E t \in Texts, lines \in SUBSET Graphs : Import(r, t, lines)
    BY <2>2 DEF Sequential, TypeOK, FreshInv, Stripping, StripPhases, Import, request, history
  <2>3. CASE \E g \in Graphs, k \in Existing : StartRetype(r, g, k)
    BY <2>3 DEF NoRetype, StartRetype
  <2>4. CASE Retype(r)
    BY <2>4 DEF Retype
  <2>5. CASE SaveEdit(r)
    BY <2>5, EndsFresh, WritesFresh DEF SaveEdit
  <2>6. CASE Fails(r)
    BY <2>6, EndsFresh DEF Fails, history
  <2> QED BY <1>4, <2>1, <2>2, <2>3, <2>4, <2>5, <2>6 DEF OtherStep
<1> QED BY <1>1, <1>2, <1>3, <1>4, Steps

LEMMA InitSole == Init => SoleInv
<1>1. Init => FreshInv /\ raced = {} /\ retyped = {} /\ \A r \in Requests : pc[r] # "retype"
  BY DEF Init, FreshInv, Stripping, StripPhases
<1> QED BY <1>1, InitInv DEF SoleInv

\* One request at a time, and no change of an annotation_type: no text names a
\* graph that is gone, for any number of texts and graphs.
THEOREM LinksAreReal == Sequential /\ NoRetype /\ Spec => []NoDangling
<1> SUFFICES ASSUME Sequential, NoRetype PROVE Spec => []NoDangling
  OBVIOUS
<1>1. SoleInv => NoDangling
  BY DEF SoleInv, Inv, NamedInv, NoDangling, Existing
<1>2. SoleInv /\ [Next]_vars => SoleInv'
  BY NextSole
<1> QED BY <1>1, <1>2, InitSole, PTL DEF Spec

-----------------------------------------------------------------------------
(* No name is lost but by a stale read.                                    *)

\* What NamesKept says of one step.
Kept == \A t \in present \ raced' : \A g \in (content[t] \ content'[t]) \ retyped :
          kind'[g] = "deleted"

LEMMA NextKept == Inv /\ [Next]_vars => Kept
<1> SUFFICES ASSUME Inv, [Next]_vars PROVE Kept
  OBVIOUS
<1> USE DEF Inv
<1>1. CASE \A t \in present \ raced' : content[t] \subseteq content'[t]
  BY <1>1 DEF Kept
<1>0. ASSUME NEW r \in Requests, NEW names, WriteText(r, text[r], names),
             seen[r][text[r]] \subseteq names
      PROVE  Kept
  <2>1. text[r] \in Texts /\ present \subseteq Texts
    BY DEF TypeOK
  <2> QED BY <1>0, <1>1, <2>1, WritesOwn
<1>2. ASSUME NEW r \in Requests, LinkStep(r) PROVE Kept
  <2>1. CASE LinkExisting(r)
    BY <2>1, <1>1 DEF LinkExisting, TypeOK
  <2>2. CASE \E g \in Graphs : LinkNew(r, g)
    BY <2>2, <1>0 DEF LinkNew
  <2> QED BY <1>2, <2>1, <2>2, <1>1 DEF LinkStep, StartLink, ReadText, FindRegion, tables, history
<1>3. ASSUME NEW r \in Requests, StripStep(r) PROVE Kept
  <2>1. ASSUME Publish(r), raced \subseteq raced', NEW t \in present \ raced',
               NEW g \in (content[t] \ content'[t]) \ retyped
        PROVE  g = graph[r] /\ g \in Graphs /\ kind[g] = "text"
    <3>1. t \in Texts /\ g \in Graphs /\ t \notin raced
      BY <2>1 DEF TypeOK
    <3> QED BY <2>1, <3>1, PublishesOwn DEF WrittenInv, NamedInv
  <2>2. CASE UnlinkNothing(r)
    BY <2>2, <2>1 DEF UnlinkNothing, Kept, history
  <2>3. CASE RemoveGraph(r)
    BY <2>3, <2>1 DEF RemoveGraph, Kept, TypeOK, Existing
  <2> QED BY <1>3, <2>2, <2>3, <1>1
          DEF StripStep, StartUnlink, StartDelete, Signal, Strip, UnlinkRegion, tables
<1>4. ASSUME NEW r \in Requests, OtherStep(r) PROVE Kept
  <2>1. CASE SaveEdit(r)
    BY <2>1, <1>0 DEF SaveEdit
  <2>2. CASE \E t \in Texts, lines \in SUBSET Graphs : Import(r, t, lines)
    BY <2>2, <1>1 DEF Import, TypeOK
  <2> QED BY <1>4, <2>1, <2>2, <1>1
          DEF OtherStep, StartEdit, ReadText, StartRetype, Retype, Fails, tables
<1>5. CASE UNCHANGED vars
  BY <1>5, <1>1 DEF vars, tables
<1> QED BY <1>2, <1>3, <1>4, <1>5, Steps

\* All endpoints, any number of concurrent requests: a text whose writers all read it
\* up to date loses the name of a region only when that region is deleted.
THEOREM LinksAreKept == Spec => NamesKept
<1>1. Inv /\ [Next]_vars => Inv'
  BY NextInv
<1>2. Inv /\ [Next]_vars => [Kept]_vars
  BY NextKept
<1>3. Spec => [][Kept]_vars
  BY <1>1, <1>2, InitInv, PTL DEF Spec
<1> QED BY <1>3 DEF NamesKept, Kept

-----------------------------------------------------------------------------
(* Deletions lock the texts of an image in their order.                    *)

\* A text that does not exist, or did not when it was read, names nothing, and
\* what a first pass has still to strip comes after what it has stripped.
OrderInv ==
  /\ \A t \in Texts \ present : content[t] = {}
  /\ \A r \in Requests :
       /\ \A t \in Texts \ present : seen[r][t] = {}
       /\ pc[r] # "again" => \A t \in locked[r] : \A u \in Naming(r) : t < u

OrderTypeInv == TypeOK /\ LockInv /\ OrderInv

LEMMA EndsOrder ==
  ASSUME OrderTypeInv, NEW r \in Requests, Ends(r), present' = present,
         \A t \in Texts \ present : content'[t] = {}
  PROVE  OrderInv'
<1>1. seen'[r] = [t \in Texts |-> {}]
  BY DEF OrderTypeInv, TypeOK, Ends
<1> QED BY <1>1, EndsRequest DEF OrderTypeInv, OrderInv, Naming

\* A request that starts holds no rows.
LEMMA StartsOrder ==
  ASSUME OrderTypeInv, NEW r \in Requests, pc[r] = "idle",
         UNCHANGED <<present, content, locked>>,
         \A t \in Texts \ present : seen'[r][t] = {},
         \A q \in Requests \ {r} : pc'[q] = pc[q] /\ graph'[q] = graph[q] /\ seen'[q] = seen[q]
  PROVE  OrderInv'
<1>1. locked[r] = {}
  BY DEF OrderTypeInv, LockInv, Stripping, StripPhases
<1>2. \A q \in Requests \ {r} : Naming(q)' = Naming(q)
  BY DEF Naming
<1> QED BY <1>1, <1>2 DEF OrderTypeInv, OrderInv

LEMMA ReadOrder ==
  ASSUME OrderTypeInv, NEW r \in Requests, NEW t \in Texts, NEW step,
         ReadText(r, t, step)
  PROVE  OrderInv'
<1>1. \A u \in Texts \ present : seen'[r][u] = seen[r][u]
  BY DEF ReadText, OrderTypeInv, TypeOK
<1>2. \A u \in Texts \ present : seen'[r][u] = {}
  BY <1>1 DEF OrderTypeInv, OrderInv
<1>3. /\ pc[r] = "idle"
      /\ \A q \in Requests \ {r} : pc'[q] = pc[q] /\ graph'[q] = graph[q] /\ seen'[q] = seen[q]
  BY DEF ReadText, OrderTypeInv, TypeOK
<1> QED BY <1>2, <1>3, StartsOrder DEF ReadText, tables

LEMMA ContentOrder ==
  ASSUME OrderTypeInv, TargetInv, NEW r \in Requests,
         \/ pc[r] \in {"link", "edit"} /\ \E names : WriteText(r, text[r], names)
         \/ Publish(r)
  PROVE  \A t \in Texts \ present : content'[t] = {}
<1>1. ASSUME NEW t \in Texts \ present, Publish(r) PROVE content'[t] = {}
  <2>1. t \notin locked[r]
    BY DEF OrderTypeInv, LockInv
  <2> QED BY <1>1, <2>1 DEF Publish, View, OrderTypeInv, OrderInv
<1>2. ASSUME NEW t \in Texts \ present, pc[r] \in {"link", "edit"},
             NEW names, WriteText(r, text[r], names)
      PROVE  content'[t] = {}
  <2>1. t # text[r]
    BY <1>2 DEF TargetInv
  <2> QED BY <1>2, <2>1 DEF WriteText, OrderTypeInv, TypeOK, OrderInv
<1> QED BY <1>1, <1>2

LEMMA NextOrder == OrderTypeInv /\ TargetInv /\ [Next]_vars => OrderInv'
<1> SUFFICES ASSUME OrderTypeInv, TargetInv, [Next]_vars PROVE OrderInv'
  OBVIOUS
<1> USE DEF OrderTypeInv
<1>0. Texts \subseteq Nat
  BY TextsAssumption DEF Texts
<1>1. CASE UNCHANGED vars
  BY <1>1 DEF OrderInv, Naming, vars, tables, request, history
<1>2. ASSUME NEW r \in Requests, LinkStep(r) PROVE OrderInv'
  <2>1. CASE \E t \in Texts : StartLink(r, t)
    BY <2>1, ReadOrder DEF StartLink
  <2>2. CASE \E g \in Graphs : LinkNew(r, g)
    BY <2>2, EndsOrder, ContentOrder DEF LinkNew
  <2>3. CASE \E g \in Graphs : FindRegion(r, g)
    BY <2>3 DEF TypeOK, LockInv, Stripping, StripPhases, OrderInv, Naming, FindRegion, tables, history
  <2>4. CASE LinkExisting(r)
    <3>1. \A t \in Texts \ present : content'[t] = {}
      BY <2>4 DEF LinkExisting, TargetInv, OrderInv, TypeOK
    <3> QED BY <2>4, <3>1, EndsOrder DEF LinkExisting
  <2> QED BY <1>2, <2>1, <2>2, <2>3, <2>4 DEF LinkStep
<1>3. ASSUME NEW r \in Requests, StripStep(r) PROVE OrderInv'
  <2>1. CASE \E g \in Graphs : StartUnlink(r, g)
    BY <2>1, StartsOrder DEF TypeOK, OrderInv, StartUnlink, tables
  <2>2. CASE \E g \in Graphs : StartDelete(r, g)
    <3>1. /\ pc[r] = "idle" /\ UNCHANGED <<tables, locked, seen>>
          /\ \A q \in Requests \ {r} : pc'[q] = pc[q] /\ graph'[q] = graph[q] /\ seen'[q] = seen[q]
      BY <2>2 DEF StartDelete, TypeOK
    <3>2. \A t \in Texts \ present : seen'[r][t] = {}
      BY <3>1 DEF OrderInv
    <3> QED BY <3>1, <3>2, StartsOrder DEF tables
  <2>3. CASE Signal(r)
    <3>1. locked[r] = {}
      BY <2>3 DEF Signal, LockInv, Stripping, StripPhases
    <3>2. /\ UNCHANGED <<tables, graph, locked>> /\ seen' = [seen EXCEPT ![r] = content]
          /\ \A q \in Requests \ {r} : pc'[q] = pc[q]
      BY <2>3 DEF Signal, TypeOK
    <3>3. \A q \in Requests \ {r} : Naming(q)' = Naming(q) /\ locked'[q] = locked[q]
      BY <3>2 DEF Naming, TypeOK, tables
    <3>4. \A q \in Requests : pc'[q] # "again" => \A u \in locked'[q] : \A v \in Naming(q)' : u < v
      BY <3>1, <3>2, <3>3 DEF OrderInv
    <3>5. \A q \in Requests : \A u \in Texts \ present : seen'[q][u] = {}
      BY <3>2 DEF OrderInv, TypeOK
    <3> QED BY <3>2, <3>4, <3>5 DEF OrderInv, tables
  <2>4. CASE Strip(r)
    <3> DEFINE t == First(Naming(r))
    <3>1. t \in Naming(r) /\ t \in Texts /\ t \in present /\ \A u \in Naming(r) : t <= u
      BY <2>4, FirstNaming DEF Strip, Naming, TypeOK
    <3> HIDE DEF t
    <3>2. /\ seen' = [seen EXCEPT ![r][t] = @ \ {graph[r]}]
          /\ locked' = [locked EXCEPT ![r] = @ \cup {t}]
          /\ UNCHANGED <<tables, pc, graph>>
      BY <2>4 DEF Strip, t
    <3>3. \A q \in Requests \ {r} : Naming(q)' = Naming(q) /\ locked'[q] = locked[q]
      BY <3>2 DEF Naming, TypeOK, tables
    <3>4. Naming(r)' = Naming(r) \ {t} /\ locked'[r] = locked[r] \cup {t}
      BY <3>1, <3>2 DEF Naming, TypeOK, tables
    <3>5. \A u \in Naming(r) \ {t} : t < u
      BY <3>1, <1>0 DEF Naming, TypeOK
    <3>6. \A q \in Requests : pc'[q] # "again" => \A u \in locked'[q] : \A v \in Naming(q)' : u < v
      BY <3>2, <3>3, <3>4, <3>5 DEF OrderInv
    <3>7. \A q \in Requests : \A u \in Texts \ present : seen'[q][u] = {}
      BY <3>1, <3>2 DEF OrderInv, TypeOK
    <3> QED BY <3>2, <3>6, <3>7 DEF OrderInv, tables
  <2>5. CASE UnlinkRegion(r)
    <3>1. /\ UNCHANGED <<tables, graph, locked>>
          /\ pc' = [pc EXCEPT ![r] = "again"] /\ seen' = [seen EXCEPT ![r] = View(r)]
      BY <2>5 DEF UnlinkRegion
    <3>2. \A t \in Texts \ present : View(r)[t] = {}
      BY DEF View, OrderInv, LockInv
    <3>3. \A q \in Requests \ {r} : Naming(q)' = Naming(q) /\ pc'[q] = pc[q] /\ seen'[q] = seen[q]
      BY <3>1 DEF Naming, TypeOK, tables
    <3>4. pc'[r] = "again" /\ seen'[r] = View(r)
      BY <3>1 DEF TypeOK
    <3> QED BY <3>1, <3>2, <3>3, <3>4 DEF OrderInv, tables
  <2>6. CASE UnlinkNothing(r)
    BY <2>6, EndsOrder, ContentOrder DEF UnlinkNothing
  <2>7. CASE RemoveGraph(r)
    BY <2>7, EndsOrder, ContentOrder DEF RemoveGraph
  <2> QED BY <1>3, <2>1, <2>2, <2>3, <2>4, <2>5, <2>6, <2>7 DEF StripStep
<1>4. ASSUME NEW r \in Requests, OtherStep(r) PROVE OrderInv'
  <2>1. CASE \E t \in Texts : StartEdit(r, t)
    BY <2>1, ReadOrder DEF StartEdit
  <2>2. CASE \E t \in Texts, lines \in SUBSET Graphs : Import(r, t, lines)
    <3>1. PICK t \in Texts, lines \in SUBSET Graphs : Import(r, t, lines)
      BY <2>2
    <3>2. /\ t \notin present /\ present' = present \cup {t}
          /\ UNCHANGED <<pc, graph, seen, locked>>
          /\ \A u \in Texts \ {t} : content'[u] = content[u]
      BY <3>1 DEF Import, request, TypeOK
    <3>3. \A q \in Requests : Naming(q)' = Naming(q)
      BY <3>2 DEF Naming, OrderInv
    <3> QED BY <3>2, <3>3 DEF OrderInv
  <2>3. CASE \E g \in Graphs, k \in Existing : StartRetype(r, g, k)
    <3>1. /\ pc[r] = "idle" /\ UNCHANGED <<tables, locked, seen>>
          /\ \A q \in Requests \ {r} : pc'[q] = pc[q] /\ graph'[q] = graph[q] /\ seen'[q] = seen[q]
      BY <2>3 DEF StartRetype, TypeOK
    <3>2. \A t \in Texts \ present : seen'[r][t] = {}
      BY <3>1 DEF OrderInv
    <3> QED BY <3>1, <3>2, StartsOrder DEF tables
  <2>4. CASE Retype(r)
    BY <2>4, EndsOrder DEF Retype, OrderInv
  <2>5. CASE SaveEdit(r)
    BY <2>5, EndsOrder, ContentOrder DEF SaveEdit
  <2>6. CASE Fails(r)
    BY <2>6, EndsOrder DEF Fails, tables, OrderInv
  <2> QED BY <1>4, <2>1, <2>2, <2>3, <2>4, <2>5, <2>6 DEF OtherStep
<1> QED BY <1>1, <1>2, <1>3, <1>4, Steps

LEMMA OrderedNeverCircle == OrderTypeInv => NoCircle
<1> SUFFICES ASSUME OrderTypeInv, NEW r \in Requests, NEW q \in Requests,
                    Waits(r, q), Waits(q, r)
             PROVE  FALSE
  BY DEF NoCircle
<1> DEFINE a == First(Naming(r))
           b == First(Naming(q))
<1>1. a \in Naming(r) /\ b \in Naming(q)
  BY FirstNaming DEF OrderTypeInv, Waits
<1>2. a \in locked[q] /\ b \in locked[r]
  BY DEF Waits
<1> HIDE DEF a, b
<1>3. a \in Nat /\ b \in Nat
  BY <1>1, TextsAssumption DEF Naming, OrderTypeInv, TypeOK, Texts
<1>4. pc[r] # "again" /\ pc[q] # "again"
  BY DEF Waits
<1>5. a < b /\ b < a
  BY <1>1, <1>2, <1>4 DEF OrderTypeInv, OrderInv
<1> QED BY <1>3, <1>5

\* Deletions and first passes of unlinks wait for each other's rows in no circle:
\* each locks the texts in their order.
THEOREM DeletionsNeverBlock == Spec => []NoCircle
<1>1. Init => OrderTypeInv /\ TargetInv
  BY InitType, InitLocks DEF Init, OrderTypeInv, OrderInv
<1>2. OrderTypeInv /\ TargetInv /\ [Next]_vars => (OrderTypeInv /\ TargetInv)'
  BY NextType, NextLocks, NextOrder, NextTargets DEF OrderTypeInv
<1> QED BY <1>1, <1>2, OrderedNeverCircle, PTL DEF Spec
=============================================================================
