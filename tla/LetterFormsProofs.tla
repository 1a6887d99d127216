-------------------------- MODULE LetterFormsProofs --------------------------
(***************************************************************************)
(* Proved for every set of components, features, graphs, editors and       *)
(* descriptions, and any number of saves: first that a graph is described  *)
(* by what the last request asked for, then StructureSaved, LettersStand   *)
(* and DefaultsKept of a character's structure.                            *)
(***************************************************************************)
EXTENDS LetterForms, TLAPS, SequenceTheorems, FiniteSetTheorems, FunctionTheorems,
        WellFoundedInduction

Letters == UNION {Range(d) : d \in Descriptions}
Phases == {"row", "clear", "add"}

\* A request that writes a graph that has been there.
Works(e, g) == request[e].todo \in Phases /\ request[e].graph = g

IsEndOf(s, t) ==
  /\ s \in Seq(Letters) /\ t \in Seq(Letters) /\ Len(s) <= Len(t)
  /\ \A i \in 1 .. Len(s) : s[i] = t[Len(t) - Len(s) + i]

-----------------------------------------------------------------------------
TableInv ==
  /\ DOMAIN parts = DOMAIN graphs /\ DOMAIN graphs \subseteq DOMAIN told
  /\ None \notin DOMAIN told

Sound(r, known) ==
  /\ DOMAIN r = DOMAIN NoRequest /\ r = [field \in DOMAIN r |-> r[field]]
  /\ r.todo \in Phases \cup {"none", "create"}
  /\ r.todo # "none" => IsEndOf(r.parts, r.asked)
  /\ r.todo \in {"create", "row", "clear"} => r.parts = r.asked
  /\ r.todo = "create" => r.alone /\ r.graph = None
  /\ r.todo \in Phases => r.graph \in known

RequestInv ==
  /\ request = [e \in Editors |-> request[e]]
  /\ \A e \in Editors : Sound(request[e], DOMAIN told)

\* Who is told to be alone is alone.
AloneInv ==
  \A e, f \in Editors :
    request[e].alone /\ Works(e, request[e].graph) /\ Works(f, request[e].graph) => f = e

TornInv ==
  \A e \in Editors : \A g :
    Works(e, g) /\ (~request[e].alone \/ g \notin DOMAIN graphs) => g \in torn

\* Nothing is written before the row.
ToldInv ==
  \A g \in DOMAIN graphs \ torn :
    (\A e \in Editors : Works(e, g) => request[e].todo = "row") => parts[g] = told[g]

\* The first n components that were asked for, as far as they still exist.
Described(f, asked, n, known) ==
  /\ f = [c \in DOMAIN f |-> f[c]]
  /\ DOMAIN f = {asked[i].component : i \in 1 .. n} \cap known
  /\ \A i \in 1 .. n : asked[i].component \in known => f[asked[i].component] = asked[i].features

AddInv ==
  \A e \in Editors :
    LET r == request[e]
    IN r.todo = "add" /\ r.alone /\ r.graph \in DOMAIN graphs =>
         Described(parts[r.graph], r.asked, Len(r.asked) - Len(r.parts), DOMAIN catalogue)

Inv == TableInv /\ RequestInv /\ AloneInv /\ TornInv /\ ToldInv /\ AddInv

-----------------------------------------------------------------------------
LEMMA EmptyFunction ==
  /\ DOMAIN <<>> = {}
  /\ <<>> = [c \in DOMAIN <<>> |-> <<>>[c]]
OBVIOUS

LEMMA InitInv == FormsInit => Inv
<1> SUFFICES ASSUME FormsInit PROVE Inv
  OBVIOUS
<1>2. DOMAIN graphs = {CHOOSE g \in Glyphs : TRUE}
  <2>1. graphs = LET first == CHOOSE g \in Glyphs : TRUE
                 IN [g \in {first} |-> [type |-> "image", allograph |-> 1, hand |-> 7]]
    BY Zenon DEF FormsInit
  <2>2. QED
    BY <2>1
<1>3. \A e \in Editors : request[e] = NoRequest
  BY DEF FormsInit
<1>4. TableInv
  <2>1. DOMAIN parts = DOMAIN graphs /\ DOMAIN told = DOMAIN graphs
    BY DEF FormsInit
  <2>2. (CHOOSE g \in Glyphs : TRUE) \in Glyphs
    BY GlyphsAssumption
  <2>3. QED
    BY <1>2, <2>1, <2>2, GlyphsAssumption DEF TableInv
<1>5. RequestInv
  BY <1>3 DEF FormsInit, RequestInv, Sound, NoRequest, Phases
<1>6. \A e \in Editors : request[e].todo = "none"
  BY <1>3 DEF NoRequest
<1>7. \A e \in Editors : \A g : ~Works(e, g)
  BY <1>6 DEF Works, Phases
<1>8. AloneInv /\ TornInv
  BY <1>7 DEF AloneInv, TornInv
<1>9. AddInv
  BY <1>6 DEF AddInv
<1>10. ToldInv
  BY DEF FormsInit, ToldInv
<1>11. QED
  BY <1>4, <1>5, <1>8, <1>9, <1>10 DEF Inv

-----------------------------------------------------------------------------
(* What all steps of one request share                                      *)

LEMMA Set ==
  ASSUME RequestInv, NEW e \in Editors, NEW r, request' = [request EXCEPT ![e] = r]
  PROVE  /\ request' = [f \in Editors |-> request'[f]]
         /\ request'[e] = r
         /\ \A f \in Editors \ {e} : request'[f] = request[f]
BY DEF RequestInv

LEMMA WorksIsKnown ==
  ASSUME RequestInv, NEW e \in Editors, NEW g, Works(e, g)
  PROVE  g \in DOMAIN told
BY DEF RequestInv, Sound, Works

LEMMA EndOfItself == \A d \in Descriptions \cup {<<>>} : IsEndOf(d, d)
<1> SUFFICES ASSUME NEW d \in Descriptions \cup {<<>>} PROVE IsEndOf(d, d)
  OBVIOUS
<1>1. d \in Seq(Letters)
  <2>1. CASE d = <<>>
    BY <2>1
  <2>2. CASE d \in Descriptions
    <3>1. d \in Seq(Range(d)) /\ Range(d) \subseteq Letters
      BY <2>2, DescriptionsAssumption DEF Letters
    <3>2. QED
      BY <3>1
  <2>3. QED
    BY <2>1, <2>2
<1>2. Len(d) \in Nat /\ \A i \in 1 .. Len(d) : Len(d) - Len(d) + i = i
  BY <1>1
<1>3. QED
  BY <1>1, <1>2 DEF IsEndOf

\* A request that ends takes no part any more.
LEMMA NoneIsSound == \A known : Sound(NoRequest, known)
BY DEF Sound, NoRequest, Phases

LEMMA Broke ==
  ASSUME Inv, NEW e \in Editors, request[e].todo # "none", Broken(e),
         UNCHANGED catalogue
  PROVE  Inv'
<1> USE DEF Inv
<1>1. /\ request' = [f \in Editors |-> request'[f]]
      /\ request'[e] = NoRequest
      /\ \A f \in Editors \ {e} : request'[f] = request[f]
  BY Set DEF Broken
<1>2. UNCHANGED <<graphs, parts, told>> /\ torn \subseteq torn'
  BY DEF Broken
<1>3. \A f \in Editors : \A g : Works(f, g)' => f # e /\ Works(f, g)
  BY <1>1 DEF Works, NoRequest, Phases
<1>4. TableInv'
  BY <1>2 DEF TableInv
<1>5. RequestInv'
  BY <1>1, <1>2, NoneIsSound DEF RequestInv
<1>6. AloneInv'
  BY <1>1, <1>3 DEF AloneInv, Works
<1>7. TornInv'
  BY <1>1, <1>2, <1>3 DEF TornInv
<1>8. ToldInv'
  <2> SUFFICES ASSUME NEW g \in DOMAIN graphs, g \notin torn',
                      \A f \in Editors : Works(f, g)' => request'[f].todo = "row"
               PROVE  parts[g] = told[g]
    BY <1>2 DEF ToldInv
  <2>1. g # None
    BY DEF TableInv
  <2>2. ~Works(e, g)
    BY <2>1 DEF Broken, Works
  <2>3. \A f \in Editors : Works(f, g) => request[f].todo = "row"
    BY <1>1, <2>2 DEF Works
  <2>4. QED
    BY <1>2, <2>3 DEF ToldInv
<1>9. AddInv'
  <2> SUFFICES ASSUME NEW o \in Editors, request'[o].todo = "add", request'[o].alone,
                      request'[o].graph \in DOMAIN graphs
               PROVE  Described(parts[request'[o].graph], request'[o].asked,
                        Len(request'[o].asked) - Len(request'[o].parts), DOMAIN catalogue)
    BY <1>2 DEF AddInv
  <2>1. request'[o] = request[o]
    BY <1>1 DEF NoRequest
  <2>2. QED
    BY <2>1 DEF AddInv
<1>10. QED
  BY <1>4, <1>5, <1>6, <1>7, <1>8, <1>9

-----------------------------------------------------------------------------
(* A request begins                                                         *)

LEMMA StartPatchStep ==
  ASSUME Inv, NEW e \in Editors, StartPatch(e)
  PROVE  Inv'
<1> USE DEF Inv
<1>1. PICK g \in DOMAIN graphs, payload \in Payloads, keeps \in BOOLEAN, d \in Descriptions :
         LET row == payload @@ graphs[g]
             others == Busy(g)
         IN /\ Complete(row) /\ (keeps => d = <<>>)
            /\ request' = [o \in Editors |->
                 IF o = e THEN [todo |-> "row", graph |-> g, row |-> row, keeps |-> keeps,
                                parts |-> d, asked |-> d, alone |-> others = {}]
                 ELSE IF o \in others THEN [request[o] EXCEPT !.alone = FALSE]
                 ELSE request[o]]
            /\ torn' = IF others = {} THEN torn ELSE torn \cup {g}
  BY Zenon DEF StartPatch
<1>2. UNCHANGED <<catalogue, graphs, parts, told>> /\ request[e].todo = "none"
  BY DEF StartPatch, structureVars
<1>0. PICK row, alone :
        /\ alone = (Busy(g) = {})
        /\ request' = [o \in Editors |->
             IF o = e THEN [todo |-> "row", graph |-> g, row |-> row, keeps |-> keeps,
                            parts |-> d, asked |-> d, alone |-> alone]
             ELSE IF o \in Busy(g) THEN [request[o] EXCEPT !.alone = FALSE]
             ELSE request[o]]
  BY <1>1, Zenon
<1>3. request'[e] = [todo |-> "row", graph |-> g, row |-> row, keeps |-> keeps,
                     parts |-> d, asked |-> d, alone |-> alone]
  BY <1>0
<1>30. /\ request'[e].todo = "row" /\ request'[e].graph = g
       /\ request'[e].parts = d /\ request'[e].asked = d
       /\ request'[e].alone <=> Busy(g) = {}
  BY <1>0, <1>3
<1>4. e \notin Busy(g) /\ Busy(g) \subseteq Editors
  BY <1>2 DEF Busy
<1>5. \A o \in Busy(g) : request'[o] = [request[o] EXCEPT !.alone = FALSE]
  BY <1>0, <1>4
<1>6. \A o \in Editors \ ({e} \cup Busy(g)) : request'[o] = request[o]
  BY <1>0
<1>7. request' = [o \in Editors |-> request'[o]]
  BY <1>0
<1>8. g \in DOMAIN told /\ g # None
  BY DEF TableInv
<1>9. \A o \in Busy(g) : /\ DOMAIN request[o] = DOMAIN NoRequest
                          /\ request[o] = [field \in DOMAIN request[o] |-> request[o][field]]
  BY <1>4 DEF RequestInv, Sound
<1>10. \A o \in Busy(g) :
         /\ DOMAIN request'[o] = DOMAIN NoRequest
         /\ request'[o] = [field \in DOMAIN request'[o] |-> request'[o][field]]
         /\ request'[o].todo = request[o].todo /\ request'[o].graph = request[o].graph
         /\ request'[o].parts = request[o].parts /\ request'[o].asked = request[o].asked
         /\ ~request'[o].alone
  BY <1>5, <1>9 DEF NoRequest
<1>11. \A o \in Busy(g) : Works(o, g)
  BY <1>8, <1>4 DEF Busy, RequestInv, Sound, Works, Phases
<1>12. \A o \in Editors \ {e} : \A h : Works(o, h)' <=> Works(o, h)
  <2> SUFFICES ASSUME NEW o \in Editors \ {e}, NEW h PROVE Works(o, h)' <=> Works(o, h)
    OBVIOUS
  <2>1. request'[o].todo = request[o].todo /\ request'[o].graph = request[o].graph
    BY <1>6, <1>10
  <2>2. QED
    BY <2>1 DEF Works
<1>13. \A h : (Works(e, h)' <=> h = g) /\ ~Works(e, h)
  BY <1>2, <1>30 DEF Works, Phases
<1>14. TableInv'
  BY <1>2 DEF TableInv
<1>15. RequestInv'
  <2>1. Sound(request'[e], DOMAIN told)
    BY <1>3, <1>8, EndOfItself DEF Sound, Phases, NoRequest
  <2>2. ASSUME NEW o \in Busy(g) PROVE Sound(request'[o], DOMAIN told)
    <3>1. Sound(request[o], DOMAIN told)
      BY <1>4 DEF RequestInv
    <3>2. request[o].todo # "create"
      BY <1>11 DEF Works, Phases
    <3>3. QED
      BY <1>10, <3>1, <3>2 DEF Sound
  <2>3. QED
    BY <1>2, <1>6, <1>7, <2>1, <2>2 DEF RequestInv
<1>16. AloneInv'
  <2> SUFFICES ASSUME NEW o \in Editors, NEW f \in Editors, NEW h,
                      request'[o].alone, Works(o, h)', Works(f, h)'
               PROVE  f = o
    BY DEF AloneInv
  <2>1. CASE o = e
    <3>1. h = g /\ Busy(g) = {}
      BY <1>30, <1>13, <2>1
    <3>2. \A x \in Editors : ~Works(x, g)
      BY <3>1 DEF Works, Busy, Phases
    <3>3. QED
      BY <1>12, <2>1, <3>1, <3>2
  <2>2. CASE o # e
    <3>1. o \notin Busy(g) /\ request'[o] = request[o] /\ Works(o, h)
      BY <1>6, <1>10, <1>12, <2>2
    <3>2. h # g
      BY <3>1 DEF Works, Busy, Phases
    <3>3. f # e /\ Works(f, h)
      BY <1>12, <1>13, <3>2
    <3>4. QED
      BY <3>1, <3>3 DEF AloneInv, Works
  <2>3. QED
    BY <2>1, <2>2
<1>17. TornInv'
  <2> SUFFICES ASSUME NEW o \in Editors, NEW h, Works(o, h)',
                      ~request'[o].alone \/ h \notin DOMAIN graphs
               PROVE  h \in torn'
    BY <1>2 DEF TornInv
  <2>1. torn \subseteq torn'
    BY <1>1
  <2>2. CASE o = e
    BY <1>1, <1>30, <1>13, <1>2, <2>2
  <2>3. CASE o \in Busy(g)
    <3>1. h = g
      BY <1>4, <1>11, <1>12, <2>3 DEF Works
    <3>2. QED
      BY <1>1, <2>3, <3>1
  <2>4. CASE o \notin Busy(g) /\ o # e
    BY <1>6, <1>12, <2>1, <2>4 DEF TornInv
  <2>5. QED
    BY <2>2, <2>3, <2>4
<1>18. ToldInv'
  <2> SUFFICES ASSUME NEW h \in DOMAIN graphs, h \notin torn',
                      \A f \in Editors : Works(f, h)' => request'[f].todo = "row"
               PROVE  parts[h] = told[h]
    BY <1>2 DEF ToldInv
  <2>1. h \notin torn
    BY <1>1
  <2>2. \A f \in Editors : Works(f, h) => request[f].todo = "row"
    BY <1>6, <1>10, <1>12, <1>13
  <2>3. QED
    BY <2>1, <2>2 DEF ToldInv
<1>19. AddInv'
  <2> SUFFICES ASSUME NEW o \in Editors, request'[o].todo = "add", request'[o].alone,
                      request'[o].graph \in DOMAIN graphs
               PROVE  Described(parts[request'[o].graph], request'[o].asked,
                        Len(request'[o].asked) - Len(request'[o].parts), DOMAIN catalogue)
    BY <1>2 DEF AddInv
  <2>1. o # e /\ o \notin Busy(g)
    BY <1>30, <1>10
  <2>2. request'[o] = request[o]
    BY <1>6, <2>1
  <2>3. QED
    BY <2>2 DEF AddInv
<1>20. QED
  BY <1>14, <1>15, <1>16, <1>17, <1>18, <1>19

LEMMA StartPostStep ==
  ASSUME Inv, NEW e \in Editors, StartPost(e)
  PROVE  Inv'
<1> USE DEF Inv
<1>1. PICK row : \E d \in Descriptions :
        request' = [request EXCEPT ![e] =
                 [todo |-> "create", graph |-> None, row |-> row, keeps |-> FALSE,
                  parts |-> d, asked |-> d, alone |-> TRUE]]
  BY Zenon DEF StartPost
<1>0. PICK d \in Descriptions :
        request' = [request EXCEPT ![e] =
                 [todo |-> "create", graph |-> None, row |-> row, keeps |-> FALSE,
                  parts |-> d, asked |-> d, alone |-> TRUE]]
  BY <1>1
<1>2. UNCHANGED <<catalogue, graphs, parts, told, torn>> /\ request[e].todo = "none"
  BY DEF StartPost, structureVars, letterVars
<1>3. /\ request' = [f \in Editors |-> request'[f]]
      /\ request'[e] = [todo |-> "create", graph |-> None, row |-> row, keeps |-> FALSE,
                        parts |-> d, asked |-> d, alone |-> TRUE]
      /\ \A f \in Editors \ {e} : request'[f] = request[f]
  BY <1>0, Set
<1>4. \A f \in Editors : \A g : (Works(f, g)' <=> Works(f, g)) /\ ~Works(e, g)
  BY <1>2, <1>3 DEF Works, Phases
<1>5. TableInv'
  BY <1>2 DEF TableInv
<1>6. Sound(request'[e], DOMAIN told)
  BY <1>3, EndOfItself DEF Sound, Phases, NoRequest
<1>7. RequestInv'
  BY <1>2, <1>3, <1>6 DEF RequestInv
<1>8. \A f \in Editors : \A g : Works(f, g) => request'[f] = request[f]
  BY <1>3, <1>4
<1>9. AloneInv'
  BY <1>4, <1>8 DEF AloneInv, Works
<1>10. TornInv'
  BY <1>2, <1>4, <1>8 DEF TornInv
<1>11. ToldInv'
  BY <1>2, <1>4, <1>8 DEF ToldInv
<1>12. AddInv'
  <2> SUFFICES ASSUME NEW o \in Editors, request'[o].todo = "add", request'[o].alone,
                      request'[o].graph \in DOMAIN graphs
               PROVE  Described(parts[request'[o].graph], request'[o].asked,
                        Len(request'[o].asked) - Len(request'[o].parts), DOMAIN catalogue)
    BY <1>2 DEF AddInv
  <2>1. request'[o] = request[o]
    BY <1>3
  <2>2. QED
    BY <2>1 DEF AddInv
<1>13. QED
  BY <1>5, <1>7, <1>9, <1>10, <1>11, <1>12

-----------------------------------------------------------------------------
(* A request goes on, or ends                                               *)

LEMMA GoesOn ==
  ASSUME RequestInv, AloneInv, NEW e \in Editors, NEW r,
         request' = [request EXCEPT ![e] = r], request[e].todo \in Phases,
         r.todo \in Phases, r.graph = request[e].graph, r.alone <=> request[e].alone,
         Sound(r, DOMAIN told), DOMAIN told' = DOMAIN told
  PROVE  /\ RequestInv' /\ AloneInv'
         /\ \A f \in Editors : \A g : Works(f, g)' <=> Works(f, g)
         /\ \A f \in Editors : request'[f].alone <=> request[f].alone
         /\ \A f \in Editors \ {e} : request'[f] = request[f]
         /\ request'[e] = r
<1>1. /\ request' = [f \in Editors |-> request'[f]]
      /\ request'[e] = r
      /\ \A f \in Editors \ {e} : request'[f] = request[f]
  BY Set
<1>2. RequestInv'
  BY <1>1 DEF RequestInv
<1>3. \A f \in Editors : request'[f].alone <=> request[f].alone
  BY <1>1
<1>4. \A f \in Editors : \A g : Works(f, g)' <=> Works(f, g)
  BY <1>1 DEF Works
<1>5. AloneInv'
  <2> SUFFICES ASSUME NEW o \in Editors, NEW f \in Editors, NEW g,
                      request'[o].alone, Works(o, g)', Works(f, g)'
               PROVE  f = o
    BY DEF AloneInv
  <2>1. request[o].alone /\ Works(o, g) /\ Works(f, g)
    BY <1>3, <1>4
  <2>2. QED
    BY <2>1 DEF AloneInv, Works
<1>6. QED
  BY <1>1, <1>2, <1>3, <1>4, <1>5

LEMMA Ends ==
  ASSUME RequestInv, AloneInv, NEW e \in Editors,
         request' = [request EXCEPT ![e] = NoRequest], DOMAIN told' = DOMAIN told
  PROVE  /\ RequestInv' /\ AloneInv'
         /\ \A f \in Editors : \A g : Works(f, g)' <=> f # e /\ Works(f, g)
         /\ \A f \in Editors \ {e} : request'[f] = request[f]
         /\ request'[e].todo = "none"
<1>1. /\ request' = [f \in Editors |-> request'[f]]
      /\ request'[e] = NoRequest
      /\ \A f \in Editors \ {e} : request'[f] = request[f]
  BY Set
<1>2. RequestInv'
  BY <1>1, NoneIsSound DEF RequestInv
<1>3. \A f \in Editors : \A g : Works(f, g)' <=> f # e /\ Works(f, g)
  BY <1>1 DEF Works, NoRequest, Phases
<1>4. AloneInv'
  BY <1>1, <1>3 DEF AloneInv, Works
<1>5. QED
  BY <1>1, <1>2, <1>3, <1>4 DEF NoRequest

LEMMA OneAlone ==
  ASSUME AloneInv, NEW e \in Editors, NEW f \in Editors, NEW g,
         Works(e, g), Works(f, g), request[e].alone
  PROVE  f = e
BY DEF AloneInv, Works

-----------------------------------------------------------------------------
(* The row                                                                  *)

LEMMA WriteRowStep ==
  ASSUME Inv, NEW e \in Editors, WriteRow(e)
  PROVE  Inv'
<1> USE DEF Inv
<1> DEFINE r == request[e]
           g == r.graph
<1>1. r.todo = "row" /\ UNCHANGED catalogue
  BY DEF WriteRow, structureVars
<1>2. CASE ~Valid(r.row)
  <2>1. Broken(e)
    BY <1>2 DEF WriteRow
  <2>2. QED
    BY <1>1, <2>1, Broke
<1>3. CASE Valid(r.row)
  <2>1. /\ graphs' = With(graphs, g, r.row)
        /\ parts' = [h \in DOMAIN graphs' |-> IF h \in DOMAIN parts THEN parts[h] ELSE <<>>]
        /\ request' = [request EXCEPT ![e] = IF r.keeps THEN NoRequest ELSE [r EXCEPT !.todo = "clear"]]
        /\ UNCHANGED <<told, torn>>
    BY <1>3 DEF WriteRow
  <2>2. Works(e, g) /\ g \in DOMAIN told
    BY <1>1, WorksIsKnown DEF Works, Phases
  <2>3. /\ DOMAIN graphs' = DOMAIN graphs \cup {g} /\ DOMAIN parts' = DOMAIN graphs'
        /\ \A h \in DOMAIN graphs : parts'[h] = parts[h]
    BY <2>1 DEF With, TableInv
  <2>4. /\ RequestInv' /\ AloneInv'
        /\ \A f \in Editors : \A h : Works(f, h)' => Works(f, h)
        /\ \A f \in Editors \ {e} : request'[f] = request[f]
        /\ request'[e].todo # "add"
        /\ \A h : Works(e, h)' => (request'[e].alone <=> request[e].alone)
        /\ \A f \in Editors : \A h : Works(f, h) => Works(f, h)' \/ f = e
    <3>1. CASE r.keeps
      <4>1. request' = [request EXCEPT ![e] = NoRequest]
        BY <2>1, <3>1
      <4>2. QED
        BY <2>1, <4>1, Ends
    <3>2. CASE ~r.keeps
      <4> DEFINE s == [r EXCEPT !.todo = "clear"]
      <4>1. request' = [request EXCEPT ![e] = s]
        BY <2>1, <3>2
      <4>2. Sound(r, DOMAIN told)
        BY DEF RequestInv
      <4>3. /\ DOMAIN s = DOMAIN NoRequest /\ s = [field \in DOMAIN s |-> s[field]]
            /\ s.todo = "clear" /\ s.graph = g /\ s.parts = r.parts /\ s.asked = r.asked
            /\ s.alone = r.alone
        BY <4>2 DEF Sound, NoRequest
      <4>4. Sound(s, DOMAIN told)
        BY <1>1, <2>2, <4>2, <4>3 DEF Sound, Phases
      <4> HIDE DEF s
      <4>5. QED
        BY <1>1, <2>1, <4>1, <4>3, <4>4, GoesOn DEF Phases
    <3>3. QED
      BY <3>1, <3>2
  <2>5. TableInv'
    BY <2>1, <2>2, <2>3 DEF TableInv
  <2>6. TornInv'
    <3> SUFFICES ASSUME NEW f \in Editors, NEW h, Works(f, h)',
                        ~request'[f].alone \/ h \notin DOMAIN graphs'
                 PROVE  h \in torn'
      BY DEF TornInv
    <3>1. Works(f, h) /\ (~request[f].alone \/ h \notin DOMAIN graphs)
      BY <2>3, <2>4
    <3>2. QED
      BY <2>1, <3>1 DEF TornInv
  <2>7. ToldInv'
    <3> SUFFICES ASSUME NEW h \in DOMAIN graphs', h \notin torn',
                        \A f \in Editors : Works(f, h)' => request'[f].todo = "row"
                 PROVE  parts'[h] = told'[h]
      BY DEF ToldInv
    <3>1. h \in DOMAIN graphs
      BY <2>1, <2>2, <2>3 DEF TornInv
    <3>2. \A f \in Editors : Works(f, h) => request[f].todo = "row"
      BY <1>1, <2>4
    <3>3. QED
      BY <2>1, <2>3, <3>1, <3>2 DEF ToldInv
  <2>8. AddInv'
    <3> SUFFICES ASSUME NEW o \in Editors, request'[o].todo = "add", request'[o].alone,
                        request'[o].graph \in DOMAIN graphs'
                 PROVE  Described(parts'[request'[o].graph], request'[o].asked,
                          Len(request'[o].asked) - Len(request'[o].parts), DOMAIN catalogue)
      BY <1>1 DEF AddInv
    <3>1. o # e /\ request'[o] = request[o]
      BY <2>4
    <3>2. request[o].graph # g
      BY <2>2, <3>1, OneAlone DEF Works, Phases
    <3>3. request[o].graph \in DOMAIN graphs
      BY <2>3, <3>1, <3>2
    <3>4. QED
      BY <2>3, <3>1, <3>3 DEF AddInv
  <2>9. QED
    BY <2>4, <2>5, <2>6, <2>7, <2>8
<1>4. QED
  BY <1>2, <1>3

LEMMA CreateRowStep ==
  ASSUME Inv, NEW e \in Editors, CreateRow(e)
  PROVE  Inv'
<1> USE DEF Inv
<1> DEFINE r == request[e]
<1>1. r.todo = "create" /\ UNCHANGED catalogue
  BY DEF CreateRow, structureVars
<1>2. CASE ~Valid(r.row)
  <2>1. Broken(e)
    BY <1>2 DEF CreateRow
  <2>2. QED
    BY <1>1, <2>1, Broke
<1>3. CASE Valid(r.row)
  <2>1. PICK g \in Glyphs \ DOMAIN told :
          /\ graphs' = With(graphs, g, r.row)
          /\ parts' = With(parts, g, <<>>)
          /\ told' = With(told, g, <<>>)
          /\ request' = [request EXCEPT ![e].todo = "add", ![e].graph = g]
          /\ UNCHANGED torn
    BY <1>3 DEF CreateRow
  <2>2. /\ DOMAIN graphs' = DOMAIN graphs \cup {g} /\ DOMAIN parts' = DOMAIN parts \cup {g}
        /\ DOMAIN told' = DOMAIN told \cup {g}
        /\ parts'[g] = <<>> /\ told'[g] = <<>>
        /\ \A h \in DOMAIN graphs : parts'[h] = parts[h] /\ told'[h] = told[h]
    BY <2>1 DEF With, TableInv
  <2>3. Sound(r, DOMAIN told)
    BY DEF RequestInv
  <2>4. /\ request' = [f \in Editors |-> request'[f]]
        /\ \A f \in Editors \ {e} : request'[f] = request[f]
        /\ request'[e] = [r EXCEPT !.todo = "add", !.graph = g]
    BY <2>1 DEF RequestInv
  <2>5. /\ DOMAIN request'[e] = DOMAIN NoRequest
        /\ request'[e] = [field \in DOMAIN request'[e] |-> request'[e][field]]
        /\ request'[e].todo = "add" /\ request'[e].graph = g
        /\ request'[e].parts = r.parts /\ request'[e].asked = r.asked /\ request'[e].alone = r.alone
    <3>1. DOMAIN r = DOMAIN NoRequest /\ r = [field \in DOMAIN r |-> r[field]]
      BY <2>3 DEF Sound
    <3> DEFINE s == [r EXCEPT !.todo = "add"]
    <3>2. /\ DOMAIN s = DOMAIN NoRequest /\ s = [field \in DOMAIN s |-> s[field]]
          /\ s.todo = "add" /\ s.parts = r.parts /\ s.asked = r.asked /\ s.alone = r.alone
      BY <3>1 DEF NoRequest
    <3>3. request'[e] = [s EXCEPT !.graph = g]
      BY <2>4
    <3> HIDE DEF s
    <3>4. QED
      BY <3>2, <3>3 DEF NoRequest
  <2>6. r.alone /\ r.parts = r.asked /\ IsEndOf(r.parts, r.asked)
    BY <1>1, <2>3 DEF Sound
  <2>7. Sound(request'[e], DOMAIN told')
    BY <2>2, <2>5, <2>6 DEF Sound, Phases
  <2>8. \A f \in Editors \ {e} : Sound(request'[f], DOMAIN told')
    <3> SUFFICES ASSUME NEW f \in Editors \ {e} PROVE Sound(request'[f], DOMAIN told')
      OBVIOUS
    <3>1. Sound(request[f], DOMAIN told) /\ request'[f] = request[f]
      BY <2>4 DEF RequestInv
    <3>2. QED
      BY <2>2, <3>1 DEF Sound
  <2>9. RequestInv'
    BY <2>4, <2>7, <2>8 DEF RequestInv
  <2>10. \A h : (Works(e, h)' <=> h = g) /\ ~Works(e, h)
    BY <1>1, <2>5 DEF Works, Phases
  <2>11. \A f \in Editors \ {e} : \A h : (Works(f, h)' <=> Works(f, h)) /\ (Works(f, h) => h # g)
    BY <2>4, WorksIsKnown DEF Works
  <2>12. TableInv'
    BY <2>1, <2>2, GlyphsAssumption DEF TableInv
  <2>13. AloneInv'
    <3> SUFFICES ASSUME NEW o \in Editors, NEW f \in Editors, NEW h,
                        request'[o].alone, Works(o, h)', Works(f, h)'
                 PROVE  f = o
      BY DEF AloneInv
    <3>1. CASE o = e \/ f = e
      BY <2>10, <2>11, <3>1
    <3>2. CASE o # e /\ f # e
      <4>1. request[o].alone /\ Works(o, h) /\ Works(f, h)
        BY <2>4, <2>11, <3>2
      <4>2. QED
        BY <4>1, OneAlone
    <3>3. QED
      BY <3>1, <3>2
  <2>14. TornInv'
    <3> SUFFICES ASSUME NEW f \in Editors, NEW h, Works(f, h)',
                        ~request'[f].alone \/ h \notin DOMAIN graphs'
                 PROVE  h \in torn'
      BY DEF TornInv
    <3>1. f # e
      BY <2>2, <2>5, <2>6, <2>10
    <3>2. QED
      BY <2>1, <2>2, <2>4, <2>11, <3>1 DEF TornInv
  <2>15. ToldInv'
    <3> SUFFICES ASSUME NEW h \in DOMAIN graphs', h \notin torn', h # g,
                        \A f \in Editors : Works(f, h)' => request'[f].todo = "row"
                 PROVE  parts'[h] = told'[h]
      BY <2>2 DEF ToldInv
    <3>1. h \in DOMAIN graphs
      BY <2>2
    <3>2. \A f \in Editors : Works(f, h) => request[f].todo = "row"
      BY <2>4, <2>10, <2>11
    <3>3. QED
      BY <2>1, <2>2, <3>1, <3>2 DEF ToldInv
  <2>16. AddInv'
    <3> SUFFICES ASSUME NEW o \in Editors, request'[o].todo = "add", request'[o].alone,
                        request'[o].graph \in DOMAIN graphs'
                 PROVE  Described(parts'[request'[o].graph], request'[o].asked,
                          Len(request'[o].asked) - Len(request'[o].parts), DOMAIN catalogue)
      BY <1>1 DEF AddInv
    <3>1. CASE o = e
      <4>1. Len(request'[e].asked) - Len(request'[e].parts) = 0
        BY <2>5, <2>6 DEF IsEndOf
      <4>2. Described(<<>>, request'[e].asked, 0, DOMAIN catalogue)
        BY EmptyFunction DEF Described
      <4>3. QED
        BY <2>2, <2>5, <3>1, <4>1, <4>2
    <3>2. CASE o # e
      <4>1. request'[o] = request[o] /\ Works(o, request[o].graph)
        BY <2>4, <3>2 DEF Works, Phases
      <4>2. request[o].graph \in DOMAIN graphs
        BY <2>2, <2>11, <3>2, <4>1
      <4>3. QED
        BY <2>2, <4>1, <4>2 DEF AddInv
    <3>3. QED
      BY <3>1, <3>2
  <2>17. QED
    BY <2>9, <2>12, <2>13, <2>14, <2>15, <2>16
<1>4. QED
  BY <1>2, <1>3

-----------------------------------------------------------------------------
(* The components                                                           *)

LEMMA ClearPartsStep ==
  ASSUME Inv, NEW e \in Editors, ClearParts(e)
  PROVE  Inv'
<1> USE DEF Inv
<1> DEFINE r == request[e]
           g == r.graph
           s == [r EXCEPT !.todo = "add"]
<1>1. /\ r.todo = "clear"
      /\ parts' = [h \in DOMAIN parts |-> IF h = g THEN <<>> ELSE parts[h]]
      /\ UNCHANGED <<catalogue, graphs, told, torn>>
  BY DEF ClearParts, structureVars
<1>2. request' = [request EXCEPT ![e] = s]
  BY DEF ClearParts
<1>3. Sound(r, DOMAIN told) /\ Works(e, g) /\ r.parts = r.asked /\ IsEndOf(r.parts, r.asked)
  BY <1>1 DEF RequestInv, Sound, Works, Phases
<1>4. /\ DOMAIN s = DOMAIN NoRequest /\ s = [field \in DOMAIN s |-> s[field]]
      /\ s.todo = "add" /\ s.graph = g /\ s.parts = r.parts /\ s.asked = r.asked
      /\ s.alone = r.alone
  BY <1>3 DEF Sound, NoRequest
<1>5. Sound(s, DOMAIN told)
  BY <1>1, <1>3, <1>4 DEF Sound, Phases
<1> HIDE DEF s
<1>6. /\ RequestInv' /\ AloneInv'
      /\ \A f \in Editors : \A h : Works(f, h)' <=> Works(f, h)
      /\ \A f \in Editors : request'[f].alone <=> request[f].alone
      /\ \A f \in Editors \ {e} : request'[f] = request[f]
      /\ request'[e] = s
  BY <1>1, <1>2, <1>4, <1>5, GoesOn DEF Phases
<1>7. TableInv'
  BY <1>1 DEF TableInv
<1>8. TornInv'
  BY <1>1, <1>6 DEF TornInv
<1>9. ToldInv'
  <2> SUFFICES ASSUME NEW h \in DOMAIN graphs, h \notin torn,
                      \A f \in Editors : Works(f, h)' => request'[f].todo = "row"
               PROVE  parts'[h] = told[h]
    BY <1>1 DEF ToldInv
  <2>1. h # g
    BY <1>3, <1>4, <1>6
  <2>2. \A f \in Editors : Works(f, h) => request[f].todo = "row"
    BY <1>6, <2>1 DEF Works
  <2>3. QED
    BY <1>1, <2>1, <2>2 DEF ToldInv, TableInv
<1>10. AddInv'
  <2> SUFFICES ASSUME NEW o \in Editors, request'[o].todo = "add", request'[o].alone,
                      request'[o].graph \in DOMAIN graphs
               PROVE  Described(parts'[request'[o].graph], request'[o].asked,
                        Len(request'[o].asked) - Len(request'[o].parts), DOMAIN catalogue)
    BY <1>1 DEF AddInv
  <2>1. CASE o = e
    <3>1. Len(request'[e].asked) - Len(request'[e].parts) = 0
      BY <1>3, <1>4, <1>6 DEF IsEndOf
    <3>2. Described(<<>>, request'[e].asked, 0, DOMAIN catalogue)
      BY EmptyFunction DEF Described
    <3>3. parts'[request'[e].graph] = <<>>
      BY <1>1, <1>4, <1>6, <2>1 DEF TableInv
    <3>4. QED
      BY <2>1, <3>1, <3>2, <3>3
  <2>2. CASE o # e
    <3>1. request'[o] = request[o] /\ Works(o, request[o].graph)
      BY <1>6, <2>2 DEF Works, Phases
    <3>2. request[o].graph # g
      BY <1>3, <2>2, <3>1, OneAlone
    <3>3. parts'[request[o].graph] = parts[request[o].graph]
      BY <1>1, <3>1, <3>2 DEF TableInv
    <3>4. QED
      BY <3>1, <3>3 DEF AddInv
  <2>3. QED
    BY <2>1, <2>2
<1>11. QED
  BY <1>6, <1>7, <1>8, <1>9, <1>10

\* What is left after the first of what was left.
LEMMA TailIsEnd ==
  ASSUME NEW s, NEW t, IsEndOf(s, t), s # <<>>
  PROVE  /\ IsEndOf(Tail(s), t)
         /\ Len(t) - Len(Tail(s)) = Len(t) - Len(s) + 1
         /\ Len(t) - Len(s) \in Nat
         /\ t[Len(t) - Len(s) + 1] = Head(s)
<1>1. s \in Seq(Letters) /\ t \in Seq(Letters) /\ Len(s) \in Nat /\ Len(t) \in Nat
  BY DEF IsEndOf
<1>2. Len(s) > 0 /\ Len(s) <= Len(t)
  BY <1>1 DEF IsEndOf
<1>3. /\ Tail(s) \in Seq(Letters) /\ Len(Tail(s)) = Len(s) - 1
      /\ \A i \in 1 .. Len(s) - 1 : Tail(s)[i] = s[i + 1]
  BY <1>1, <1>2
<1>4. \A i \in 1 .. Len(s) : s[i] = t[Len(t) - Len(s) + i]
  BY DEF IsEndOf
<1>5. ASSUME NEW i \in 1 .. Len(Tail(s))
      PROVE  Tail(s)[i] = t[Len(t) - Len(Tail(s)) + i]
  <2>1. i + 1 \in 1 .. Len(s) /\ Tail(s)[i] = s[i + 1]
    BY <1>1, <1>3
  <2>2. s[i + 1] = t[Len(t) - Len(s) + (i + 1)]
    BY <1>4, <2>1
  <2>3. Len(t) - Len(s) + (i + 1) = Len(t) - Len(Tail(s)) + i
    BY <1>1, <1>3
  <2>4. QED
    BY <2>1, <2>2, <2>3
<1>6. IsEndOf(Tail(s), t)
  BY <1>1, <1>2, <1>3, <1>5 DEF IsEndOf
<1>7. Head(s) = s[1]
  BY <1>1, <1>2
<1>8. QED
  BY <1>1, <1>2, <1>3, <1>4, <1>6, <1>7

LEMMA DescribedFurther ==
  ASSUME NEW f, NEW asked, NEW n \in Nat, NEW known, NEW d,
         Described(f, asked, n, known), asked[n + 1] = d,
         d.component \in known, d.component \notin DOMAIN f
  PROVE  Described(With(f, d.component, d.features), asked, n + 1, known)
<1> DEFINE w == With(f, d.component, d.features)
<1>1. /\ DOMAIN w = DOMAIN f \cup {d.component} /\ w = [c \in DOMAIN w |-> w[c]]
      /\ w[d.component] = d.features
      /\ \A c \in DOMAIN f : w[c] = f[c]
  BY DEF With
<1>2. 1 .. n + 1 = (1 .. n) \cup {n + 1}
  OBVIOUS
<1>3. DOMAIN f = {asked[i].component : i \in 1 .. n} \cap known
  BY DEF Described
<1>4. DOMAIN w = {asked[i].component : i \in 1 .. n + 1} \cap known
  BY <1>1, <1>2, <1>3
<1>5. ASSUME NEW i \in 1 .. n + 1, asked[i].component \in known
      PROVE  w[asked[i].component] = asked[i].features
  <2>1. CASE i = n + 1
    BY <1>1, <2>1
  <2>2. CASE i \in 1 .. n
    <3>1. asked[i].component \in DOMAIN f
      BY <1>3, <1>5, <2>2
    <3>2. QED
      BY <1>1, <1>5, <2>2, <3>1 DEF Described
  <2>3. QED
    BY <1>2, <2>1, <2>2
<1> HIDE DEF w
<1>6. Described(w, asked, n + 1, known)
  BY <1>1, <1>4, <1>5 DEF Described
<1>7. QED
  BY <1>6 DEF w

LEMMA AddPartStep ==
  ASSUME Inv, NEW e \in Editors, AddPart(e)
  PROVE  Inv'
<1> USE DEF Inv
<1> DEFINE r == request[e]
           g == r.graph
           d == Head(r.parts)
           s == [r EXCEPT !.parts = Tail(r.parts)]
           refused == \/ d.component \notin DOMAIN catalogue
                      \/ g \notin DOMAIN graphs
                      \/ d.component \in DOMAIN parts[g]
<1>1. r.todo = "add" /\ r.parts # <<>> /\ UNCHANGED catalogue
  BY DEF AddPart, structureVars
<1>2. CASE refused
  <2>1. Broken(e)
    BY <1>2 DEF AddPart
  <2>2. QED
    BY <1>1, <2>1, Broke
<1>3. CASE ~refused
  <2>1. /\ parts' = [parts EXCEPT ![g] = With(parts[g], d.component, d.features)]
        /\ request' = [request EXCEPT ![e] = s]
        /\ UNCHANGED <<graphs, told, torn>>
    BY <1>3 DEF AddPart
  <2>2. Sound(r, DOMAIN told) /\ Works(e, g) /\ IsEndOf(r.parts, r.asked)
    BY <1>1 DEF RequestInv, Sound, Works, Phases
  <2>3. /\ DOMAIN s = DOMAIN NoRequest /\ s = [field \in DOMAIN s |-> s[field]]
        /\ s.todo = "add" /\ s.graph = g /\ s.parts = Tail(r.parts) /\ s.asked = r.asked
        /\ s.alone = r.alone
    BY <1>1, <2>2 DEF Sound, NoRequest
  <2>4. /\ IsEndOf(s.parts, s.asked)
        /\ Len(s.asked) - Len(s.parts) = Len(r.asked) - Len(r.parts) + 1
        /\ Len(r.asked) - Len(r.parts) \in Nat
        /\ r.asked[Len(r.asked) - Len(r.parts) + 1] = d
    <3>1. /\ IsEndOf(Tail(r.parts), r.asked)
          /\ Len(r.asked) - Len(Tail(r.parts)) = Len(r.asked) - Len(r.parts) + 1
          /\ Len(r.asked) - Len(r.parts) \in Nat
          /\ r.asked[Len(r.asked) - Len(r.parts) + 1] = Head(r.parts)
      BY <1>1, <2>2, TailIsEnd
    <3> HIDE DEF s
    <3>2. QED
      BY <2>3, <3>1
  <2>5. Sound(s, DOMAIN told)
    BY <2>2, <2>3, <2>4 DEF Sound, Phases
  <2> HIDE DEF s
  <2>6. /\ RequestInv' /\ AloneInv'
        /\ \A f \in Editors : \A h : Works(f, h)' <=> Works(f, h)
        /\ \A f \in Editors : request'[f].alone <=> request[f].alone
        /\ \A f \in Editors \ {e} : request'[f] = request[f]
        /\ request'[e] = s
    BY <1>1, <2>1, <2>3, <2>5, GoesOn DEF Phases
  <2>7. DOMAIN parts' = DOMAIN parts /\ \A h \in DOMAIN parts : h # g => parts'[h] = parts[h]
    BY <2>1
  <2>8. TableInv'
    BY <2>1, <2>7 DEF TableInv
  <2>9. TornInv'
    BY <2>1, <2>6 DEF TornInv
  <2>10. ToldInv'
    <3> SUFFICES ASSUME NEW h \in DOMAIN graphs, h \notin torn,
                        \A f \in Editors : Works(f, h)' => request'[f].todo = "row"
                 PROVE  parts'[h] = told[h]
      BY <2>1 DEF ToldInv
    <3>1. h # g
      BY <2>2, <2>3, <2>6
    <3>2. \A f \in Editors : Works(f, h) => request[f].todo = "row"
      BY <2>6, <3>1 DEF Works
    <3>3. QED
      BY <2>7, <3>1, <3>2 DEF ToldInv, TableInv
  <2>11. AddInv'
    <3> SUFFICES ASSUME NEW o \in Editors, request'[o].todo = "add", request'[o].alone,
                        request'[o].graph \in DOMAIN graphs
                 PROVE  Described(parts'[request'[o].graph], request'[o].asked,
                          Len(request'[o].asked) - Len(request'[o].parts), DOMAIN catalogue)
      BY <1>1, <2>1 DEF AddInv
    <3>1. CASE o = e
      <4>1. Described(parts[g], r.asked, Len(r.asked) - Len(r.parts), DOMAIN catalogue)
        BY <1>1, <1>3, <2>6, <3>1 DEF AddInv
      <4>2. Described(With(parts[g], d.component, d.features), r.asked,
              Len(r.asked) - Len(r.parts) + 1, DOMAIN catalogue)
        BY <1>3, <2>4, <4>1, DescribedFurther
      <4>3. parts'[g] = With(parts[g], d.component, d.features)
        BY <1>3, <2>1 DEF TableInv
      <4>4. QED
        BY <2>3, <2>4, <2>6, <3>1, <4>2, <4>3
    <3>2. CASE o # e
      <4>1. request'[o] = request[o] /\ Works(o, request[o].graph)
        BY <2>6, <3>2 DEF Works, Phases
      <4>2. request[o].graph # g
        BY <2>2, <3>2, <4>1, OneAlone
      <4>3. parts'[request[o].graph] = parts[request[o].graph]
        BY <2>7, <4>1, <4>2 DEF TableInv
      <4>4. QED
        BY <4>1, <4>3 DEF AddInv
    <3>3. QED
      BY <3>1, <3>2
  <2>12. QED
    BY <2>6, <2>8, <2>9, <2>10, <2>11
<1>4. QED
  BY <1>2, <1>3

\* All that was asked for, as the answer tells it.
LEMMA DescribedAll ==
  ASSUME NEW f, NEW asked \in Seq(Letters), NEW known,
         Described(f, asked, Len(asked), known)
  PROVE  f = [c \in {d.component : d \in Range(asked)} \cap known |->
                (CHOOSE d \in Range(asked) : d.component = c).features]
<1>1. Range(asked) = {asked[i] : i \in 1 .. Len(asked)}
  BY DEF Range
<1>2. DOMAIN f = {d.component : d \in Range(asked)} \cap known
  BY <1>1 DEF Described
<1>3. ASSUME NEW c \in DOMAIN f
      PROVE  f[c] = (CHOOSE d \in Range(asked) : d.component = c).features
  <2>1. \E d \in Range(asked) : d.component = c
    BY <1>2
  <2> DEFINE first == CHOOSE d \in Range(asked) : d.component = c
  <2>2. first \in Range(asked) /\ first.component = c
    BY <2>1
  <2>3. PICK i \in 1 .. Len(asked) : asked[i] = first
    BY <1>1, <2>2
  <2>4. c \in known
    BY <1>2
  <2>5. f[c] = first.features
    BY <2>2, <2>3, <2>4 DEF Described
  <2>6. QED
    BY <2>5
<1>4. f = [c \in DOMAIN f |-> f[c]]
  BY DEF Described
<1>5. f = [c \in DOMAIN f |-> (CHOOSE d \in Range(asked) : d.component = c).features]
  BY <1>3, <1>4
<1>6. QED
  BY <1>2, <1>5

LEMMA FinishPartsStep ==
  ASSUME Inv, NEW e \in Editors, FinishParts(e)
  PROVE  Inv'
<1> USE DEF Inv
<1> DEFINE r == request[e]
           g == r.graph
           answer == [c \in {d.component : d \in Range(r.asked)} \cap DOMAIN catalogue |->
                        (CHOOSE d \in Range(r.asked) : d.component = c).features]
<1>1. /\ r.todo = "add" /\ r.parts = <<>>
      /\ request' = [request EXCEPT ![e] = NoRequest]
      /\ told' = With(told, g, answer)
      /\ torn' = IF r.alone THEN torn \ {g} ELSE torn
      /\ UNCHANGED <<catalogue, graphs, parts>>
  BY DEF FinishParts, structureVars
<1>2. Sound(r, DOMAIN told) /\ Works(e, g) /\ IsEndOf(r.parts, r.asked)
  BY <1>1 DEF RequestInv, Sound, Works, Phases
<1>3. g \in DOMAIN told
  BY <1>2, WorksIsKnown
<1>4. /\ DOMAIN told' = DOMAIN told /\ told'[g] = answer
      /\ \A h \in DOMAIN told : h # g => told'[h] = told[h]
  BY <1>1, <1>3 DEF With
<1> HIDE DEF answer
<1>5. /\ RequestInv' /\ AloneInv'
      /\ \A f \in Editors : \A h : Works(f, h)' <=> f # e /\ Works(f, h)
      /\ \A f \in Editors \ {e} : request'[f] = request[f]
      /\ request'[e].todo = "none"
  BY <1>1, <1>4, Ends
<1>6. TableInv'
  BY <1>1, <1>4 DEF TableInv
<1>7. TornInv'
  <2> SUFFICES ASSUME NEW f \in Editors, NEW h, Works(f, h)',
                      ~request'[f].alone \/ h \notin DOMAIN graphs
               PROVE  h \in torn'
    BY <1>1 DEF TornInv
  <2>1. f # e /\ Works(f, h) /\ request'[f] = request[f]
    BY <1>5
  <2>2. h \in torn
    BY <2>1 DEF TornInv
  <2>3. r.alone => h # g
    BY <1>2, <2>1, OneAlone
  <2>4. QED
    BY <1>1, <2>2, <2>3
<1>8. ToldInv'
  <2> SUFFICES ASSUME NEW h \in DOMAIN graphs, h \notin torn',
                      \A f \in Editors : Works(f, h)' => request'[f].todo = "row"
               PROVE  parts[h] = told'[h]
    BY <1>1 DEF ToldInv
  <2>1. CASE h # g
    <3>1. h \notin torn
      BY <1>1, <2>1
    <3>2. \A f \in Editors : Works(f, h) => request[f].todo = "row"
      BY <1>5, <2>1 DEF Works
    <3>3. QED
      BY <1>4, <2>1, <3>1, <3>2 DEF ToldInv, TableInv
  <2>2. CASE h = g
    <3>1. r.alone
      BY <1>1, <1>2, <2>2 DEF TornInv
    <3>2. Described(parts[g], r.asked, Len(r.asked) - Len(r.parts), DOMAIN catalogue)
      BY <1>1, <2>2, <3>1 DEF AddInv
    <3>3. r.asked \in Seq(Letters) /\ Len(r.asked) - Len(r.parts) = Len(r.asked)
      BY <1>1, <1>2 DEF IsEndOf
    <3>4. Described(parts[g], r.asked, Len(r.asked), DOMAIN catalogue)
      BY <3>2, <3>3
    <3> HIDE DEF r, g
    <3>5. parts[g] = answer
      BY <3>3, <3>4, DescribedAll DEF answer
    <3>6. QED
      BY <1>4, <2>2, <3>5
  <2>3. QED
    BY <2>1, <2>2
<1>9. AddInv'
  <2> SUFFICES ASSUME NEW o \in Editors, request'[o].todo = "add", request'[o].alone,
                      request'[o].graph \in DOMAIN graphs
               PROVE  Described(parts[request'[o].graph], request'[o].asked,
                        Len(request'[o].asked) - Len(request'[o].parts), DOMAIN catalogue)
    BY <1>1 DEF AddInv
  <2>1. request'[o] = request[o]
    BY <1>5
  <2>2. QED
    BY <2>1 DEF AddInv
<1>10. QED
  BY <1>5, <1>6, <1>7, <1>8, <1>9

-----------------------------------------------------------------------------
(* Deletions, and what concerns no graph                                    *)

LEMMA DeleteGraphStep ==
  ASSUME Inv, DeleteGraph
  PROVE  Inv'
<1> USE DEF Inv
<1>1. PICK g \in DOMAIN graphs :
        /\ graphs' = Only(graphs, DOMAIN graphs \ {g})
        /\ parts' = Only(parts, DOMAIN parts \ {g})
        /\ torn' = torn \cup {g}
  BY DEF DeleteGraph
<1>2. UNCHANGED <<catalogue, told, request>>
  BY DEF DeleteGraph, structureVars
<1>3. /\ DOMAIN graphs' = DOMAIN graphs \ {g} /\ DOMAIN parts' = DOMAIN parts \ {g}
      /\ \A h \in DOMAIN parts : h # g => parts'[h] = parts[h]
  BY <1>1 DEF Only
<1>4. TableInv'
  BY <1>2, <1>3 DEF TableInv
<1>5. RequestInv'
  BY <1>2 DEF RequestInv
<1>6. AloneInv'
  BY <1>2 DEF AloneInv, Works
<1>7. TornInv'
  BY <1>1, <1>2, <1>3 DEF TornInv, Works
<1>8. ToldInv'
  BY <1>1, <1>2, <1>3 DEF ToldInv, Works, TableInv
<1>9. AddInv'
  <2> SUFFICES ASSUME NEW o \in Editors, request[o].todo = "add", request[o].alone,
                      request[o].graph \in DOMAIN graphs'
               PROVE  Described(parts'[request[o].graph], request[o].asked,
                        Len(request[o].asked) - Len(request[o].parts), DOMAIN catalogue)
    BY <1>2 DEF AddInv
  <2>1. parts'[request[o].graph] = parts[request[o].graph] /\ request[o].graph \in DOMAIN graphs
    BY <1>3 DEF TableInv
  <2>2. QED
    BY <2>1 DEF AddInv
<1>10. QED
  BY <1>4, <1>5, <1>6, <1>7, <1>8, <1>9

LEMMA DescribedWithout ==
  ASSUME NEW f, NEW asked, NEW n \in Nat, NEW known, NEW c, Described(f, asked, n, known)
  PROVE  Described(Only(f, DOMAIN f \ {c}), asked, n, known \ {c})
<1> DEFINE w == Only(f, DOMAIN f \ {c})
<1>1. /\ DOMAIN w = DOMAIN f \ {c} /\ w = [x \in DOMAIN w |-> w[x]]
      /\ \A x \in DOMAIN f : x # c => w[x] = f[x]
  BY DEF Only
<1> HIDE DEF w
<1>2. Described(w, asked, n, known \ {c})
  BY <1>1 DEF Described
<1>3. QED
  BY <1>2 DEF w

LEMMA DeleteComponentStep ==
  ASSUME Inv, DeleteComponent
  PROVE  Inv'
<1> USE DEF Inv
<1>1. PICK c \in DOMAIN catalogue :
        /\ catalogue' = Only(catalogue, DOMAIN catalogue \ {c})
        /\ parts' = [g \in DOMAIN parts |-> Only(parts[g], DOMAIN parts[g] \ {c})]
        /\ told' = [g \in DOMAIN told |-> Only(told[g], DOMAIN told[g] \ {c})]
  BY DEF DeleteComponent
<1>2. UNCHANGED <<graphs, torn, request>>
  BY DEF DeleteComponent
<1>3. DOMAIN parts' = DOMAIN parts /\ DOMAIN told' = DOMAIN told
      /\ DOMAIN catalogue' = DOMAIN catalogue \ {c}
  BY <1>1 DEF Only
<1>4. TableInv'
  BY <1>2, <1>3 DEF TableInv
<1>5. RequestInv'
  BY <1>2, <1>3 DEF RequestInv
<1>6. AloneInv'
  BY <1>2 DEF AloneInv, Works
<1>7. TornInv'
  BY <1>2 DEF TornInv, Works
<1>8. ToldInv'
  <2> SUFFICES ASSUME NEW g \in DOMAIN graphs, g \notin torn,
                      \A f \in Editors : Works(f, g) => request[f].todo = "row"
               PROVE  parts'[g] = told'[g]
    BY <1>2 DEF ToldInv, Works
  <2>1. parts[g] = told[g]
    BY DEF ToldInv
  <2>2. QED
    BY <1>1, <2>1 DEF TableInv
<1>9. AddInv'
  <2> SUFFICES ASSUME NEW o \in Editors, request[o].todo = "add", request[o].alone,
                      request[o].graph \in DOMAIN graphs
               PROVE  Described(parts'[request[o].graph], request[o].asked,
                        Len(request[o].asked) - Len(request[o].parts), DOMAIN catalogue')
    BY <1>2 DEF AddInv
  <2> DEFINE f == parts[request[o].graph]
  <2>1. Described(f, request[o].asked, Len(request[o].asked) - Len(request[o].parts), DOMAIN catalogue)
    BY DEF AddInv
  <2>2. Len(request[o].asked) - Len(request[o].parts) \in Nat
    BY DEF RequestInv, Sound, IsEndOf
  <2>3. parts'[request[o].graph] = Only(f, DOMAIN f \ {c})
    BY <1>1 DEF TableInv
  <2> HIDE DEF f
  <2>4. Described(Only(f, DOMAIN f \ {c}), request[o].asked,
          Len(request[o].asked) - Len(request[o].parts), DOMAIN catalogue \ {c})
    BY <2>1, <2>2, DescribedWithout
  <2>5. QED
    BY <1>3, <2>3, <2>4
<1>10. QED
  BY <1>4, <1>5, <1>6, <1>7, <1>8, <1>9

LEMMA SameGraphs ==
  ASSUME Inv, UNCHANGED <<graphs, parts, told, torn, request>>,
         DOMAIN catalogue' = DOMAIN catalogue
  PROVE  Inv'
<1> USE DEF Inv
<1>1. TableInv' /\ RequestInv' /\ AloneInv' /\ TornInv' /\ ToldInv'
  BY DEF TableInv, RequestInv, AloneInv, TornInv, ToldInv, Works
<1>2. AddInv'
  BY DEF AddInv
<1>3. QED
  BY <1>1, <1>2

LEMMA NextInv ==
  ASSUME Inv, [FormsNext]_formVars
  PROVE  Inv'
<1>1. CASE UNCHANGED formVars
  BY <1>1, SameGraphs DEF formVars, structureVars, letterVars
<1>2. ASSUME NEW e \in Editors, LoadForm(e) \/ SaveForm(e) PROVE Inv'
  BY <1>2, SameGraphs DEF LoadForm, SaveForm, structureVars, letterVars
<1>3. ASSUME ChangeCatalogue PROVE Inv'
  BY <1>3, SameGraphs DEF ChangeCatalogue, letterVars
<1>4. ASSUME DeleteAllograph PROVE Inv'
  BY <1>4, SameGraphs DEF DeleteAllograph, letterVars
<1>5. CASE FormsNext
  BY <1>5, <1>2, <1>3, <1>4, StartPatchStep, StartPostStep, WriteRowStep, CreateRowStep,
     ClearPartsStep, AddPartStep, FinishPartsStep, DeleteComponentStep, DeleteGraphStep
     DEF FormsNext
<1>6. QED
  BY <1>1, <1>5

\* Once no request is at work on a graph that none tore, it is described by
\* the components that the last request asked for (GraphWriteMixin), however
\* many editors save graphs, structures and catalogues, and however many
\* components they ask for.
THEOREM LettersDescribed == FormsSpec => []DescriptionKept
<1>1. Inv => DescriptionKept
  BY DEF Inv, ToldInv, DescriptionKept, Works, Busy, Phases
<1>2. FormsSpec => []Inv
  BY InitInv, NextInv, PTL DEF FormsSpec
<1>3. QED
  BY <1>1, <1>2, PTL

-----------------------------------------------------------------------------
(* The structure of a character: a form that is read, edited and saved.     *)
(* UpdateStructure is a fold over the allographs, each with a fold over its *)
(* components, so the proofs follow the chains of states that SequenceFolds *)
(* gives, row by row.                                                       *)

Allographs == INSTANCE SequenceFolds WITH Step <- PutAllograph
PartsOf == INSTANCE SequenceFolds WITH Step <- PutPart

\* The folds of the model are those of SequenceFolds.
LEMMA FoldsAllographs ==
  \A base, seq : FoldLeft(PutAllograph, base, seq) = Allographs!Folded(base, seq)
BY Zenon DEF FoldLeft, MapThenFoldSet, Allographs!Folded, Allographs!FoldLeft, Allographs!MapThenFoldSet,
             Max, Allographs!Max

\* The same for the components of one allograph.
LEMMA FoldsParts ==
  \A base, seq : FoldLeft(PutPart, base, seq) = PartsOf!Folded(base, seq)
BY Zenon DEF FoldLeft, MapThenFoldSet, PartsOf!Folded, PartsOf!FoldLeft, PartsOf!MapThenFoldSet,
             Max, PartsOf!Max

AllographsChain(c, base, q, n, end) ==
  c[0] = base /\ c[n] = end /\ \A i \in 1 .. n : c[i] = PutAllograph(c[i - 1], q[i])

PartsChain(c, base, q, n, end) ==
  c[0] = base /\ c[n] = end /\ \A i \in 1 .. n : c[i] = PutPart(c[i - 1], q[i])

\* The states that a save goes through, allograph by allograph.
LEMMA ChainOfAllographs ==
  ASSUME NEW n \in Nat, NEW q, DOMAIN q = 1 .. n, NEW base
  PROVE  \E c : AllographsChain(c, base, q, n, FoldLeft(PutAllograph, base, q))
<1>1. PICK c : Allographs!Makes(c, base, q, n)
  BY Allographs!FoldChain
<1>2. AllographsChain(c, base, q, n, FoldLeft(PutAllograph, base, q))
  BY <1>1, FoldsAllographs, Zenon DEF Allographs!Makes, AllographsChain
<1>3. QED
  BY <1>2, Zenon

\* The states of one allograph, component by component.
LEMMA ChainOfParts ==
  ASSUME NEW n \in Nat, NEW q, DOMAIN q = 1 .. n, NEW base
  PROVE  \E c : PartsChain(c, base, q, n, FoldLeft(PutPart, base, q))
<1>1. PICK c : PartsOf!Makes(c, base, q, n)
  BY PartsOf!FoldChain
<1>2. PartsChain(c, base, q, n, FoldLeft(PutPart, base, q))
  BY <1>1, FoldsParts, Zenon DEF PartsOf!Makes, PartsChain
<1>3. QED
  BY <1>2, Zenon


-----------------------------------------------------------------------------
(* Sequences with keys *)

IsSeq(q) == q \in Seq(Range(q))

\* A sequence is a function of its positions.
LEMMA Positions ==
  ASSUME NEW q, IsSeq(q)
  PROVE  Len(q) \in Nat /\ DOMAIN q = 1 .. Len(q) /\ q = [i \in 1 .. Len(q) |-> q[i]]
BY DEF IsSeq

\* A sequence of elements of any set is one of its own elements.
LEMMA SeqIsSeq == \A S : \A q \in Seq(S) : IsSeq(q)
<1> SUFFICES ASSUME NEW S, NEW q \in Seq(S) PROVE q \in Seq(Range(q))
  BY DEF IsSeq
<1>1. \A i \in 1 .. Len(q) : q[i] \in Range(q)
  BY DEF Range
<1>2. QED
  BY <1>1

\* A function on 1 .. n is a sequence of length n.
LEMMA FunctionIsSeq ==
  ASSUME NEW n \in Nat, NEW q, q = [i \in 1 .. n |-> q[i]]
  PROVE  IsSeq(q) /\ Len(q) = n
<1>1. \A i \in 1 .. n : q[i] \in Range(q)
  BY DEF Range
<1>2. QED
  BY <1>1 DEF IsSeq

\* RemoveAt leaves the others in order.
LEMMA Removed ==
  ASSUME NEW q, IsSeq(q), NEW j \in DOMAIN q
  PROVE  /\ IsSeq(RemoveAt(q, j))
         /\ Len(RemoveAt(q, j)) = Len(q) - 1
         /\ \A i \in 1 .. Len(q) - 1 : RemoveAt(q, j)[i] = q[IF i < j THEN i ELSE i + 1]
<1> DEFINE S == Range(q)
           front == SubSeq(q, 1, j - 1)
           back == SubSeq(q, j + 1, Len(q))
<1>1. Len(q) \in Nat /\ j \in 1 .. Len(q) /\ \A i \in 1 .. Len(q) : q[i] \in S
  BY Positions DEF Range
<1> HIDE DEF S
<1>2. /\ front \in Seq(S) /\ Len(front) = j - 1
      /\ \A i \in 1 .. j - 1 : front[i] = q[i]
  <2>1. \A i \in 1 .. j - 1 : q[i] \in S
    BY <1>1
  <2>2. QED
    BY <1>1, <2>1, SubSeqProperties
<1>3. /\ back \in Seq(S) /\ Len(back) = Len(q) - j
      /\ \A i \in 1 .. Len(q) - j : back[i] = q[j + i]
  <2>1. \A i \in j + 1 .. Len(q) : q[i] \in S
    BY <1>1
  <2>2. /\ back \in Seq(S)
        /\ Len(back) = IF j + 1 <= Len(q) THEN Len(q) - (j + 1) + 1 ELSE 0
        /\ \A i \in 1 .. Len(q) - (j + 1) + 1 : back[i] = q[j + 1 + i - 1]
    <3>1. j + 1 \in Int /\ Len(q) \in Int
      BY <1>1
    <3>2. QED
      BY <2>1, <3>1, SubSeqProperties
  <2>3. QED
    BY <1>1, <2>2
<1> HIDE DEF front, back
<1>4. /\ front \o back \in Seq(S) /\ Len(front \o back) = Len(front) + Len(back)
      /\ \A i \in 1 .. Len(front) + Len(back) :
           (front \o back)[i] = IF i <= Len(front) THEN front[i] ELSE back[i - Len(front)]
  BY <1>2, <1>3, ConcatProperties
<1>5. RemoveAt(q, j) = front \o back
  BY DEF RemoveAt, front, back
<1>6. \A i \in 1 .. Len(q) - 1 : (front \o back)[i] = q[IF i < j THEN i ELSE i + 1]
  <2> SUFFICES ASSUME NEW i \in 1 .. Len(q) - 1
               PROVE  (front \o back)[i] = q[IF i < j THEN i ELSE i + 1]
    OBVIOUS
  <2>1. i \in 1 .. Len(front) + Len(back)
    BY <1>1, <1>2, <1>3
  <2>2. CASE i < j
    <3>1. i <= Len(front) /\ i \in 1 .. j - 1
      BY <1>1, <1>2, <2>2
    <3>2. QED
      BY <1>2, <1>4, <2>1, <2>2, <3>1
  <2>3. CASE ~(i < j)
    <3>1. ~(i <= Len(front)) /\ i - Len(front) \in 1 .. Len(q) - j /\ j + (i - Len(front)) = i + 1
      BY <1>1, <1>2, <2>3
    <3>2. QED
      BY <1>3, <1>4, <2>1, <2>3, <3>1
  <2>4. QED
    BY <2>2, <2>3
<1>7. IsSeq(front \o back)
  BY <1>4, SeqIsSeq
<1>8. Len(front \o back) = Len(q) - 1
  BY <1>1, <1>2, <1>3, <1>4
<1>9. QED
  BY <1>5, <1>6, <1>7, <1>8

\* Append leaves the others where they are.
LEMMA Appended ==
  ASSUME NEW q, IsSeq(q), NEW x
  PROVE  /\ IsSeq(Append(q, x)) /\ Len(Append(q, x)) = Len(q) + 1
         /\ \A i \in 1 .. Len(q) : Append(q, x)[i] = q[i]
         /\ Append(q, x)[Len(q) + 1] = x
<1> DEFINE S == Range(q) \cup {x}
<1>1. q \in Seq(S) /\ x \in S
  <2>1. \A i \in 1 .. Len(q) : q[i] \in S
    BY DEF IsSeq
  <2>2. QED
    BY <2>1 DEF IsSeq
<1> HIDE DEF S
<1>2. Append(q, x) \in Seq(S) /\ Len(Append(q, x)) = Len(q) + 1
      /\ (\A i \in 1 .. Len(q) : Append(q, x)[i] = q[i]) /\ Append(q, x)[Len(q) + 1] = x
  BY <1>1, AppendProperties
<1>3. QED
  BY <1>2, SeqIsSeq

\* Keys below n, each but None once.
Keyed(q, n) ==
  /\ IsSeq(q)
  /\ \A i \in DOMAIN q : q[i].id \in 0 .. n - 1
  /\ \A i, j \in DOMAIN q : q[i].id = q[j].id /\ q[i].id # None => i = j

\* Without an element, keys stay distinct.
LEMMA KeyedRemoved ==
  ASSUME NEW q, NEW n, Keyed(q, n), NEW j \in DOMAIN q
  PROVE  /\ Keyed(RemoveAt(q, j), n)
         /\ \A i \in DOMAIN RemoveAt(q, j) : \E k \in DOMAIN q : RemoveAt(q, j)[i] = q[k]
<1> DEFINE r == RemoveAt(q, j)
           was(i) == IF i < j THEN i ELSE i + 1
<1>1. /\ IsSeq(r) /\ Len(r) = Len(q) - 1
      /\ \A i \in 1 .. Len(q) - 1 : r[i] = q[was(i)]
  BY Removed DEF Keyed
<1>2. Len(q) \in Nat /\ DOMAIN q = 1 .. Len(q) /\ DOMAIN r = 1 .. Len(q) - 1
  BY <1>1, Positions DEF Keyed
<1> HIDE DEF r
<1>3. \A i \in DOMAIN r : was(i) \in DOMAIN q /\ r[i] = q[was(i)]
  BY <1>1, <1>2
<1>4. \A i, k \in DOMAIN r : was(i) = was(k) => i = k
  BY <1>2
<1> HIDE DEF was
<1>5. Keyed(r, n)
  BY <1>1, <1>3, <1>4 DEF Keyed
<1>6. QED
  BY <1>3, <1>5 DEF r

\* With an element that has no key yet, keys stay distinct.
LEMMA KeyedAppended ==
  ASSUME NEW q, NEW n \in Nat \ {0}, Keyed(q, n), NEW x, x.id = None
  PROVE  /\ Keyed(Append(q, x), n)
         /\ \A i \in DOMAIN Append(q, x) : Append(q, x)[i] = x \/ \E k \in DOMAIN q : Append(q, x)[i] = q[k]
<1> DEFINE r == Append(q, x)
<1>1. /\ IsSeq(r) /\ Len(r) = Len(q) + 1 /\ \A i \in 1 .. Len(q) : r[i] = q[i]
      /\ r[Len(q) + 1] = x
  BY Appended DEF Keyed
<1>2. Len(q) \in Nat /\ DOMAIN q = 1 .. Len(q) /\ DOMAIN r = 1 .. Len(q) + 1
  BY <1>1, Positions DEF Keyed
<1> HIDE DEF r
<1>3. DOMAIN r = DOMAIN q \cup {Len(q) + 1}
  BY <1>2
<1>4. None \in 0 .. n - 1
  BY DEF None
<1>5. Keyed(r, n)
  BY <1>1, <1>2, <1>3, <1>4 DEF Keyed
<1>6. QED
  BY <1>1, <1>2, <1>3, <1>5 DEF r

\* An element changes, its key does not.
LEMMA KeyedExcept ==
  ASSUME NEW q, NEW n, Keyed(q, n), NEW r, r = [i \in DOMAIN q |-> r[i]],
         \A i \in DOMAIN q : r[i].id = q[i].id
  PROVE  Keyed(r, n)
<1>1. Len(q) \in Nat /\ DOMAIN q = 1 .. Len(q)
  BY Positions DEF Keyed
<1>2. DOMAIN r = DOMAIN q
  OBVIOUS
<1>3. IsSeq(r)
  BY <1>1, FunctionIsSeq
<1>4. QED
  BY <1>2, <1>3 DEF Keyed

-----------------------------------------------------------------------------
(* The trees of the forms *)

PartFields == {"id", "component", "features"}

GoodParts(p, n) == Keyed(p, n) /\ \A j \in DOMAIN p : DOMAIN p[j] = PartFields

\* One component changes, its key and its fields do not.
LEMMA GoodExcept ==
  ASSUME NEW n, NEW p, GoodParts(p, n), NEW j \in DOMAIN p,
         NEW r, r = [k \in DOMAIN p |-> r[k]], \A k \in DOMAIN p : k # j => r[k] = p[k],
         DOMAIN r[j] = PartFields, r[j].id = p[j].id
  PROVE  GoodParts(r, n)
<1>1. Keyed(r, n)
  BY KeyedExcept DEF GoodParts
<1>2. QED
  BY <1>1 DEF GoodParts

\* Turning a default over keeps the components well formed.
LEMMA GoodFlipped ==
  ASSUME NEW n, NEW p, GoodParts(p, n), NEW j \in DOMAIN p, NEW g
  PROVE  GoodParts(Flipped(p, j, g), n)
<1> DEFINE r == Flipped(p, j, g)
           v == [f \in DOMAIN p[j].features |->
                   IF f = g THEN ~p[j].features[f] ELSE p[j].features[f]]
<1>1. r = [p EXCEPT ![j].features = v]
  BY DEF Flipped
<1> HIDE DEF v
<1>2. r[j] = [p[j] EXCEPT !.features = v]
  BY <1>1
<1>3. DOMAIN r[j] = PartFields /\ r[j].id = p[j].id
  BY <1>2 DEF GoodParts, PartFields
<1>4. r = [k \in DOMAIN p |-> r[k]] /\ \A k \in DOMAIN p : k # j => r[k] = p[k]
  BY <1>1
<1> HIDE DEF r
<1>5. GoodParts(r, n)
  BY <1>3, <1>4, GoodExcept
<1>6. QED
  BY <1>5 DEF r

\* So does a row that moves to another component.
LEMMA GoodMoved ==
  ASSUME NEW n, NEW p, GoodParts(p, n), NEW j \in DOMAIN p, NEW c
  PROVE  GoodParts(Moved(p, j, c), n)
<1> DEFINE r == Moved(p, j, c)
<1>1. r = [p EXCEPT ![j].component = c]
  BY DEF Moved
<1>2. r[j] = [p[j] EXCEPT !.component = c]
  BY <1>1
<1>3. DOMAIN r[j] = PartFields /\ r[j].id = p[j].id
  BY <1>2 DEF GoodParts, PartFields
<1>4. r = [k \in DOMAIN p |-> r[k]] /\ \A k \in DOMAIN p : k # j => r[k] = p[k]
  BY <1>1
<1> HIDE DEF r
<1>5. GoodParts(r, n)
  BY <1>3, <1>4, GoodExcept
<1>6. QED
  BY <1>5 DEF r

\* A new allograph has no components.
LEMMA GoodEmpty == \A n : GoodParts(<<>>, n)
<1>1. <<>> = [i \in 1 .. 0 |-> <<>>[i]] /\ DOMAIN <<>> = {}
  OBVIOUS
<1>2. IsSeq(<<>>)
  BY <1>1, FunctionIsSeq
<1>3. QED
  BY <1>1, <1>2 DEF GoodParts, Keyed

FormedTree(tree, n) ==
  /\ Keyed(tree, n)
  /\ \A i \in DOMAIN tree : DOMAIN tree[i] = {"id", "parts"} /\ GoodParts(tree[i].parts, n)

\* Other components for one allograph.
LEMMA FormedReplaced ==
  ASSUME NEW n, NEW tree, FormedTree(tree, n), NEW i \in DOMAIN tree, NEW p, GoodParts(p, n)
  PROVE  FormedTree(Replaced(tree, i, p), n)
<1> DEFINE t == Replaced(tree, i, p)
<1>1. t = [tree EXCEPT ![i].parts = p]
  BY DEF Replaced
<1>2. t = [k \in DOMAIN tree |-> t[k]] /\ \A k \in DOMAIN tree : k # i => t[k] = tree[k]
  BY <1>1
<1>3. t[i] = [tree[i] EXCEPT !.parts = p]
  BY <1>1
<1>4. DOMAIN t[i] = {"id", "parts"} /\ t[i].id = tree[i].id /\ t[i].parts = p
  BY <1>3 DEF FormedTree
<1> HIDE DEF t
<1>5. Keyed(t, n)
  BY <1>2, <1>4, KeyedExcept DEF FormedTree
<1>6. FormedTree(t, n)
  BY <1>2, <1>4, <1>5 DEF FormedTree
<1>7. QED
  BY <1>6 DEF t

\* Whatever an editor makes of a well-formed tree is well formed.
LEMMA FormedEdited ==
  ASSUME NEW n \in Nat \ {0}, NEW tree, FormedTree(tree, n), NEW t \in Edited(tree)
  PROVE  FormedTree(t, n)
<1> DEFINE new(c) == [id |-> None, component |-> c, features |-> [f \in catalogue[c] |-> FALSE]]
           bare == [id |-> None, parts |-> <<>>]
           ofParts(p) ==
             {Flipped(p, j, g) : j \in DOMAIN p, g \in Features}
             \cup {Append(p, new(c)) : c \in DOMAIN catalogue}
             \cup {Moved(p, j, c) : j \in DOMAIN p, c \in DOMAIN catalogue}
             \cup {RemoveAt(p, j) : j \in DOMAIN p}
<1>1. t \in {tree, Append(tree, bare)}
            \cup {RemoveAt(tree, i) : i \in DOMAIN tree}
            \cup UNION {{Replaced(tree, i, p) : p \in ofParts(tree[i].parts)} : i \in DOMAIN tree}
  BY DEF Edited
<1>2. \A c : new(c).id = None /\ DOMAIN new(c) = PartFields
  BY DEF PartFields
<1> HIDE DEF ofParts, new
<1>3. ASSUME NEW p, GoodParts(p, n), NEW q \in ofParts(p) PROVE GoodParts(q, n)
  <2>1. \A c : GoodParts(Append(p, new(c)), n)
    BY <1>3, <1>2, KeyedAppended DEF GoodParts
  <2>2. \A j \in DOMAIN p : GoodParts(RemoveAt(p, j), n)
    BY <1>3, KeyedRemoved DEF GoodParts
  <2>3. \A j \in DOMAIN p : (\A g : GoodParts(Flipped(p, j, g), n)) /\ \A c : GoodParts(Moved(p, j, c), n)
    BY <1>3, GoodFlipped, GoodMoved
  <2>4. \/ \E j \in DOMAIN p : \E g : q = Flipped(p, j, g)
        \/ \E j \in DOMAIN p : \E c : q = Moved(p, j, c)
        \/ \E c : q = Append(p, new(c))
        \/ \E j \in DOMAIN p : q = RemoveAt(p, j)
    BY DEF ofParts
  <2>5. QED
    BY <2>1, <2>2, <2>3, <2>4, Zenon
<1>4. CASE t = tree
  BY <1>4
<1>5. CASE t = Append(tree, bare)
  <2>1. bare.id = None /\ bare.parts = <<>> /\ DOMAIN bare = {"id", "parts"}
    OBVIOUS
  <2> HIDE DEF bare
  <2>2. Keyed(t, n) /\ \A i \in DOMAIN t : t[i] = bare \/ \E k \in DOMAIN tree : t[i] = tree[k]
    BY <1>5, <2>1, KeyedAppended DEF FormedTree
  <2>3. QED
    BY <2>1, <2>2, GoodEmpty DEF FormedTree
<1>6. CASE \E i \in DOMAIN tree : t = RemoveAt(tree, i)
  <2>1. Keyed(t, n) /\ \A i \in DOMAIN t : \E k \in DOMAIN tree : t[i] = tree[k]
    BY <1>6, KeyedRemoved DEF FormedTree
  <2>2. QED
    BY <2>1 DEF FormedTree
<1>7. CASE \E i \in DOMAIN tree : \E p \in ofParts(tree[i].parts) : t = Replaced(tree, i, p)
  <2>1. PICK i \in DOMAIN tree : \E p \in ofParts(tree[i].parts) : t = Replaced(tree, i, p)
    BY <1>7
  <2>2. GoodParts(tree[i].parts, n)
    BY DEF FormedTree
  <2>3. QED
    BY <1>3, <2>1, <2>2, FormedReplaced
<1> HIDE DEF bare
<1>8. QED
  BY <1>1, <1>4, <1>5, <1>6, <1>7

-----------------------------------------------------------------------------
(* Chains of updates *)

\* A chain that ends well went well all along.
LEMMA OkAllAlong ==
  ASSUME NEW n \in Nat, NEW c, \A i \in 1 .. n : c[i].ok => c[i - 1].ok, c[n].ok
  PROVE  \A i \in 0 .. n : c[i].ok
<1> DEFINE S == {k \in Nat : k <= n => c[n - k].ok}
<1>1. 0 \in S
  BY n - 0 = n
<1>2. ASSUME NEW k \in Nat, k \in S PROVE k + 1 \in S
  <2> SUFFICES ASSUME k + 1 <= n PROVE c[n - (k + 1)].ok
    OBVIOUS
  <2>1. c[n - k].ok /\ n - k \in 1 .. n /\ (n - k) - 1 = n - (k + 1)
    BY <1>2
  <2>2. c[(n - k) - 1].ok
    BY <2>1
  <2>3. QED
    BY <2>1, <2>2
<1> HIDE DEF S
<1>3. Nat \subseteq S
  BY <1>1, <1>2, Allographs!Induction
<1> SUFFICES ASSUME NEW i \in 0 .. n PROVE c[i].ok
  OBVIOUS
<1>4. n - i \in Nat /\ n - i <= n /\ n - (n - i) = i
  OBVIOUS
<1>5. n - i \in S
  BY <1>3, <1>4
<1>6. QED
  BY <1>4, <1>5 DEF S

\* What holds at the start and is kept by every step holds all along.
LEMMA AllAlong ==
  ASSUME NEW n \in Nat, NEW good, 0 \in good, \A i \in 1 .. n : i - 1 \in good => i \in good
  PROVE  \A i \in 0 .. n : i \in good
<1> DEFINE S == {k \in Nat : k <= n => k \in good}
<1>1. 0 \in S
  OBVIOUS
<1>2. ASSUME NEW k \in Nat, k \in S PROVE k + 1 \in S
  <2> SUFFICES ASSUME k + 1 <= n PROVE k + 1 \in good
    OBVIOUS
  <2>1. k \in good /\ k + 1 \in 1 .. n /\ (k + 1) - 1 = k
    BY <1>2
  <2>2. QED
    BY <2>1
<1> HIDE DEF S
<1>3. Nat \subseteq S
  BY <1>1, <1>2, Allographs!Induction
<1>4. QED
  BY <1>3 DEF S

\* Values put one by one, each in a slot of its own.
Puts(n, f, slot, val) ==
  /\ \A i, j \in 1 .. n : slot[i] = slot[j] => i = j
  /\ \A i \in 1 .. n : f[i] = With(f[i - 1], slot[i], val[i])

AllPut(n, f, slot, val) ==
  /\ DOMAIN f[n] = DOMAIN f[0] \cup {slot[i] : i \in 1 .. n}
  /\ \A i \in 1 .. n : f[n][slot[i]] = val[i]

\* What was put last in each slot is what is there in the end.
LEMMA PutsInOrder ==
  ASSUME NEW n \in Nat, NEW f, NEW slot, NEW val, Puts(n, f, slot, val)
  PROVE  AllPut(n, f, slot, val)
<1> DEFINE good == {k \in 0 .. n :
                      /\ DOMAIN f[k] = DOMAIN f[0] \cup {slot[i] : i \in 1 .. k}
                      /\ \A i \in 1 .. k : f[k][slot[i]] = val[i]}
<1>1. 0 \in good
  <2>1. 1 .. 0 = {}
    OBVIOUS
  <2>2. QED
    BY <2>1
<1>2. ASSUME NEW k \in 1 .. n, k - 1 \in good PROVE k \in good
  <2>1. /\ DOMAIN f[k] = DOMAIN f[k - 1] \cup {slot[k]} /\ f[k][slot[k]] = val[k]
        /\ \A s \in DOMAIN f[k - 1] : s # slot[k] => f[k][s] = f[k - 1][s]
    <3>1. f[k] = With(f[k - 1], slot[k], val[k])
      BY DEF Puts
    <3> DEFINE g == f[k - 1]
               h == f[k]
               x == slot[k]
               v == val[k]
    <3>2. h = With(g, x, v)
      BY <3>1
    <3> HIDE DEF g, h, x, v
    <3>3. /\ DOMAIN h = DOMAIN g \cup {x} /\ h[x] = v
          /\ \A s \in DOMAIN g : s # x => h[s] = g[s]
      BY <3>2 DEF With
    <3>4. QED
      BY <3>3, Zenon DEF g, h, x, v
  <2>2. 1 .. k = (1 .. k - 1) \cup {k} /\ 1 .. k \subseteq 1 .. n
    OBVIOUS
  <2>3. DOMAIN f[k - 1] = DOMAIN f[0] \cup {slot[i] : i \in 1 .. k - 1}
    BY <1>2
  <2>4. DOMAIN f[k] = DOMAIN f[0] \cup {slot[i] : i \in 1 .. k}
    BY <2>1, <2>2, <2>3
  <2>5. ASSUME NEW i \in 1 .. k PROVE f[k][slot[i]] = val[i]
    <3>1. CASE i = k
      BY <2>1, <3>1
    <3>2. CASE i \in 1 .. k - 1
      <4>1. slot[i] \in DOMAIN f[k - 1] /\ slot[i] # slot[k]
        BY <2>2, <2>3, <3>2 DEF Puts
      <4>2. f[k - 1][slot[i]] = val[i]
        BY <1>2, <3>2
      <4>3. QED
        BY <2>1, <4>1, <4>2
    <3>3. QED
      BY <2>2, <3>1, <3>2
  <2>6. QED
    BY <2>4, <2>5
<1> HIDE DEF good
<1>3. n \in good
  BY <1>1, <1>2, AllAlong
<1>4. QED
  BY <1>3 DEF good, AllPut

\* Keys that are taken from a growing sequence are new.
Slots(n, ids, next, slot, low) ==
  /\ \A i \in 1 .. n : ids[i] \in 0 .. low - 1
  /\ \A i, j \in 1 .. n : ids[i] = ids[j] /\ ids[i] # None => i = j
  /\ next[0] \in Nat /\ low <= next[0]
  /\ \A i \in 1 .. n : next[i - 1] \in Nat => next[i] \in Nat /\ next[i - 1] < next[i]
  /\ \A i \in 1 .. n : slot[i] = IF ids[i] = None THEN next[i - 1] ELSE ids[i]

Distinct(n, next, slot) ==
  /\ \A i, j \in 1 .. n : slot[i] = slot[j] => i = j
  /\ next[n] \in Nat /\ next[0] <= next[n]
  /\ \A i \in 1 .. n : slot[i] \in 1 .. next[n] - 1

\* Slots are distinct: those submitted are, those drawn are new.
LEMMA NewSlots ==
  ASSUME NEW n \in Nat, NEW ids, NEW next, NEW slot, NEW low \in Nat \ {0},
         Slots(n, ids, next, slot, low)
  PROVE  Distinct(n, next, slot)
<1> USE DEF Slots
<1> DEFINE good == {k \in 0 .. n : next[k] \in Nat /\ \A i \in 0 .. k :
                      next[i] \in Nat /\ next[0] <= next[i] /\ (i < k => next[i] < next[k])}
<1>1. 0 \in good
  OBVIOUS
<1>2. ASSUME NEW k \in 1 .. n, k - 1 \in good PROVE k \in good
  <2>1. next[k - 1] \in Nat /\ next[k] \in Nat /\ next[k - 1] < next[k]
    BY <1>2
  <2>2. 0 .. k = (0 .. k - 1) \cup {k}
    OBVIOUS
  <2>3. ASSUME NEW i \in 0 .. k - 1
        PROVE  next[i] \in Nat /\ next[0] <= next[i] /\ next[i] < next[k]
    <3>1. next[i] \in Nat /\ next[0] <= next[i] /\ (i < k - 1 => next[i] < next[k - 1])
      BY <1>2
    <3>2. i < k - 1 \/ i = k - 1
      OBVIOUS
    <3>3. QED
      BY <2>1, <3>1, <3>2
  <2>4. next[0] <= next[k]
    <3>1. 0 \in 0 .. k - 1
      OBVIOUS
    <3>2. QED
      BY <2>1, <2>3, <3>1
  <2>5. k \in 0 .. n
    OBVIOUS
  <2>6. QED
    BY <2>1, <2>2, <2>3, <2>4, <2>5
<1> HIDE DEF good
<1>3. \A k \in 0 .. n : k \in good
  BY <1>1, <1>2, AllAlong
<1>4. \A i, k \in 0 .. n : next[i] \in Nat /\ next[0] <= next[i] /\ (i < k => next[i] < next[k])
  BY <1>3 DEF good
<1>5. ASSUME NEW i \in 1 .. n, NEW j \in 1 .. n, slot[i] = slot[j] PROVE i = j
  <2>1. i - 1 \in 0 .. n /\ j - 1 \in 0 .. n
    OBVIOUS
  <2>2. CASE ids[i] = None /\ ids[j] = None
    <3>1. next[i - 1] = next[j - 1]
      BY <1>5, <2>2
    <3>2. ~(i - 1 < j - 1) /\ ~(j - 1 < i - 1)
      BY <1>4, <2>1, <3>1
    <3>3. QED
      BY <3>2
  <2>3. CASE ids[i] # None /\ ids[j] # None
    BY <1>5, <2>3
  <2>4. CASE ids[i] = None /\ ids[j] # None
    BY <1>4, <1>5, <2>1, <2>4
  <2>5. CASE ids[i] # None /\ ids[j] = None
    BY <1>4, <1>5, <2>1, <2>5
  <2>6. QED
    BY <2>2, <2>3, <2>4, <2>5
<1>6. ASSUME NEW i \in 1 .. n PROVE slot[i] \in 1 .. next[n] - 1
  <2>1. i - 1 \in 0 .. n /\ n \in 0 .. n /\ i - 1 < n /\ 0 \in 0 .. n /\ 0 < n
    OBVIOUS
  <2>2. next[i - 1] < next[n] /\ next[0] < next[n] /\ next[0] <= next[i - 1]
        /\ next[i - 1] \in Nat /\ next[n] \in Nat
    BY <1>4, <2>1
  <2>3. CASE ids[i] = None
    BY <2>2, <2>3
  <2>4. CASE ids[i] # None
    BY <2>2, <2>4 DEF None
  <2>5. QED
    BY <2>3, <2>4
<1>7. QED
  BY <1>4, <1>5, <1>6 DEF Distinct

-----------------------------------------------------------------------------
(* One component, and those of one allograph *)

Row(part) == [component |-> part.component, features |-> part.features]
Rows(q) == {Row(q[j]) : j \in DOMAIN q}

GoodRows(p) ==
  /\ p = [s \in DOMAIN p |-> p[s]]
  /\ \A s \in DOMAIN p : p[s].component \in DOMAIN catalogue
  /\ \A s, t \in DOMAIN p : p[s].component = p[t].component => s = t

Slot(s, item) == IF item.id = None THEN s.next ELSE item.id

PartState == {"ok", "next", "parts"}
AllographState == {"ok", "next", "forms"}

\* One component is put where it goes, or the save is refused.
LEMMA PutPartStep ==
  ASSUME NEW s, DOMAIN s = PartState, NEW part
  PROVE  LET t == PutPart(s, part)
         IN /\ DOMAIN t = PartState
            /\ t.ok <=> /\ s.ok /\ (part.id # None => part.id \in DOMAIN s.parts)
                        /\ part.component \in DOMAIN catalogue
                        /\ \A o \in DOMAIN s.parts \ {Slot(s, part)} :
                             s.parts[o].component # part.component
            /\ t.ok => /\ t.next = s.next + 1
                       /\ t.parts = With(s.parts, Slot(s, part), Row(part))
<1> DEFINE t == PutPart(s, part)
           slot == Slot(s, part)
           bad == \/ ~s.ok
                  \/ part.id # None /\ slot \notin DOMAIN s.parts
                  \/ part.component \notin DOMAIN catalogue
                  \/ \E o \in DOMAIN s.parts \ {slot} : s.parts[o].component = part.component
           done == [s EXCEPT !.next = s.next + 1, !.parts = With(s.parts, slot, Row(part))]
<1>1. t = IF bad THEN [s EXCEPT !.ok = FALSE] ELSE done
  BY Zenon DEF PutPart, Slot, Row, Refused
<1>2. slot = Slot(s, part) /\ (part.id # None => slot = part.id)
  BY DEF Slot
<1> HIDE DEF slot, t
<1>3. CASE bad
  <2>1. t = [s EXCEPT !.ok = FALSE]
    BY <1>1, <1>3
  <2>2. DOMAIN t = PartState /\ ~t.ok
    BY <2>1 DEF PartState
  <2>3. QED
    BY <1>2, <1>3, <2>2 DEF t
<1>4. CASE ~bad
  <2>1. t = done
    BY <1>1, <1>4
  <2> DEFINE w == With(s.parts, slot, Row(part))
  <2> HIDE DEF w
  <2>2. t = [s EXCEPT !.next = s.next + 1, !.parts = w]
    BY <2>1 DEF w
  <2>3. DOMAIN t = PartState /\ t.ok = s.ok /\ t.next = s.next + 1 /\ t.parts = w
    BY <2>2 DEF PartState
  <2>4. QED
    BY <1>2, <1>4, <2>3 DEF t, w
<1>5. QED
  BY <1>3, <1>4

\* A row whose component the allograph has nowhere else may be put.
LEMMA GoodRowsWith ==
  ASSUME NEW p, GoodRows(p), NEW slot, NEW row, row.component \in DOMAIN catalogue,
         \A o \in DOMAIN p \ {slot} : p[o].component # row.component
  PROVE  GoodRows(With(p, slot, row))
<1> DEFINE w == With(p, slot, row)
<1>1. DOMAIN w = DOMAIN p \cup {slot} /\ w[slot] = row
      /\ \A s \in DOMAIN p : s # slot => w[s] = p[s]
  BY DEF With
<1>2. w = [s \in DOMAIN w |-> w[s]]
  BY DEF With
<1> HIDE DEF w
<1>3. GoodRows(w)
  BY <1>1, <1>2 DEF GoodRows
<1>4. QED
  BY <1>3 DEF w

PartsFolded(next, p, q) ==
  FoldLeft(PutPart, [ok |-> TRUE, next |-> next, parts |-> p], q)

\* All components of one allograph: its rows are those submitted, in slots
\* below the next key, and no component is there twice.
LEMMA PartsPut ==
  ASSUME NEW low \in Nat \ {0}, NEW q, Keyed(q, low), NEW next \in Nat, low <= next,
         NEW p, DOMAIN p \subseteq 1 .. next - 1,
         \A s \in DOMAIN p : \E j \in DOMAIN q : q[j].id = s,
         NEW put, put = PartsFolded(next, p, q), put.ok
  PROVE  /\ put.next \in Nat /\ next <= put.next
         /\ DOMAIN put.parts \subseteq 1 .. put.next - 1
         /\ {put.parts[s] : s \in DOMAIN put.parts} = Rows(q)
         /\ GoodRows(p) => GoodRows(put.parts)
<1> DEFINE n == Len(q)
           base == [ok |-> TRUE, next |-> next, parts |-> p]
<1>1. n \in Nat /\ DOMAIN q = 1 .. n
  BY Positions DEF Keyed
<1> HIDE DEF n
<1>2. PICK c : PartsChain(c, base, q, n, put)
  <2>1. \E c : PartsChain(c, base, q, n, FoldLeft(PutPart, base, q))
    BY <1>1, ChainOfParts
  <2>2. QED
    BY <2>1, Zenon DEF PartsFolded
<1>3. c[0] = base /\ put = c[n] /\ \A i \in 1 .. n : c[i] = PutPart(c[i - 1], q[i])
  BY <1>2, Zenon DEF PartsChain
<1>4. c[0].ok /\ c[0].next = next /\ c[0].parts = p /\ DOMAIN c[0] = PartState
  BY <1>3 DEF PartState
<1> HIDE DEF base
<1>5. \A i \in 0 .. n : DOMAIN c[i] = PartState
  <2> DEFINE good == {i \in 0 .. n : DOMAIN c[i] = PartState}
  <2>1. 0 \in good
    BY <1>1, <1>4
  <2>2. ASSUME NEW i \in 1 .. n, i - 1 \in good PROVE i \in good
    <3>1. c[i] = PutPart(c[i - 1], q[i]) /\ DOMAIN c[i - 1] = PartState
      BY <1>3, <2>2
    <3>2. DOMAIN PutPart(c[i - 1], q[i]) = PartState
      BY <3>1, PutPartStep
    <3>3. QED
      BY <1>1, <3>1, <3>2
  <2> HIDE DEF good
  <2>3. \A i \in 0 .. n : i \in good
    BY <1>1, <2>1, <2>2, AllAlong
  <2>4. QED
    BY <2>3 DEF good
<1>6. ASSUME NEW i \in 1 .. n
      PROVE  /\ c[i].ok => c[i - 1].ok
             /\ c[i].ok => /\ q[i].component \in DOMAIN catalogue
                           /\ \A o \in DOMAIN c[i - 1].parts \ {Slot(c[i - 1], q[i])} :
                                c[i - 1].parts[o].component # q[i].component
                           /\ c[i].next = c[i - 1].next + 1
                           /\ c[i].parts = With(c[i - 1].parts, Slot(c[i - 1], q[i]), Row(q[i]))
  <2>1. DOMAIN c[i - 1] = PartState /\ c[i] = PutPart(c[i - 1], q[i])
    BY <1>1, <1>3, <1>5
  <2> DEFINE s == c[i - 1]
             t == c[i]
             part == q[i]
  <2>2. DOMAIN s = PartState /\ t = PutPart(s, part)
    BY <2>1
  <2> HIDE DEF s, t, part
  <2>3. /\ t.ok => s.ok
        /\ t.ok => /\ part.component \in DOMAIN catalogue
                   /\ \A o \in DOMAIN s.parts \ {Slot(s, part)} :
                        s.parts[o].component # part.component
                   /\ t.next = s.next + 1
                   /\ t.parts = With(s.parts, Slot(s, part), Row(part))
    BY <2>2, PutPartStep
  <2>4. QED
    BY <2>3, Zenon DEF s, t, part
<1>7. \A i \in 0 .. n : c[i].ok
  BY <1>1, <1>3, <1>6, OkAllAlong
<1> DEFINE f == [i \in 0 .. n |-> c[i].parts]
           nx == [i \in 0 .. n |-> c[i].next]
           ids == [i \in 1 .. n |-> q[i].id]
           slot == [i \in 1 .. n |-> Slot(c[i - 1], q[i])]
           val == [i \in 1 .. n |-> Row(q[i])]
<1>8. ASSUME NEW i \in 1 .. n
      PROVE  /\ i \in 0 .. n /\ i - 1 \in 0 .. n
             /\ f[i] = With(f[i - 1], slot[i], val[i])
             /\ nx[i - 1] \in Nat => nx[i] \in Nat /\ nx[i - 1] < nx[i]
             /\ slot[i] = IF ids[i] = None THEN nx[i - 1] ELSE ids[i]
             /\ ids[i] \in 0 .. low - 1
             /\ \A j \in 1 .. n : ids[i] = ids[j] /\ ids[i] # None => i = j
  <2>1. i \in 0 .. n /\ i - 1 \in 0 .. n /\ c[i].ok
    BY <1>1, <1>7
  <2>2. c[i].next = c[i - 1].next + 1 /\ c[i].parts = With(c[i - 1].parts, Slot(c[i - 1], q[i]), Row(q[i]))
    BY <1>6, <2>1
  <2>3. nx[i] = nx[i - 1] + 1
    BY <2>1, <2>2
  <2>4. f[i] = With(f[i - 1], slot[i], val[i])
    BY <2>1, <2>2
  <2>5. slot[i] = IF ids[i] = None THEN nx[i - 1] ELSE ids[i]
    BY <2>1 DEF Slot
  <2>6. QED
    BY <1>1, <2>1, <2>3, <2>4, <2>5 DEF Keyed
<1>9. f[0] = p /\ nx[0] = next /\ f[n] = put.parts /\ nx[n] = put.next
  BY <1>1, <1>3, <1>4
<1>10. \A i \in 1 .. n : val[i] = Row(q[i]) /\ ids[i] = q[i].id
  OBVIOUS
<1> HIDE DEF f, nx, ids, slot, val
<1>11. Slots(n, ids, nx, slot, low)
  BY <1>8, <1>9 DEF Slots
<1>12. Distinct(n, nx, slot)
  BY <1>1, <1>11, NewSlots
<1>13. /\ \A i, j \in 1 .. n : slot[i] = slot[j] => i = j
       /\ nx[n] \in Nat /\ nx[0] <= nx[n]
       /\ \A i \in 1 .. n : slot[i] \in 1 .. nx[n] - 1
  BY <1>12 DEF Distinct
<1>14. Puts(n, f, slot, val)
  BY <1>8, <1>13 DEF Puts
<1>15. /\ DOMAIN f[n] = DOMAIN f[0] \cup {slot[i] : i \in 1 .. n}
       /\ \A i \in 1 .. n : f[n][slot[i]] = val[i]
  <2>1. AllPut(n, f, slot, val)
    BY <1>1, <1>14, PutsInOrder
  <2>2. QED
    BY <2>1 DEF AllPut
<1>16. DOMAIN f[n] = {slot[i] : i \in 1 .. n}
  <2>1. ASSUME NEW s \in DOMAIN p PROVE \E i \in 1 .. n : s = slot[i]
    <3>1. PICK j \in 1 .. n : q[j].id = s
      BY <1>1
    <3>2. s # None
      BY DEF None
    <3>3. slot[j] = s
      BY <1>8, <1>10, <3>1, <3>2
    <3>4. QED
      BY <3>3
  <2>2. QED
    BY <1>9, <1>15, <2>1
<1>17. {put.parts[s] : s \in DOMAIN put.parts} = Rows(q)
  <2>1. {f[n][s] : s \in DOMAIN f[n]} = {val[i] : i \in 1 .. n}
    BY <1>15, <1>16
  <2>2. Rows(q) = {val[i] : i \in 1 .. n}
    BY <1>1, <1>10 DEF Rows
  <2>3. {put.parts[s] : s \in DOMAIN put.parts} = {f[n][s] : s \in DOMAIN f[n]}
    <3> DEFINE g == f[n]
               h == put.parts
    <3>1. g = h
      BY <1>9
    <3> HIDE DEF g, h
    <3>2. {h[s] : s \in DOMAIN h} = {g[s] : s \in DOMAIN g}
      BY <3>1
    <3>3. QED
      BY <3>2, Zenon DEF g, h
  <2>4. QED
    BY <2>1, <2>2, <2>3, Zenon
<1>18. GoodRows(p) => GoodRows(put.parts)
  <2> SUFFICES ASSUME GoodRows(p) PROVE GoodRows(put.parts)
    OBVIOUS
  <2> DEFINE good == {i \in 0 .. n : GoodRows(c[i].parts)}
  <2>1. 0 \in good
    BY <1>1, <1>4
  <2>2. ASSUME NEW i \in 1 .. n, i - 1 \in good PROVE i \in good
    <3>1. i \in 0 .. n /\ c[i].ok
      BY <1>1, <1>7
    <3>2. Row(q[i]).component = q[i].component
      BY DEF Row
    <3>3. GoodRows(With(c[i - 1].parts, Slot(c[i - 1], q[i]), Row(q[i])))
      BY <1>6, <2>2, <3>1, <3>2, GoodRowsWith
    <3>4. QED
      BY <1>6, <3>1, <3>3
  <2> HIDE DEF good
  <2>3. n \in good
    <3>1. \A i \in 0 .. n : i \in good
      BY <1>1, <2>1, <2>2, AllAlong
    <3>2. QED
      BY <1>1, <3>1
  <2>4. QED
    BY <1>3, <2>3 DEF good
<1>19. DOMAIN put.parts \subseteq 1 .. put.next - 1
  <2>1. DOMAIN f[n] \subseteq 1 .. nx[n] - 1
    BY <1>13, <1>16
  <2>2. QED
    BY <1>9, <2>1, Zenon
<1>20. QED
  BY <1>9, <1>13, <1>17, <1>18, <1>19

-----------------------------------------------------------------------------
(* One allograph, and all of them *)

RowsIn(p) == {p[s] : s \in DOMAIN p}
RowsOf(tree) == {Rows(tree[i].parts) : i \in DOMAIN tree}

GoodForms(f, next) ==
  /\ next \in Nat \ {0}
  /\ DOMAIN f \subseteq 1 .. next - 1
  /\ \A a \in DOMAIN f : DOMAIN f[a] \subseteq 1 .. next - 1 /\ GoodRows(f[a])

Kept(s, item) ==
  Only(IF item.id = None THEN <<>> ELSE s.forms[Slot(s, item)],
       {item.parts[j].id : j \in DOMAIN item.parts})
PutOf(s, item) ==
  FoldLeft(PutPart, [ok |-> TRUE, next |-> s.next + 1, parts |-> Kept(s, item)], item.parts)

\* One allograph is put where it goes, or the save is refused.
LEMMA PutAllographStep ==
  ASSUME NEW s, DOMAIN s = AllographState, NEW item
  PROVE  LET t == PutAllograph(s, item)
         IN /\ DOMAIN t = AllographState
            /\ t.ok <=> /\ s.ok /\ (item.id # None => item.id \in DOMAIN s.forms)
                        /\ PutOf(s, item).ok
            /\ t.ok => /\ t.next = PutOf(s, item).next
                       /\ t.forms = With(s.forms, Slot(s, item), PutOf(s, item).parts)
<1> DEFINE t == PutAllograph(s, item)
           slot == Slot(s, item)
           put == PutOf(s, item)
           bad == ~s.ok \/ (item.id # None /\ slot \notin DOMAIN s.forms)
<1>1. t = IF bad THEN [s EXCEPT !.ok = FALSE]
          ELSE [ok |-> put.ok, next |-> put.next, forms |-> With(s.forms, slot, put.parts)]
  BY Zenon DEF PutAllograph, Slot, PutOf, Kept, Refused
<1>2. slot = Slot(s, item) /\ (item.id # None => slot = item.id) /\ put = PutOf(s, item)
  BY DEF Slot
<1> HIDE DEF slot, t, put
<1>3. CASE bad
  <2>1. t = [s EXCEPT !.ok = FALSE]
    BY <1>1, <1>3
  <2>2. DOMAIN t = AllographState /\ ~t.ok
    BY <2>1 DEF AllographState
  <2>3. QED
    BY <1>2, <1>3, <2>2 DEF t
<1>4. CASE ~bad
  <2> DEFINE w == With(s.forms, slot, put.parts)
  <2> HIDE DEF w
  <2>1. t = [ok |-> put.ok, next |-> put.next, forms |-> w]
    BY <1>1, <1>4 DEF w
  <2>2. DOMAIN t = AllographState /\ t.ok = put.ok /\ t.next = put.next /\ t.forms = w
    BY <2>1 DEF AllographState
  <2>3. t.ok <=> put.ok
    BY <2>2
  <2>4. QED
    BY <1>2, <1>4, <2>2, <2>3 DEF t, w
<1>5. QED
  BY <1>3, <1>4

\* The components of an allograph that a save starts from.
LEMMA KeptIs ==
  ASSUME NEW s, NEW item, GoodForms(s.forms, s.next),
         item.id # None => item.id \in DOMAIN s.forms
  PROVE  /\ DOMAIN Kept(s, item) \subseteq 1 .. (s.next + 1) - 1
         /\ \A r \in DOMAIN Kept(s, item) : \E j \in DOMAIN item.parts : item.parts[j].id = r
         /\ GoodRows(Kept(s, item))
<1> DEFINE ids == {item.parts[j].id : j \in DOMAIN item.parts}
           old == IF item.id = None THEN <<>> ELSE s.forms[Slot(s, item)]
           k == Kept(s, item)
<1>1. DOMAIN old \subseteq 1 .. s.next - 1 /\ GoodRows(old)
  <2>1. CASE item.id = None
    <3>1. old = <<>> /\ DOMAIN <<>> = {} /\ <<>> = [r \in {} |-> <<>>[r]]
      BY <2>1
    <3>2. QED
      BY <3>1 DEF GoodRows
  <2>2. CASE item.id # None
    <3>1. old = s.forms[item.id] /\ item.id \in DOMAIN s.forms
      BY <2>2 DEF Slot
    <3>2. QED
      BY <3>1 DEF GoodForms
  <2>3. QED
    BY <2>1, <2>2
<1>2. k = Only(old, ids)
  BY DEF Kept
<1> HIDE DEF old, ids, k
<1>3. /\ DOMAIN k = DOMAIN old \cap ids /\ \A r \in DOMAIN k : k[r] = old[r]
      /\ k = [r \in DOMAIN k |-> k[r]]
  BY <1>2 DEF Only
<1>4. s.next \in Nat
  BY DEF GoodForms
<1>5. DOMAIN k \subseteq 1 .. (s.next + 1) - 1
  BY <1>1, <1>3, <1>4
<1>6. GoodRows(k)
  BY <1>1, <1>3 DEF GoodRows
<1>7. \A r \in DOMAIN k : \E j \in DOMAIN item.parts : item.parts[j].id = r
  BY <1>3 DEF ids
<1>8. QED
  BY <1>5, <1>6, <1>7 DEF k

\* One allograph: its rows are those submitted, the others stay.
LEMMA OneAllographPut ==
  ASSUME NEW low \in Nat \ {0}, NEW s, DOMAIN s = AllographState, low <= s.next,
         GoodForms(s.forms, s.next), NEW item, Keyed(item.parts, low), item.id \in 0 .. low - 1,
         NEW t, t = PutAllograph(s, item), t.ok
  PROVE  /\ s.ok
         /\ t.next \in Nat /\ s.next < t.next
         /\ t.forms = With(s.forms, Slot(s, item), PutOf(s, item).parts)
         /\ RowsIn(PutOf(s, item).parts) = Rows(item.parts)
         /\ GoodForms(t.forms, t.next)
<1> DEFINE put == PutOf(s, item)
           slot == Slot(s, item)
           next == s.next + 1
           k == Kept(s, item)
<1>1. /\ s.ok /\ (item.id # None => item.id \in DOMAIN s.forms) /\ put.ok
      /\ t.next = put.next /\ t.forms = With(s.forms, slot, put.parts)
  BY PutAllographStep
<1>2. next \in Nat /\ low <= next /\ s.next \in Nat
  BY DEF GoodForms
<1>3. /\ DOMAIN k \subseteq 1 .. next - 1
      /\ \A r \in DOMAIN k : \E j \in DOMAIN item.parts : item.parts[j].id = r
      /\ GoodRows(k)
  BY <1>1, KeptIs
<1>4. put = PartsFolded(next, k, item.parts)
  BY Zenon DEF PutOf, PartsFolded
<1>5. slot \in 1 .. s.next
  <2>1. CASE item.id = None
    BY <1>2, <2>1 DEF Slot
  <2>2. CASE item.id # None
    BY <1>2, <2>2 DEF Slot, None
  <2>3. QED
    BY <2>1, <2>2
<1>6. 1 .. next - 1 = 1 .. s.next /\ next = s.next + 1
  BY <1>2
<1> HIDE DEF next, k, put, slot
<1>7. /\ put.next \in Nat /\ next <= put.next
      /\ DOMAIN put.parts \subseteq 1 .. put.next - 1
      /\ {put.parts[r] : r \in DOMAIN put.parts} = Rows(item.parts)
      /\ GoodRows(k) => GoodRows(put.parts)
  BY <1>1, <1>2, <1>3, <1>4, PartsPut
<1>8. s.next < t.next /\ t.next \in Nat
  BY <1>1, <1>2, <1>7, <1>6
<1>9. /\ DOMAIN t.forms = DOMAIN s.forms \cup {slot} /\ t.forms[slot] = put.parts
      /\ \A a \in DOMAIN s.forms : a # slot => t.forms[a] = s.forms[a]
  <2> DEFINE f == s.forms
             g == t.forms
             v == put.parts
  <2>1. g = With(f, slot, v)
    BY <1>1
  <2> HIDE DEF f, g, v
  <2>2. DOMAIN g = DOMAIN f \cup {slot} /\ g[slot] = v /\ \A a \in DOMAIN f : a # slot => g[a] = f[a]
    BY <2>1 DEF With
  <2>3. QED
    BY <2>2, Zenon DEF f, g, v
<1>10. 1 .. s.next - 1 \subseteq 1 .. t.next - 1 /\ slot \in 1 .. t.next - 1
  BY <1>2, <1>5, <1>8
<1>11. GoodForms(t.forms, t.next)
  <2>1. t.next \in Nat \ {0}
    BY <1>2, <1>8
  <2>2. DOMAIN t.forms \subseteq 1 .. t.next - 1
    BY <1>9, <1>10 DEF GoodForms
  <2>3. ASSUME NEW a \in DOMAIN t.forms
        PROVE  DOMAIN t.forms[a] \subseteq 1 .. t.next - 1 /\ GoodRows(t.forms[a])
    <3>1. CASE a = slot
      <4>1. t.forms[a] = put.parts
        BY <1>9, <3>1
      <4>2. DOMAIN put.parts \subseteq 1 .. t.next - 1 /\ GoodRows(put.parts)
        BY <1>1, <1>3, <1>7
      <4>3. QED
        BY <4>1, <4>2
    <3>2. CASE a # slot
      <4>1. a \in DOMAIN s.forms /\ t.forms[a] = s.forms[a]
        BY <1>9, <3>2
      <4>2. DOMAIN s.forms[a] \subseteq 1 .. s.next - 1 /\ GoodRows(s.forms[a])
        BY <4>1 DEF GoodForms
      <4>3. QED
        BY <1>10, <4>1, <4>2
    <3>3. QED
      BY <3>1, <3>2
  <2>4. QED
    BY <2>1, <2>2, <2>3 DEF GoodForms
<1>12. RowsIn(put.parts) = Rows(item.parts)
  BY <1>7 DEF RowsIn
<1>13. QED
  BY <1>1, <1>8, <1>11, <1>12 DEF put, slot

AllographsFolded(ok, next, f, tree) ==
  FoldLeft(PutAllograph, [ok |-> ok, next |-> next, forms |-> f], tree)

\* All allographs: the rows are those of the tree, allograph by allograph.
LEMMA AllographsPut ==
  ASSUME NEW low \in Nat \ {0}, NEW tree, FormedTree(tree, low), NEW next, low <= next,
         NEW f0, GoodForms(f0, next), \A a \in DOMAIN f0 : \E i \in DOMAIN tree : tree[i].id = a,
         NEW ok, NEW s, s = AllographsFolded(ok, next, f0, tree),
         s.ok
  PROVE  /\ ok
         /\ next <= s.next /\ GoodForms(s.forms, s.next)
         /\ DOMAIN f0 \subseteq DOMAIN s.forms
         /\ {RowsIn(s.forms[a]) : a \in DOMAIN s.forms} = RowsOf(tree)
<1> DEFINE n == Len(tree)
           base == [ok |-> ok, next |-> next, forms |-> f0]
<1>1. n \in Nat /\ DOMAIN tree = 1 .. n
  BY Positions DEF FormedTree, Keyed
<1> HIDE DEF n
<1>2. PICK c : AllographsChain(c, base, tree, n, s)
  <2>1. \E c : AllographsChain(c, base, tree, n, FoldLeft(PutAllograph, base, tree))
    BY <1>1, ChainOfAllographs
  <2>2. QED
    BY <2>1, Zenon DEF AllographsFolded
<1>3. c[0] = base /\ s = c[n] /\ \A i \in 1 .. n : c[i] = PutAllograph(c[i - 1], tree[i])
  BY <1>2, Zenon DEF AllographsChain
<1>4. c[0].ok = ok /\ c[0].next = next /\ c[0].forms = f0 /\ DOMAIN c[0] = AllographState
  BY <1>3 DEF AllographState
<1> HIDE DEF base
<1>5. \A i \in 0 .. n : DOMAIN c[i] = AllographState
  <2> DEFINE good == {i \in 0 .. n : DOMAIN c[i] = AllographState}
  <2>1. 0 \in good
    BY <1>1, <1>4
  <2>2. ASSUME NEW i \in 1 .. n, i - 1 \in good PROVE i \in good
    <3>1. c[i] = PutAllograph(c[i - 1], tree[i]) /\ DOMAIN c[i - 1] = AllographState
      BY <1>3, <2>2
    <3>2. DOMAIN PutAllograph(c[i - 1], tree[i]) = AllographState
      BY <3>1, PutAllographStep
    <3>3. QED
      BY <1>1, <3>1, <3>2
  <2> HIDE DEF good
  <2>3. \A i \in 0 .. n : i \in good
    BY <1>1, <2>1, <2>2, AllAlong
  <2>4. QED
    BY <2>3 DEF good
<1>6. \A i \in 0 .. n : c[i].ok
  <2>1. ASSUME NEW i \in 1 .. n, c[i].ok PROVE c[i - 1].ok
    <3> DEFINE x == c[i - 1]
               y == c[i]
    <3>1. y = PutAllograph(x, tree[i]) /\ DOMAIN x = AllographState /\ y.ok
      BY <1>1, <1>3, <1>5, <2>1
    <3> HIDE DEF x, y
    <3>2. x.ok
      BY <3>1, PutAllographStep
    <3>3. QED
      BY <3>2 DEF x
  <2>2. QED
    BY <1>1, <1>3, <2>1, OkAllAlong
<1> DEFINE Good(x) == GoodForms(x.forms, x.next) /\ next <= x.next
<1>7. ASSUME NEW i \in 1 .. n, Good(c[i - 1])
      PROVE  /\ c[i - 1].next \in Nat /\ c[i].next \in Nat /\ c[i - 1].next < c[i].next
             /\ c[i].forms = With(c[i - 1].forms, Slot(c[i - 1], tree[i]), PutOf(c[i - 1], tree[i]).parts)
             /\ RowsIn(PutOf(c[i - 1], tree[i]).parts) = Rows(tree[i].parts)
             /\ Good(c[i])
  <2> DEFINE x == c[i - 1]
             y == c[i]
             item == tree[i]
  <2>1. /\ y = PutAllograph(x, item) /\ DOMAIN x = AllographState /\ y.ok
        /\ GoodForms(x.forms, x.next) /\ next <= x.next
    BY <1>1, <1>3, <1>5, <1>6, <1>7
  <2>2. Keyed(item.parts, low) /\ item.id \in 0 .. low - 1
    BY <1>1 DEF FormedTree, GoodParts, Keyed
  <2> HIDE DEF x, y, item
  <2>3. x.next \in Nat /\ next \in Nat /\ low <= x.next
    BY <2>1 DEF GoodForms
  <2>4. /\ y.next \in Nat /\ x.next < y.next
        /\ y.forms = With(x.forms, Slot(x, item), PutOf(x, item).parts)
        /\ RowsIn(PutOf(x, item).parts) = Rows(item.parts)
        /\ GoodForms(y.forms, y.next)
    BY <2>1, <2>2, <2>3, OneAllographPut
  <2>5. next <= y.next
    BY <2>1, <2>3, <2>4
  <2>6. QED
    BY <2>3, <2>4, <2>5 DEF x, y, item
<1>8. \A i \in 0 .. n : Good(c[i])
  <2> DEFINE good == {i \in 0 .. n : Good(c[i])}
  <2>1. 0 \in good
    <3>1. Good(c[0])
      BY <1>4 DEF GoodForms
    <3>2. QED
      BY <1>1, <3>1
  <2>2. ASSUME NEW i \in 1 .. n, i - 1 \in good PROVE i \in good
    BY <1>1, <1>7, <2>2
  <2> HIDE DEF good
  <2>3. \A i \in 0 .. n : i \in good
    BY <1>1, <2>1, <2>2, AllAlong
  <2>4. QED
    BY <2>3 DEF good
<1> HIDE DEF Good
<1> DEFINE f == [i \in 0 .. n |-> c[i].forms]
           nx == [i \in 0 .. n |-> c[i].next]
           ids == [i \in 1 .. n |-> tree[i].id]
           slot == [i \in 1 .. n |-> Slot(c[i - 1], tree[i])]
           val == [i \in 1 .. n |-> PutOf(c[i - 1], tree[i]).parts]
<1>9. ASSUME NEW i \in 1 .. n
      PROVE  /\ f[i] = With(f[i - 1], slot[i], val[i])
             /\ nx[i - 1] \in Nat => nx[i] \in Nat /\ nx[i - 1] < nx[i]
             /\ slot[i] = IF ids[i] = None THEN nx[i - 1] ELSE ids[i]
             /\ ids[i] \in 0 .. low - 1
             /\ \A j \in 1 .. n : ids[i] = ids[j] /\ ids[i] # None => i = j
             /\ RowsIn(val[i]) = Rows(tree[i].parts)
  <2>1. i \in 0 .. n /\ i - 1 \in 0 .. n /\ Good(c[i - 1])
    BY <1>1, <1>8
  <2>2. /\ c[i - 1].next < c[i].next /\ c[i].next \in Nat
        /\ c[i].forms = With(c[i - 1].forms, Slot(c[i - 1], tree[i]), PutOf(c[i - 1], tree[i]).parts)
        /\ RowsIn(PutOf(c[i - 1], tree[i]).parts) = Rows(tree[i].parts)
    BY <1>7, <2>1
  <2>3. nx[i - 1] < nx[i] /\ nx[i] \in Nat
    BY <2>1, <2>2
  <2>4. f[i] = With(f[i - 1], slot[i], val[i])
    BY <2>1, <2>2
  <2>5. slot[i] = IF ids[i] = None THEN nx[i - 1] ELSE ids[i]
    BY <2>1 DEF Slot
  <2>6. RowsIn(val[i]) = Rows(tree[i].parts)
    BY <2>2
  <2>7. QED
    BY <1>1, <2>3, <2>4, <2>5, <2>6 DEF FormedTree, Keyed
<1>10. f[0] = f0 /\ nx[0] = next /\ f[n] = s.forms /\ nx[n] = s.next
  BY <1>1, <1>3, <1>4
<1>11. \A i \in 1 .. n : ids[i] = tree[i].id
  OBVIOUS
<1> HIDE DEF f, nx, ids, slot, val
<1>12. Slots(n, ids, nx, slot, low)
  BY <1>9, <1>10 DEF Slots, GoodForms
<1>13. Distinct(n, nx, slot)
  BY <1>1, <1>12, NewSlots
<1>14. Puts(n, f, slot, val)
  BY <1>9, <1>13 DEF Puts, Distinct
<1>15. /\ DOMAIN f[n] = DOMAIN f[0] \cup {slot[i] : i \in 1 .. n}
       /\ \A i \in 1 .. n : f[n][slot[i]] = val[i]
  <2>1. AllPut(n, f, slot, val)
    BY <1>1, <1>14, PutsInOrder
  <2>2. QED
    BY <2>1 DEF AllPut
<1>16. DOMAIN f[n] = {slot[i] : i \in 1 .. n}
  <2>1. ASSUME NEW a \in DOMAIN f0 PROVE \E i \in 1 .. n : a = slot[i]
    <3>1. PICK i \in 1 .. n : tree[i].id = a
      BY <1>1
    <3>2. a # None
      BY DEF None, GoodForms
    <3>3. slot[i] = a
      BY <1>9, <1>11, <3>1, <3>2
    <3>4. QED
      BY <3>3
  <2>2. QED
    BY <1>10, <1>15, <2>1
<1>17. {RowsIn(s.forms[a]) : a \in DOMAIN s.forms} = RowsOf(tree)
  <2>1. {RowsIn(f[n][a]) : a \in DOMAIN f[n]} = {Rows(tree[i].parts) : i \in 1 .. n}
    <3>1. \A i \in 1 .. n : slot[i] \in DOMAIN f[n] /\ RowsIn(f[n][slot[i]]) = Rows(tree[i].parts)
      BY <1>9, <1>15, <1>16
    <3>2. QED
      BY <1>16, <3>1
  <2>2. RowsOf(tree) = {Rows(tree[i].parts) : i \in 1 .. n}
    BY <1>1 DEF RowsOf
  <2>3. {RowsIn(s.forms[a]) : a \in DOMAIN s.forms} = {RowsIn(f[n][a]) : a \in DOMAIN f[n]}
    <3> DEFINE g == f[n]
               h == s.forms
    <3>1. g = h
      BY <1>10
    <3> HIDE DEF g, h
    <3>2. {RowsIn(h[a]) : a \in DOMAIN h} = {RowsIn(g[a]) : a \in DOMAIN g}
      BY <3>1
    <3>3. QED
      BY <3>2, Zenon DEF g, h
  <2>4. QED
    BY <2>1, <2>2, <2>3, Zenon
<1>18. DOMAIN f0 \subseteq DOMAIN s.forms
  <2>1. DOMAIN f[0] \subseteq DOMAIN f[n]
    BY <1>15
  <2>2. QED
    BY <1>10, <2>1, Zenon
<1>19. next <= s.next /\ GoodForms(s.forms, s.next)
  BY <1>1, <1>3, <1>8 DEF Good
<1>20. ok
  BY <1>1, <1>4, <1>6
<1>21. QED
  BY <1>17, <1>18, <1>19, <1>20

-----------------------------------------------------------------------------
(* What a form shows *)

Lists(q, S) ==
  /\ q = [i \in 1 .. Len(q) |-> q[i]] /\ Len(q) \in Nat
  /\ \A i \in 1 .. Len(q) : q[i] \in S
  /\ \A i, j \in 1 .. Len(q) : q[i] = q[j] => i = j
  /\ \A x \in S : \E i \in 1 .. Len(q) : q[i] = x

\* A member of SetToSeqs lists every element once.
LEMMA SeqsList ==
  ASSUME NEW n \in Nat, NEW S, S \subseteq 1 .. n - 1, NEW q \in SetToSeqs(S)
  PROVE  Lists(q, S)
<1> DEFINE m == Cardinality(S)
<1>1. IsFiniteSet(S)
  <2>1. S \in SUBSET Nat /\ \A x \in S : x <= n
    OBVIOUS
  <2>2. QED
    BY <2>1, FS_BoundedSetOfNaturals
<1>2. m \in Nat
  BY <1>1, FS_CardinalityType
<1>3. q \in [1 .. m -> S] /\ \A i, j \in 1 .. m : i # j => q[i] # q[j]
  BY DEF SetToSeqs
<1>4. IsFiniteSet(1 .. m) /\ Cardinality(1 .. m) = m
  <2>1. Cardinality(1 .. m) = IF 1 > m THEN 0 ELSE m - 1 + 1
    BY <1>2, FS_Interval
  <2>2. QED
    BY <1>2, <2>1, FS_Interval
<1>5. q \in Injection(1 .. m, S)
  BY <1>3 DEF Injection, IsInjective
<1>6. q \in Surjection(1 .. m, S)
  BY <1>1, <1>4, <1>5, FS_Injection
<1>7. \A x \in S : \E i \in 1 .. m : q[i] = x
  BY <1>6 DEF Surjection
<1> HIDE DEF m
<1>8. q = [i \in 1 .. m |-> q[i]]
  BY <1>3
<1>9. Len(q) = m
  BY <1>2, <1>8, FunctionIsSeq
<1>10. QED
  BY <1>2, <1>3, <1>7, <1>8, <1>9 DEF Lists

\* What a form loads lists every allograph and every component once.
LEMMA LoadedIs ==
  ASSUME NEW n \in Nat, DOMAIN forms \subseteq 1 .. n - 1,
         \A a \in DOMAIN forms : DOMAIN forms[a] \subseteq 1 .. n - 1,
         NEW tree \in Loaded
  PROVE  \E ids, order :
           /\ tree = Reading(ids, order)
           /\ Lists(ids, DOMAIN forms)
           /\ \A a \in DOMAIN forms : Lists(order[a], DOMAIN forms[a])
<1>1. PICK ids \in KeyOrders, order \in RowOrders : tree = Reading(ids, order)
  BY DEF Loaded
<1>2. Lists(ids, DOMAIN forms)
  BY SeqsList DEF KeyOrders
<1>3. \A a \in DOMAIN forms : order[a] \in SetToSeqs(DOMAIN forms[a])
  BY DEF RowOrders
<1>4. \A a \in DOMAIN forms : Lists(order[a], DOMAIN forms[a])
  BY <1>3, SeqsList
<1>5. QED
  BY <1>1, <1>2, <1>4

\* The positions of a list.
LEMMA ListsDomain ==
  ASSUME NEW q, NEW S, Lists(q, S)
  PROVE  DOMAIN q = 1 .. Len(q) /\ Len(q) \in Nat
BY DEF Lists

\* Something made of every element of a list, with the element as its key.
LEMMA ListKeyed ==
  ASSUME NEW n, NEW q, NEW S, Lists(q, S), S \subseteq 1 .. n - 1, n \in Nat \ {0},
         NEW r, r = [i \in DOMAIN q |-> r[i]], \A i \in DOMAIN q : r[i].id = q[i]
  PROVE  Keyed(r, n)
<1>1. DOMAIN q = 1 .. Len(q) /\ Len(q) \in Nat
  BY ListsDomain
<1>2. IsSeq(r) /\ DOMAIN r = 1 .. Len(q)
  BY <1>1, FunctionIsSeq
<1>3. \A i \in 1 .. Len(q) : q[i] \in 0 .. n - 1
  BY DEF Lists
<1>4. QED
  BY <1>1, <1>2, <1>3 DEF Keyed, Lists

\* A form loads a well-formed tree.
LEMMA LoadedFormed ==
  ASSUME NEW n, GoodForms(forms, n), NEW tree \in Loaded
  PROVE  FormedTree(tree, n)
<1>1. n \in Nat \ {0} /\ DOMAIN forms \subseteq 1 .. n - 1
      /\ \A a \in DOMAIN forms : DOMAIN forms[a] \subseteq 1 .. n - 1
  BY DEF GoodForms
<1>2. PICK ids, order :
         /\ tree = Reading(ids, order)
         /\ Lists(ids, DOMAIN forms)
         /\ \A a \in DOMAIN forms : Lists(order[a], DOMAIN forms[a])
  BY <1>1, LoadedIs
<1>3. /\ tree = [i \in DOMAIN ids |-> tree[i]]
      /\ \A i \in DOMAIN ids :
           tree[i] = LET a == ids[i]
                     IN [id |-> a, parts |-> [j \in DOMAIN order[a] |->
                                                Shown(order[a][j], forms[a][order[a][j]])]]
  BY <1>2 DEF Reading
<1>4. Keyed(tree, n)
  <2>1. \A i \in DOMAIN ids : tree[i].id = ids[i]
    BY <1>3
  <2>2. QED
    BY <1>1, <1>2, <1>3, <2>1, ListKeyed
<1>5. ASSUME NEW i \in DOMAIN ids
      PROVE  DOMAIN tree[i] = {"id", "parts"} /\ GoodParts(tree[i].parts, n)
  <2> DEFINE a == ids[i]
             own == order[a]
             p == tree[i].parts
  <2>1. a \in DOMAIN forms /\ Lists(own, DOMAIN forms[a])
    BY <1>2, ListsDomain DEF Lists
  <2>2. tree[i] = [id |-> a, parts |-> [j \in DOMAIN own |-> Shown(own[j], forms[a][own[j]])]]
    BY <1>3
  <2>3. DOMAIN tree[i] = {"id", "parts"} /\ p = [j \in DOMAIN own |-> Shown(own[j], forms[a][own[j]])]
    BY <2>2
  <2>4. DOMAIN forms[a] \subseteq 1 .. n - 1
    BY <1>1, <2>1
  <2> HIDE DEF a, own, p
  <2>5. p = [j \in DOMAIN own |-> p[j]] /\ \A j \in DOMAIN own : p[j] = Shown(own[j], forms[a][own[j]])
    BY <2>3
  <2>6. \A j \in DOMAIN own : p[j].id = own[j] /\ DOMAIN p[j] = PartFields
    BY <2>5 DEF Shown, PartFields
  <2>7. Keyed(p, n)
    BY <1>1, <2>1, <2>4, <2>5, <2>6, ListKeyed
  <2>8. GoodParts(p, n)
    BY <2>5, <2>6, <2>7 DEF GoodParts
  <2>9. QED
    BY <2>3, <2>8 DEF p
<1>6. DOMAIN tree = DOMAIN ids
  BY <1>3
<1>7. QED
  BY <1>4, <1>5, <1>6 DEF FormedTree

-----------------------------------------------------------------------------
(* The structure *)

StructureInv ==
  /\ GoodForms(forms, nextKey)
  /\ form = [e \in Editors |-> form[e]]
  /\ \A e \in Editors : form[e].loaded => FormedTree(form[e].tree, nextKey)

\* A tree stays well formed while keys are drawn.
LEMMA FormedLater ==
  ASSUME NEW n \in Nat, NEW m \in Nat, n <= m, NEW tree, FormedTree(tree, n)
  PROVE  FormedTree(tree, m)
<1>1. \A q : Keyed(q, n) => Keyed(q, m)
  BY DEF Keyed
<1>2. QED
  BY <1>1 DEF FormedTree, GoodParts

\* A save that goes through stores the rows of its tree and keeps the
\* allographs in use.
LEMMA Updated ==
  ASSUME GoodForms(forms, nextKey), NEW tree, FormedTree(tree, nextKey),
         NEW s, s = UpdateStructure(tree), s.ok
  PROVE  /\ nextKey <= s.next /\ GoodForms(s.forms, s.next)
         /\ DOMAIN forms \cap Used \subseteq DOMAIN s.forms
         /\ {RowsIn(s.forms[a]) : a \in DOMAIN s.forms} = RowsOf(tree)
<1> DEFINE kept == {tree[i].id : i \in DOMAIN tree}
           free == (DOMAIN forms \ kept) \cap Used = {}
           f0 == Only(forms, kept)
<1>1. s = AllographsFolded(free, nextKey, f0, tree)
  BY Zenon DEF UpdateStructure, AllographsFolded
<1>2. DOMAIN f0 = DOMAIN forms \cap kept /\ \A a \in DOMAIN f0 : f0[a] = forms[a]
  BY DEF Only
<1>3. \A a \in DOMAIN f0 : \E i \in DOMAIN tree : tree[i].id = a
  BY <1>2
<1>4. free <=> (DOMAIN forms \ kept) \cap Used = {}
  OBVIOUS
<1> HIDE DEF f0, kept, free
<1>5. GoodForms(f0, nextKey)
  BY <1>2 DEF GoodForms
<1>6. nextKey \in Nat \ {0} /\ nextKey <= nextKey
  BY DEF GoodForms
<1>7. /\ free
      /\ nextKey <= s.next /\ GoodForms(s.forms, s.next)
      /\ DOMAIN f0 \subseteq DOMAIN s.forms
      /\ {RowsIn(s.forms[a]) : a \in DOMAIN s.forms} = RowsOf(tree)
  BY <1>1, <1>3, <1>5, <1>6, AllographsPut
<1>8. DOMAIN forms \cap Used \subseteq DOMAIN s.forms
  BY <1>2, <1>4, <1>7
<1>9. QED
  BY <1>7, <1>8

\* What a save leaves.
LEMMA Saved ==
  ASSUME StructureInv, NEW e \in Editors, SaveForm(e)
  PROVE  /\ form[e].loaded /\ form' = [form EXCEPT ![e] = NoForm] /\ UNCHANGED <<catalogue, graphs>>
         /\ \/ UNCHANGED <<forms, nextKey>>
            \/ /\ nextKey <= nextKey' /\ GoodForms(forms', nextKey')
               /\ DOMAIN forms \cap Used \subseteq DOMAIN forms'
               /\ \E tree \in Edited(form[e].tree) :
                    {RowsIn(forms'[a]) : a \in DOMAIN forms'} = RowsOf(tree)
<1>1. /\ form[e].loaded /\ UNCHANGED <<catalogue, graphs>>
      /\ \E tree \in Edited(form[e].tree) :
           Committed(UpdateStructure(tree)) /\ form' = [form EXCEPT ![e] = NoForm]
  BY Zenon DEF SaveForm, letterVars
<1>2. PICK tree \in Edited(form[e].tree) :
        Committed(UpdateStructure(tree)) /\ form' = [form EXCEPT ![e] = NoForm]
  BY <1>1
<1>3. nextKey \in Nat \ {0} /\ FormedTree(form[e].tree, nextKey)
  BY <1>1 DEF StructureInv, GoodForms
<1>4. FormedTree(tree, nextKey)
  BY <1>3, FormedEdited
<1>5. CASE UpdateStructure(tree).ok
  <2> DEFINE s == UpdateStructure(tree)
  <2>1. forms' = s.forms /\ nextKey' = s.next
    BY <1>2, <1>5, Zenon DEF Committed
  <2>2. s.ok
    BY <1>5
  <2>3. s = UpdateStructure(tree)
    OBVIOUS
  <2> HIDE DEF s
  <2>4. /\ nextKey <= s.next /\ GoodForms(s.forms, s.next)
        /\ DOMAIN forms \cap Used \subseteq DOMAIN s.forms
        /\ {RowsIn(s.forms[a]) : a \in DOMAIN s.forms} = RowsOf(tree)
    BY <1>4, <2>2, <2>3, Updated DEF StructureInv
  <2>5. /\ nextKey <= nextKey' /\ GoodForms(forms', nextKey')
        /\ DOMAIN forms \cap Used \subseteq DOMAIN forms'
        /\ {RowsIn(forms'[a]) : a \in DOMAIN forms'} = RowsOf(tree)
    BY <2>1, <2>4, Zenon
  <2>6. QED
    BY <1>1, <1>2, <2>5
<1>6. CASE ~UpdateStructure(tree).ok
  <2>1. UNCHANGED <<forms, nextKey>>
    BY <1>2, <1>6, Zenon DEF Committed
  <2>2. QED
    BY <1>1, <1>2, <2>1
<1>7. QED
  BY <1>5, <1>6

\* The invariant holds at the start.
LEMMA StructureInit == FormsInit => StructureInv
<1> SUFFICES ASSUME FormsInit PROVE StructureInv
  OBVIOUS
<1> DEFINE c == CHOOSE c \in Components : TRUE
           f == CHOOSE f \in Features : TRUE
           row == [component |-> c, features |-> [x \in {f} |-> TRUE]]
<1>1. c \in Components
  BY ComponentsAssumption
<1>2. /\ forms = [a \in {1} |-> [s \in {2} |-> row]]
      /\ nextKey = 3 /\ DOMAIN catalogue = Components
      /\ form = [e \in Editors |-> NoForm]
  BY DEF FormsInit
<1>3. row.component = c
  OBVIOUS
<1> HIDE DEF c, row
<1>4. /\ DOMAIN forms = {1} /\ DOMAIN forms[1] = {2} /\ forms[1][2] = row
      /\ forms[1] = [s \in {2} |-> forms[1][s]]
  BY <1>2
<1>5. GoodRows(forms[1])
  BY <1>1, <1>2, <1>3, <1>4 DEF GoodRows
<1>6. GoodForms(forms, nextKey)
  BY <1>2, <1>4, <1>5 DEF GoodForms
<1>7. QED
  BY <1>2, <1>6 DEF StructureInv, NoForm

\* Forms lose allographs and components, or stay.
LEMMA FormsLose ==
  ASSUME StructureInv, UNCHANGED <<nextKey, form>>, DOMAIN forms' \subseteq DOMAIN forms,
         \A a \in DOMAIN forms' :
           /\ forms'[a] = [s \in DOMAIN forms'[a] |-> forms'[a][s]]
           /\ DOMAIN forms'[a] \subseteq DOMAIN forms[a]
           /\ \A s \in DOMAIN forms'[a] :
                forms'[a][s] = forms[a][s] /\ forms[a][s].component \in DOMAIN catalogue'
  PROVE  StructureInv'
<1>1. \A a \in DOMAIN forms' :
        /\ \A s \in DOMAIN forms'[a] : forms'[a][s].component \in DOMAIN catalogue'
        /\ \A s, t \in DOMAIN forms'[a] : forms'[a][s].component = forms'[a][t].component => s = t
  BY DEF StructureInv, GoodForms, GoodRows
<1>2. GoodForms(forms, nextKey)'
  BY <1>1 DEF StructureInv, GoodForms, GoodRows
<1>3. QED
  BY <1>2 DEF StructureInv

\* Every step keeps the invariant.
LEMMA StructureNext ==
  ASSUME StructureInv, [FormsNext]_formVars
  PROVE  StructureInv'
<1>1. ASSUME UNCHANGED <<forms, catalogue, nextKey, form>> PROVE StructureInv'
  BY <1>1 DEF StructureInv, GoodForms, GoodRows
<1>2. ASSUME NEW e \in Editors, LoadForm(e) PROVE StructureInv'
  <2>1. PICK t \in Loaded : form' = [form EXCEPT ![e] = [loaded |-> TRUE, tree |-> t]]
    BY <1>2 DEF LoadForm
  <2>2. UNCHANGED <<forms, catalogue, nextKey>>
    BY <1>2 DEF LoadForm, structureVars
  <2>3. FormedTree(t, nextKey)
    BY LoadedFormed DEF StructureInv
  <2>4. form' = [o \in Editors |-> form'[o]] /\ form'[e] = [loaded |-> TRUE, tree |-> t]
        /\ \A o \in Editors : o # e => form'[o] = form[o]
    BY <2>1 DEF StructureInv
  <2>5. \A o \in Editors : form'[o].loaded => FormedTree(form'[o].tree, nextKey')
    BY <2>2, <2>3, <2>4 DEF StructureInv
  <2>6. GoodForms(forms, nextKey)'
    BY <2>2 DEF StructureInv, GoodForms, GoodRows
  <2>7. QED
    BY <2>4, <2>5, <2>6 DEF StructureInv
<1>3. ASSUME NEW e \in Editors, SaveForm(e) PROVE StructureInv'
  <2>1. /\ form' = [form EXCEPT ![e] = NoForm] /\ UNCHANGED catalogue
        /\ \/ UNCHANGED <<forms, nextKey>>
           \/ nextKey <= nextKey' /\ GoodForms(forms', nextKey')
    BY <1>3, Saved
  <2>2. nextKey \in Nat /\ nextKey' \in Nat /\ nextKey <= nextKey' /\ GoodForms(forms', nextKey')
    BY <2>1 DEF StructureInv, GoodForms
  <2>3. form' = [o \in Editors |-> form'[o]] /\ ~form'[e].loaded
        /\ \A o \in Editors : o # e => form'[o] = form[o]
    BY <2>1 DEF StructureInv, NoForm
  <2>4. \A o \in Editors : form'[o].loaded => FormedTree(form'[o].tree, nextKey')
    BY <2>2, <2>3, FormedLater DEF StructureInv
  <2>5. GoodForms(forms, nextKey)'
    BY <2>1, <2>2 DEF GoodForms, GoodRows
  <2>6. QED
    BY <2>3, <2>4, <2>5 DEF StructureInv
<1>4. ASSUME ChangeCatalogue PROVE StructureInv'
  <2>1. UNCHANGED <<forms, nextKey, form>> /\ DOMAIN catalogue' = DOMAIN catalogue
    BY <1>4 DEF ChangeCatalogue
  <2>2. QED
    BY <2>1 DEF StructureInv, GoodForms, GoodRows
<1>5. ASSUME DeleteComponent PROVE StructureInv'
  <2>1. PICK c \in DOMAIN catalogue :
          /\ catalogue' = Only(catalogue, DOMAIN catalogue \ {c})
          /\ forms' = [a \in DOMAIN forms |->
               Only(forms[a], {s \in DOMAIN forms[a] : forms[a][s].component # c})]
    BY <1>5 DEF DeleteComponent
  <2>2. UNCHANGED <<nextKey, form>>
    BY <1>5 DEF DeleteComponent
  <2>3. DOMAIN forms' = DOMAIN forms /\ DOMAIN catalogue' = DOMAIN catalogue \ {c}
    BY <2>1 DEF Only
  <2>4. ASSUME NEW a \in DOMAIN forms'
        PROVE  /\ forms'[a] = [s \in DOMAIN forms'[a] |-> forms'[a][s]]
               /\ DOMAIN forms'[a] \subseteq DOMAIN forms[a]
               /\ \A s \in DOMAIN forms'[a] :
                    forms'[a][s] = forms[a][s] /\ forms[a][s].component \in DOMAIN catalogue'
    <3>1. forms'[a] = Only(forms[a], {s \in DOMAIN forms[a] : forms[a][s].component # c})
      BY <2>1, <2>3
    <3>2. /\ DOMAIN forms'[a] = {s \in DOMAIN forms[a] : forms[a][s].component # c}
          /\ \A s \in DOMAIN forms'[a] : forms'[a][s] = forms[a][s]
          /\ forms'[a] = [s \in DOMAIN forms'[a] |-> forms'[a][s]]
      BY <3>1 DEF Only
    <3>3. \A s \in DOMAIN forms[a] : forms[a][s].component \in DOMAIN catalogue
      BY <2>3 DEF StructureInv, GoodForms, GoodRows
    <3>4. QED
      BY <2>3, <3>2, <3>3
  <2>5. QED
    BY <2>2, <2>3, <2>4, FormsLose
<1>6. ASSUME DeleteAllograph PROVE StructureInv'
  <2>1. PICK a \in DOMAIN forms \ Used : forms' = Only(forms, DOMAIN forms \ {a})
    BY <1>6 DEF DeleteAllograph
  <2>2. UNCHANGED <<catalogue, nextKey, form>>
    BY <1>6 DEF DeleteAllograph
  <2>3. DOMAIN forms' = DOMAIN forms \ {a} /\ \A b \in DOMAIN forms' : forms'[b] = forms[b]
    BY <2>1 DEF Only
  <2>4. \A b \in DOMAIN forms :
          /\ forms[b] = [s \in DOMAIN forms[b] |-> forms[b][s]]
          /\ \A s \in DOMAIN forms[b] : forms[b][s].component \in DOMAIN catalogue
    BY DEF StructureInv, GoodForms, GoodRows
  <2>5. QED
    BY <2>2, <2>3, <2>4, FormsLose
<1>7. CASE UNCHANGED formVars
  BY <1>1, <1>7 DEF formVars, structureVars
<1>8. ASSUME NEW e \in Editors,
             \/ StartPatch(e) \/ StartPost(e) \/ WriteRow(e) \/ CreateRow(e)
             \/ ClearParts(e) \/ AddPart(e) \/ FinishParts(e)
      PROVE  UNCHANGED <<forms, catalogue, nextKey, form>>
  BY <1>8, Zenon DEF StartPatch, StartPost, WriteRow, CreateRow, ClearParts, AddPart, FinishParts,
     structureVars
<1>9. ASSUME DeleteGraph PROVE UNCHANGED <<forms, catalogue, nextKey, form>>
  BY <1>9 DEF DeleteGraph, structureVars
<1>10. CASE FormsNext
  BY <1>1, <1>2, <1>3, <1>4, <1>5, <1>6, <1>8, <1>9, <1>10 DEF FormsNext
<1>11. QED
  BY <1>7, <1>10

\* The invariant of the structure and its forms.
LEMMA StructureAlways == FormsSpec => []StructureInv
<1>1. QED
  BY StructureInit, StructureNext, PTL DEF FormsSpec

\* A save of the structure is all or nothing (CharacterStructureService), for
\* trees of any size and however the structure changed since it was loaded.
THEOREM StructureSavedWhole == FormsSpec => StructureSaved
<1> DEFINE Whole == \A e \in Editors :
         form[e].loaded /\ ~form'[e].loaded =>
           \/ Stored' \in {Submitted(tree) : tree \in Edited(form[e].tree)}
           \/ UNCHANGED structureVars
<1>1. ASSUME StructureInv, [FormsNext]_formVars PROVE [Whole]_formVars
  <2> SUFFICES ASSUME NEW e \in Editors, form[e].loaded, ~form'[e].loaded
               PROVE  \/ Stored' \in {Submitted(tree) : tree \in Edited(form[e].tree)}
                      \/ UNCHANGED structureVars
    OBVIOUS
  <2>1. form' # form
    OBVIOUS
  <2>2. ASSUME NEW o \in Editors, LoadForm(o) PROVE FALSE
    <3>1. PICK t : form' = [form EXCEPT ![o] = [loaded |-> TRUE, tree |-> t]]
      BY <2>2 DEF LoadForm
    <3>2. form'[e] = form[e] \/ form'[e] = [loaded |-> TRUE, tree |-> t]
      BY <1>1, <3>1 DEF StructureInv
    <3>3. QED
      BY <3>2
  <2>3. ASSUME NEW o \in Editors,
               \/ StartPatch(o) \/ StartPost(o) \/ WriteRow(o) \/ CreateRow(o)
               \/ ClearParts(o) \/ AddPart(o) \/ FinishParts(o)
        PROVE  form' = form
    BY <2>3, Zenon DEF StartPatch, StartPost, WriteRow, CreateRow, ClearParts, AddPart, FinishParts
  <2>4. ASSUME ChangeCatalogue \/ DeleteComponent \/ DeleteAllograph \/ DeleteGraph
        PROVE  form' = form
    BY <2>4, Zenon DEF ChangeCatalogue, DeleteComponent, DeleteAllograph, DeleteGraph
  <2>5. \E o \in Editors : SaveForm(o)
    <3>1. FormsNext
      BY <1>1, <2>1 DEF formVars
    <3>2. QED
      BY <2>1, <2>2, <2>3, <2>4, <3>1, Zenon DEF FormsNext
  <2>6. PICK o \in Editors : SaveForm(o)
    BY <2>5
  <2>7. o = e
    <3>1. form' = [form EXCEPT ![o] = NoForm]
      BY <1>1, <2>6, Saved
    <3>2. QED
      BY <1>1, <3>1 DEF StructureInv
  <2>8. CASE UNCHANGED <<forms, nextKey>>
    <3>1. UNCHANGED catalogue
      BY <1>1, <2>6, Saved
    <3>2. QED
      BY <2>8, <3>1 DEF structureVars
  <2>9. CASE \E tree \in Edited(form[e].tree) :
               {RowsIn(forms'[a]) : a \in DOMAIN forms'} = RowsOf(tree)
    <3>1. PICK tree \in Edited(form[e].tree) :
            {RowsIn(forms'[a]) : a \in DOMAIN forms'} = RowsOf(tree)
      BY <2>9
    <3>2. Stored' = {RowsIn(forms'[a]) : a \in DOMAIN forms'}
      BY Zenon DEF Stored, RowsIn
    <3>3. RowsOf(tree) = Submitted(tree)
      BY Zenon DEF RowsOf, Rows, Row, Submitted
    <3>4. QED
      BY <3>1, <3>2, <3>3
  <2>10. QED
    BY <1>1, <2>6, <2>7, <2>8, <2>9, Saved
<1>2. QED
  BY <1>1, StructureAlways, PTL DEF FormsSpec, StructureSaved

-----------------------------------------------------------------------------
\* The first letter is described.
LEMMA StandInit == FormsInit => LettersStand
<1> SUFFICES ASSUME FormsInit PROVE LettersStand
  OBVIOUS
<1>1. \A g \in DOMAIN graphs : graphs[g].allograph = 1 /\ graphs[g].hand = 7
  <2>1. graphs = LET first == CHOOSE g \in Glyphs : TRUE
                 IN [g \in {first} |-> [type |-> "image", allograph |-> 1, hand |-> 7]]
    BY Zenon DEF FormsInit
  <2>2. QED
    BY <2>1
<1>2. 1 \in DOMAIN forms
  BY DEF FormsInit
<1>3. QED
  BY <1>1, <1>2 DEF LettersStand, None

\* Rows may come that are valid, and allographs go that are not used.
LEMMA StandStays ==
  ASSUME LettersStand, DOMAIN forms \cap Used \subseteq DOMAIN forms',
         \A g \in DOMAIN graphs' : \/ g \in DOMAIN graphs /\ graphs'[g] = graphs[g]
                                   \/ Valid(graphs'[g]) /\ UNCHANGED forms
  PROVE  LettersStand'
<1> SUFFICES ASSUME NEW g \in DOMAIN graphs'
             PROVE  /\ Standard(graphs'[g]) => graphs'[g].hand # None /\ graphs'[g].allograph # None
                    /\ graphs'[g].allograph \in DOMAIN forms' \cup {None}
  BY DEF LettersStand, Standard
<1>1. CASE g \in DOMAIN graphs /\ graphs'[g] = graphs[g]
  <2>1. graphs[g].allograph \in Used
    BY <1>1 DEF Used
  <2>2. QED
    BY <1>1, <2>1 DEF LettersStand
<1>2. CASE Valid(graphs'[g]) /\ UNCHANGED forms
  BY <1>2 DEF Valid, Complete
<1>3. QED
  BY <1>1, <1>2

\* Every step keeps letters described.
LEMMA StandNext ==
  ASSUME StructureInv, LettersStand, [FormsNext]_formVars
  PROVE  LettersStand'
<1>1. ASSUME UNCHANGED graphs, DOMAIN forms \cap Used \subseteq DOMAIN forms' PROVE LettersStand'
  BY <1>1, StandStays
<1>2. ASSUME UNCHANGED graphs, UNCHANGED forms PROVE LettersStand'
  BY <1>1, <1>2
<1>3. ASSUME NEW e \in Editors, SaveForm(e) PROVE LettersStand'
  <2>1. UNCHANGED graphs /\ DOMAIN forms \cap Used \subseteq DOMAIN forms'
    BY <1>3, Saved
  <2>2. QED
    BY <1>1, <2>1
<1>4. ASSUME DeleteComponent PROVE LettersStand'
  <2>1. UNCHANGED graphs /\ DOMAIN forms' = DOMAIN forms
    BY <1>4 DEF DeleteComponent
  <2>2. QED
    BY <1>1, <2>1
<1>5. ASSUME DeleteAllograph PROVE LettersStand'
  <2>1. PICK a \in DOMAIN forms \ Used : forms' = Only(forms, DOMAIN forms \ {a})
    BY <1>5 DEF DeleteAllograph
  <2>2. DOMAIN forms' = DOMAIN forms \ {a} /\ UNCHANGED graphs
    BY <1>5, <2>1 DEF Only, DeleteAllograph, letterVars
  <2>3. QED
    BY <1>1, <2>2
<1>6. ASSUME DeleteGraph PROVE LettersStand'
  <2>1. PICK g \in DOMAIN graphs : graphs' = Only(graphs, DOMAIN graphs \ {g})
    BY <1>6 DEF DeleteGraph
  <2>2. UNCHANGED forms
    BY <1>6 DEF DeleteGraph, structureVars
  <2>3. \A h \in DOMAIN graphs' : h \in DOMAIN graphs /\ graphs'[h] = graphs[h]
    BY <2>1 DEF Only
  <2>4. QED
    BY <2>2, <2>3, StandStays
<1>7. ASSUME NEW row, Valid(row), NEW g, graphs' = With(graphs, g, row), UNCHANGED forms
      PROVE  LettersStand'
  <2>1. \A h \in DOMAIN graphs' :
          (h \in DOMAIN graphs /\ graphs'[h] = graphs[h]) \/ graphs'[h] = row
    BY <1>7 DEF With
  <2>2. QED
    BY <1>7, <2>1, StandStays
<1>8. ASSUME NEW e \in Editors, WriteRow(e) PROVE LettersStand'
  <2>1. UNCHANGED forms
    BY <1>8 DEF WriteRow, structureVars
  <2>2. CASE Valid(request[e].row)
    <3>1. graphs' = With(graphs, request[e].graph, request[e].row)
      BY <1>8, <2>2 DEF WriteRow
    <3>2. QED
      BY <1>7, <2>1, <2>2, <3>1
  <2>3. CASE ~Valid(request[e].row)
    <3>1. UNCHANGED graphs
      BY <1>8, <2>3 DEF WriteRow, Broken
    <3>2. QED
      BY <1>2, <2>1, <3>1
  <2>4. QED
    BY <2>2, <2>3
<1>9. ASSUME NEW e \in Editors, CreateRow(e) PROVE LettersStand'
  <2>1. UNCHANGED forms
    BY <1>9 DEF CreateRow, structureVars
  <2>2. CASE Valid(request[e].row)
    <3>1. PICK g : graphs' = With(graphs, g, request[e].row)
      BY <1>9, <2>2 DEF CreateRow
    <3>2. QED
      BY <1>7, <2>1, <2>2, <3>1
  <2>3. CASE ~Valid(request[e].row)
    <3>1. UNCHANGED graphs
      BY <1>9, <2>3 DEF CreateRow, Broken
    <3>2. QED
      BY <1>2, <2>1, <3>1
  <2>4. QED
    BY <2>2, <2>3
<1>10. ASSUME NEW e \in Editors,
              LoadForm(e) \/ StartPatch(e) \/ StartPost(e) \/ ClearParts(e) \/ FinishParts(e)
       PROVE  LettersStand'
  <2>1. UNCHANGED <<graphs, forms>>
    BY <1>10, Zenon DEF LoadForm, StartPatch, StartPost, ClearParts, FinishParts, structureVars, letterVars
  <2>2. QED
    BY <1>2, <2>1
<1>11. ASSUME NEW e \in Editors, AddPart(e) PROVE LettersStand'
  <2>1. UNCHANGED <<graphs, forms>>
    BY <1>11, Zenon DEF AddPart, Broken, structureVars
  <2>2. QED
    BY <1>2, <2>1
<1>12. ASSUME ChangeCatalogue PROVE LettersStand'
  BY <1>2, <1>12 DEF ChangeCatalogue, letterVars
<1>13. CASE UNCHANGED formVars
  BY <1>2, <1>13 DEF formVars, structureVars, letterVars
<1>14. CASE FormsNext
  BY <1>3, <1>4, <1>5, <1>6, <1>8, <1>9, <1>10, <1>11, <1>12, <1>14 DEF FormsNext
<1>15. QED
  BY <1>13, <1>14

\* Every annotation of a letter keeps its hand and an allograph that exists
\* (PROTECT of Graph.allograph, the check constraint), however many graphs and
\* structures are saved at once.
THEOREM LettersStandAlways == FormsSpec => []LettersStand
<1>1. StructureInv /\ LettersStand /\ [FormsNext]_formVars => LettersStand'
  BY StandNext
<1>2. QED
  BY <1>1, StandInit, StructureAlways, PTL DEF FormsSpec

-----------------------------------------------------------------------------
(* A form that is saved as it was loaded *)

\* A row that a form shows and writes back has the defaults it had.
LEMMA DefaultsShown ==
  ASSUME NEW r, NEW part
  PROVE  Defaults(Row(Shown(r, part))) = Defaults(part)
<1> DEFINE C == catalogue[part.component]
           F == part.features
           G == FormFeatures(part)
           new == Row(Shown(r, part))
           before == PublicFeatures(part)
           after == PublicFeatures(new)
<1>1. new.component = part.component /\ new.features = G
  BY DEF Row, Shown
<1>2. DOMAIN G = C /\ \A f \in C : G[f] <=> f \in DOMAIN F /\ F[f]
  BY DEF FormFeatures
<1>3. before = IF F # <<>> THEN F ELSE [f \in C |-> FALSE]
  BY DEF PublicFeatures
<1>4. after = IF G # <<>> THEN G ELSE [f \in C |-> FALSE]
  BY <1>1, Zenon DEF PublicFeatures
<1> HIDE DEF F, G, C, before, after, new
<1>5. DOMAIN <<>> = {}
  OBVIOUS
<1>6. {f \in C \cap DOMAIN before : before[f]} = {f \in C \cap DOMAIN F : F[f]}
  <2>1. CASE F # <<>>
    <3>1. before = F
      BY <1>3, <2>1
    <3>2. QED
      BY <3>1, Zenon
  <2>2. CASE F = <<>>
    <3>1. before = [f \in C |-> FALSE] /\ DOMAIN F = {}
      BY <1>3, <1>5, <2>2
    <3>2. \A f \in C \cap DOMAIN before : ~before[f]
      BY <3>1
    <3>3. QED
      BY <3>1, <3>2
  <2>3. QED
    BY <2>1, <2>2
<1>7. {f \in C \cap DOMAIN after : after[f]} = {f \in C \cap DOMAIN F : F[f]}
  <2>1. CASE C = {}
    BY <2>1
  <2>2. CASE C # {}
    <3>1. after = G
      BY <1>2, <1>4, <1>5, <2>2
    <3>2. \A f : f \in C \cap DOMAIN G /\ G[f] <=> f \in C \cap DOMAIN F /\ F[f]
      BY <1>2
    <3>3. {f \in C \cap DOMAIN G : G[f]} = {f \in C \cap DOMAIN F : F[f]}
      BY <3>2, Zenon
    <3>4. QED
      BY <3>1, <3>3, Zenon
  <2>3. QED
    BY <2>1, <2>2
<1>8. Defaults(part) = [component |-> part.component, features |-> {f \in C \cap DOMAIN before : before[f]}]
  BY Zenon DEF Defaults, C, before
<1>9. Defaults(new) = [component |-> new.component,
                       features |-> {f \in catalogue[new.component] \cap DOMAIN after : after[f]}]
  BY Zenon DEF Defaults, after
<1>10. catalogue[new.component] = C
  BY <1>1 DEF C
<1>11. {f \in catalogue[new.component] \cap DOMAIN after : after[f]}
         = {f \in C \cap DOMAIN before : before[f]}
  BY <1>6, <1>7, <1>10, Zenon
<1>12. Defaults(new) = Defaults(part)
  BY <1>1, <1>8, <1>9, <1>11, Zenon
<1>13. QED
  BY <1>12 DEF new

\* Rows that were read, and what is written of them.
Rewritten(p, q) ==
  DOMAIN p = DOMAIN q /\ \A s \in DOMAIN q : p[s] = Row(Shown(s, q[s]))

\* The components of an allograph, written as they were read.
LEMMA PartsReread ==
  ASSUME NEW next, NEW p, NEW n \in Nat, DOMAIN p \subseteq 1 .. n - 1, GoodRows(p),
         NEW own, Lists(own, DOMAIN p),
         NEW q, q = [j \in DOMAIN own |-> Shown(own[j], p[own[j]])],
         NEW put, put = PartsFolded(next, p, q)
  PROVE  put.ok /\ Rewritten(put.parts, p)
<1> DEFINE m == Len(own)
           base == [ok |-> TRUE, next |-> next, parts |-> p]
<1>1. /\ m \in Nat /\ DOMAIN own = 1 .. m /\ DOMAIN q = 1 .. m
      /\ \A j \in 1 .. m : q[j] = Shown(own[j], p[own[j]])
  BY ListsDomain
<1> HIDE DEF m
<1>2. PICK c : PartsChain(c, base, q, m, put)
  <2>1. \E c : PartsChain(c, base, q, m, FoldLeft(PutPart, base, q))
    BY <1>1, ChainOfParts
  <2>2. QED
    BY <2>1, Zenon DEF PartsFolded
<1>3. c[0] = base /\ put = c[m] /\ \A i \in 1 .. m : c[i] = PutPart(c[i - 1], q[i])
  BY <1>2, Zenon DEF PartsChain
<1> DEFINE Good(x, i) ==
             /\ x.ok /\ DOMAIN x = PartState /\ DOMAIN x.parts = DOMAIN p
             /\ \A s \in DOMAIN p : x.parts[s].component = p[s].component
             /\ \A j \in 1 .. i : x.parts[own[j]] = Row(q[j])
<1>4. Good(c[0], 0)
  <2>1. c[0].ok /\ DOMAIN c[0] = PartState /\ c[0].parts = p /\ 1 .. 0 = {}
    BY <1>3 DEF PartState
  <2>2. QED
    BY <2>1
<1> HIDE DEF base
<1>5. ASSUME NEW i \in 1 .. m, Good(c[i - 1], i - 1) PROVE Good(c[i], i)
  <2> DEFINE x == c[i - 1]
             y == c[i]
             part == q[i]
             s == own[i]
  <2>1. /\ y = PutPart(x, part) /\ Good(x, i - 1)
        /\ part = Shown(s, p[s])
    BY <1>1, <1>3, <1>5
  <2>2. s \in DOMAIN p /\ s # None /\ \A j \in 1 .. m : own[j] = s => j = i
    BY <1>1 DEF Lists, m, None
  <2>3. \A j \in 1 .. i - 1 : own[j] \in DOMAIN p /\ own[j] # s
    BY <1>1, <2>2 DEF Lists, m
  <2>4. 1 .. i = (1 .. i - 1) \cup {i} /\ own[i] = s /\ q[i] = part
    BY <1>1
  <2> HIDE DEF x, y, part, s
  <2>5. part.id = s /\ part.component = p[s].component
    BY <2>1 DEF Shown
  <2>6. Slot(x, part) = s
    BY <2>2, <2>5 DEF Slot
  <2>7. part.component \in DOMAIN catalogue
    BY <2>2, <2>5 DEF GoodRows
  <2>8. \A o \in DOMAIN x.parts \ {s} : x.parts[o].component # part.component
    BY <2>1, <2>2, <2>5 DEF GoodRows
  <2>9. DOMAIN y = PartState /\ y.ok /\ y.parts = With(x.parts, s, Row(part))
    <3>1. x.ok /\ DOMAIN x = PartState /\ part.id \in DOMAIN x.parts
      BY <2>1, <2>2, <2>5
    <3>2. y.ok
      BY <2>1, <2>6, <2>7, <2>8, <3>1, PutPartStep
    <3>3. DOMAIN y = PartState /\ (y.ok => y.parts = With(x.parts, Slot(x, part), Row(part)))
      BY <2>1, <3>1, PutPartStep
    <3>4. QED
      BY <2>6, <3>2, <3>3
  <2>10. /\ DOMAIN y.parts = DOMAIN p /\ y.parts[s] = Row(part)
         /\ \A o \in DOMAIN p : o # s => y.parts[o] = x.parts[o]
    <3> DEFINE f == x.parts
               g == y.parts
               v == Row(part)
    <3>1. g = With(f, s, v) /\ DOMAIN f = DOMAIN p
      BY <2>1, <2>9
    <3> HIDE DEF f, g, v
    <3>2. DOMAIN g = DOMAIN p /\ g[s] = v /\ \A o \in DOMAIN p : o # s => g[o] = f[o]
      BY <2>2, <3>1 DEF With
    <3>3. QED
      BY <3>2, Zenon DEF f, g, v
  <2>11. Row(part).component = part.component
    BY DEF Row
  <2>12. \A o \in DOMAIN p : y.parts[o].component = p[o].component
    BY <2>1, <2>2, <2>5, <2>10, <2>11
  <2>13. \A j \in 1 .. i : y.parts[own[j]] = Row(q[j])
    <3> SUFFICES ASSUME NEW j \in 1 .. i PROVE y.parts[own[j]] = Row(q[j])
      OBVIOUS
    <3>1. CASE j = i
      BY <2>4, <2>10, <3>1
    <3>2. CASE j \in 1 .. i - 1
      BY <2>1, <2>3, <2>10, <3>2
    <3>3. QED
      BY <2>4, <3>1, <3>2
  <2>14. Good(y, i)
    BY <2>9, <2>10, <2>12, <2>13
  <2>15. QED
    BY <2>14 DEF y
<1> HIDE DEF Good
<1>6. Good(put, m)
  <2> DEFINE good == {i \in 0 .. m : Good(c[i], i)}
  <2>1. 0 \in good
    BY <1>1, <1>4
  <2>2. ASSUME NEW i \in 1 .. m, i - 1 \in good PROVE i \in good
    BY <1>1, <1>5, <2>2
  <2> HIDE DEF good
  <2>3. \A i \in 0 .. m : i \in good
    BY <1>1, <2>1, <2>2, AllAlong
  <2>4. m \in good
    BY <1>1, <2>3
  <2>5. QED
    BY <1>3, <2>4 DEF good
<1>7. \A s \in DOMAIN p : \E j \in 1 .. m : own[j] = s
  BY DEF Lists, m
<1>8. Rewritten(put.parts, p)
  <2>1. /\ DOMAIN put.parts = DOMAIN p
        /\ \A j \in 1 .. m : put.parts[own[j]] = Row(q[j])
    BY <1>6 DEF Good
  <2>2. \A j \in 1 .. m : put.parts[own[j]] = Row(Shown(own[j], p[own[j]]))
    BY <1>1, <2>1
  <2>3. QED
    BY <1>7, <2>1, <2>2 DEF Rewritten
<1>9. QED
  BY <1>6, <1>8 DEF Good

DefaultsIn(p) == {Defaults(p[s]) : s \in DOMAIN p}

\* Rows rewritten as they were read have the same defaults.
LEMMA SameDefaults ==
  ASSUME NEW p, NEW q, Rewritten(p, q)
  PROVE  DefaultsIn(p) = DefaultsIn(q)
<1>1. DOMAIN p = DOMAIN q /\ \A s \in DOMAIN q : p[s] = Row(Shown(s, q[s]))
  BY DEF Rewritten
<1>2. \A s \in DOMAIN q : Defaults(p[s]) = Defaults(q[s])
  BY <1>1, DefaultsShown
<1>3. QED
  BY <1>1, <1>2 DEF DefaultsIn

\* What an allograph of the form is made of.
ItemOf(a, own) ==
  [id |-> a, parts |-> [j \in DOMAIN own |-> Shown(own[j], forms[a][own[j]])]]

ReadOf(s, item, a, p, own) ==
  /\ item.id = a /\ a # None /\ s.forms[a] = p
  /\ item.parts = [j \in DOMAIN own |-> Shown(own[j], p[own[j]])]

\* No component of an allograph is dropped that was read.
LEMMA KeptAll ==
  ASSUME NEW a, NEW p, NEW own, Lists(own, DOMAIN p), GoodRows(p), NEW item, NEW s,
         ReadOf(s, item, a, p, own)
  PROVE  Kept(s, item) = p
<1>1. DOMAIN item.parts = DOMAIN own /\ \A j \in DOMAIN own : item.parts[j].id = own[j]
  BY DEF ReadOf, Shown
<1>2. Kept(s, item) = Only(p, {item.parts[j].id : j \in DOMAIN item.parts})
  BY Zenon DEF Kept, Slot, ReadOf
<1>3. DOMAIN p \subseteq {item.parts[j].id : j \in DOMAIN item.parts}
  BY <1>1, ListsDomain DEF Lists
<1>4. Only(p, {item.parts[j].id : j \in DOMAIN item.parts}) = [x \in DOMAIN p |-> p[x]]
  BY <1>3 DEF Only
<1>5. p = [x \in DOMAIN p |-> p[x]]
  BY Zenon DEF GoodRows
<1>6. QED
  BY <1>2, <1>4, <1>5, Zenon

\* All allographs, written as they were read.
LEMMA AllographsReread ==
  ASSUME NEW n, GoodForms(forms, n),
         NEW ids, NEW order, Lists(ids, DOMAIN forms),
         \A a \in DOMAIN forms : Lists(order[a], DOMAIN forms[a]),
         NEW tree, tree = Reading(ids, order),
         NEW f0, DOMAIN f0 = DOMAIN forms, \A a \in DOMAIN forms : f0[a] = forms[a],
         NEW next, NEW ok, ok, NEW s, s = AllographsFolded(ok, next, f0, tree)
  PROVE  /\ s.ok /\ DOMAIN s.forms = DOMAIN forms
         /\ \A a \in DOMAIN forms : Rewritten(s.forms[a], forms[a])
<1> DEFINE m == Len(ids)
           base == [ok |-> ok, next |-> next, forms |-> f0]
<1>1. /\ m \in Nat /\ DOMAIN ids = 1 .. m /\ DOMAIN tree = 1 .. m
      /\ \A i \in 1 .. m : tree[i] = ItemOf(ids[i], order[ids[i]])
  BY ListsDomain DEF Reading, ItemOf
<1> HIDE DEF m
<1>2. PICK c : AllographsChain(c, base, tree, m, s)
  <2>1. \E c : AllographsChain(c, base, tree, m, FoldLeft(PutAllograph, base, tree))
    BY <1>1, ChainOfAllographs
  <2>2. QED
    BY <2>1, Zenon DEF AllographsFolded
<1>3. c[0] = base /\ s = c[m] /\ \A i \in 1 .. m : c[i] = PutAllograph(c[i - 1], tree[i])
  BY <1>2, Zenon DEF AllographsChain
<1> DEFINE Good(x, i) ==
             /\ x.ok /\ DOMAIN x = AllographState /\ DOMAIN x.forms = DOMAIN forms
             /\ \A j \in 1 .. m : IF j <= i THEN Rewritten(x.forms[ids[j]], forms[ids[j]])
                                  ELSE x.forms[ids[j]] = forms[ids[j]]
<1>4. \A j \in 1 .. m : ids[j] \in DOMAIN forms
  BY <1>1 DEF Lists, m
<1>5. Good(c[0], 0)
  <2>1. c[0].ok /\ DOMAIN c[0] = AllographState /\ c[0].forms = f0
    BY <1>3 DEF AllographState
  <2>2. \A j \in 1 .. m : ~(j <= 0)
    OBVIOUS
  <2>3. QED
    BY <1>4, <2>1, <2>2
<1> HIDE DEF base
<1>6. ASSUME NEW i \in 1 .. m, Good(c[i - 1], i - 1) PROVE Good(c[i], i)
  <2> DEFINE x == c[i - 1]
             y == c[i]
             item == tree[i]
             a == ids[i]
             own == order[a]
             p == forms[a]
             put == PutOf(x, item)
             later == x.next + 1
  <2>1. y = PutAllograph(x, item) /\ Good(x, i - 1) /\ item = ItemOf(a, own)
    BY <1>1, <1>3, <1>6
  <2>2. a \in DOMAIN forms /\ a # None /\ \A j \in 1 .. m : ids[j] = a => j = i
    BY <1>1, <1>4 DEF Lists, m, None, GoodForms
  <2>3. Lists(own, DOMAIN p) /\ DOMAIN p \subseteq 1 .. n - 1 /\ GoodRows(p) /\ n \in Nat
    BY <2>2 DEF GoodForms
  <2>4. x.forms[a] = p
    <3>1. ~(i <= i - 1) /\ i \in 1 .. m
      OBVIOUS
    <3>2. QED
      BY <2>1, <3>1
  <2>5. put = PartsFolded(later, Kept(x, item), item.parts)
    BY Zenon DEF PutOf, PartsFolded
  <2>6. item.id = a /\ item.parts = [j \in DOMAIN own |-> Shown(own[j], p[own[j]])]
    BY <2>1 DEF ItemOf
  <2>7. ids[i] = a
    OBVIOUS
  <2> HIDE DEF x, y, item, a, own, p, put, later
  <2>8. Kept(x, item) = p
    <3>1. ReadOf(x, item, a, p, own)
      BY <2>2, <2>4, <2>6 DEF ReadOf
    <3>2. QED
      BY <2>3, <3>1, KeptAll
  <2>9. put.ok /\ Rewritten(put.parts, p)
    BY <2>3, <2>5, <2>6, <2>8, PartsReread
  <2>10. x.ok /\ DOMAIN x = AllographState /\ DOMAIN x.forms = DOMAIN forms
    BY <2>1
  <2>11. Slot(x, item) = a
    BY <2>2, <2>6 DEF Slot
  <2>12. DOMAIN y = AllographState /\ y.ok /\ y.forms = With(x.forms, a, put.parts)
    <3>1. y.ok <=> x.ok /\ (item.id # None => item.id \in DOMAIN x.forms) /\ PutOf(x, item).ok
      BY <2>1, <2>10, PutAllographStep
    <3>2. y.ok
      BY <2>2, <2>6, <2>9, <2>10, <3>1 DEF put
    <3>3. DOMAIN y = AllographState
          /\ (y.ok => y.forms = With(x.forms, Slot(x, item), PutOf(x, item).parts))
      BY <2>1, <2>10, PutAllographStep
    <3>4. QED
      BY <2>11, <3>2, <3>3 DEF put
  <2>13. /\ DOMAIN y.forms = DOMAIN forms /\ y.forms[a] = put.parts
         /\ \A b \in DOMAIN forms : b # a => y.forms[b] = x.forms[b]
    <3> DEFINE f == x.forms
               g == y.forms
               v == put.parts
    <3>1. g = With(f, a, v) /\ DOMAIN f = DOMAIN forms
      BY <2>10, <2>12
    <3> HIDE DEF f, g, v
    <3>2. DOMAIN g = DOMAIN forms /\ g[a] = v /\ \A b \in DOMAIN forms : b # a => g[b] = f[b]
      BY <2>2, <3>1 DEF With
    <3>3. QED
      BY <3>2, Zenon DEF f, g, v
  <2>14. ASSUME NEW j \in 1 .. m
         PROVE  IF j <= i THEN Rewritten(y.forms[ids[j]], forms[ids[j]])
                ELSE y.forms[ids[j]] = forms[ids[j]]
    <3>1. CASE j = i
      <4>1. Rewritten(y.forms[ids[j]], forms[ids[j]])
        BY <2>9, <2>13, <2>7, <3>1 DEF p
      <4>2. QED
        BY <3>1, <4>1
    <3>2. CASE j # i
      <4>1. ids[j] \in DOMAIN forms /\ ids[j] # a /\ y.forms[ids[j]] = x.forms[ids[j]]
        BY <1>4, <2>2, <2>13, <3>2
      <4>2. j <= i <=> j <= i - 1
        BY <1>1, <3>2
      <4>3. IF j <= i - 1 THEN Rewritten(x.forms[ids[j]], forms[ids[j]])
            ELSE x.forms[ids[j]] = forms[ids[j]]
        BY <2>1
      <4>4. QED
        BY <4>1, <4>2, <4>3
    <3>3. QED
      BY <3>1, <3>2
  <2>15. Good(y, i)
    BY <2>12, <2>13, <2>14
  <2>16. QED
    BY <2>15 DEF y
<1> HIDE DEF Good
<1>7. Good(s, m)
  <2> DEFINE good == {i \in 0 .. m : Good(c[i], i)}
  <2>1. 0 \in good
    BY <1>1, <1>5
  <2>2. ASSUME NEW i \in 1 .. m, i - 1 \in good PROVE i \in good
    BY <1>1, <1>6, <2>2
  <2> HIDE DEF good
  <2>3. \A i \in 0 .. m : i \in good
    BY <1>1, <2>1, <2>2, AllAlong
  <2>4. m \in good
    BY <1>1, <2>3
  <2>5. QED
    BY <1>3, <2>4 DEF good
<1>8. \A a \in DOMAIN forms : \E j \in 1 .. m : ids[j] = a
  BY DEF Lists, m
<1>9. s.ok /\ DOMAIN s.forms = DOMAIN forms /\ \A j \in 1 .. m : Rewritten(s.forms[ids[j]], forms[ids[j]])
  <2>1. \A j \in 1 .. m : j <= m
    BY <1>1
  <2>2. /\ s.ok /\ DOMAIN s.forms = DOMAIN forms
        /\ \A j \in 1 .. m : IF j <= m THEN Rewritten(s.forms[ids[j]], forms[ids[j]])
                              ELSE s.forms[ids[j]] = forms[ids[j]]
    BY <1>7 DEF Good
  <2>3. QED
    BY <2>1, <2>2
<1>10. QED
  BY <1>8, <1>9

\* The invariant implies DefaultsKept.
LEMMA DefaultsStay ==
  ASSUME StructureInv
  PROVE  DefaultsKept
<1> SUFFICES ASSUME NEW tree \in Loaded, NEW s, s = UpdateStructure(tree)
             PROVE  s.ok /\ DefaultsOf(s.forms) = DefaultsOf(forms)
  BY Zenon DEF DefaultsKept
<1>1. nextKey \in Nat /\ DOMAIN forms \subseteq 1 .. nextKey - 1
      /\ \A a \in DOMAIN forms : DOMAIN forms[a] \subseteq 1 .. nextKey - 1
  BY DEF StructureInv, GoodForms
<1>2. PICK ids, order :
         /\ tree = Reading(ids, order)
         /\ Lists(ids, DOMAIN forms)
         /\ \A a \in DOMAIN forms : Lists(order[a], DOMAIN forms[a])
  BY <1>1, LoadedIs
<1> DEFINE kept == {tree[i].id : i \in DOMAIN tree}
           free == (DOMAIN forms \ kept) \cap Used = {}
           f0 == Only(forms, kept)
<1>3. s = AllographsFolded(free, nextKey, f0, tree)
  BY Zenon DEF UpdateStructure, AllographsFolded
<1>4. DOMAIN tree = DOMAIN ids /\ \A i \in DOMAIN ids : tree[i].id = ids[i]
  BY <1>2 DEF Reading
<1>5. DOMAIN forms \subseteq kept
  BY <1>2, <1>4, ListsDomain DEF Lists
<1>6. DOMAIN f0 = DOMAIN forms /\ \A a \in DOMAIN forms : f0[a] = forms[a]
  BY <1>5 DEF Only
<1>7. free
  BY <1>5
<1> HIDE DEF kept, free, f0
<1>8. /\ s.ok /\ DOMAIN s.forms = DOMAIN forms
      /\ \A a \in DOMAIN forms : Rewritten(s.forms[a], forms[a])
  <2>1. GoodForms(forms, nextKey)
    BY DEF StructureInv
  <2>2. QED
    BY <1>2, <1>3, <1>6, <1>7, <2>1, AllographsReread
<1>9. \A a \in DOMAIN forms : {Defaults(s.forms[a][r]) : r \in DOMAIN s.forms[a]}
                               = {Defaults(forms[a][r]) : r \in DOMAIN forms[a]}
  <2> SUFFICES ASSUME NEW a \in DOMAIN forms
               PROVE  {Defaults(s.forms[a][r]) : r \in DOMAIN s.forms[a]}
                        = {Defaults(forms[a][r]) : r \in DOMAIN forms[a]}
    OBVIOUS
  <2>1. Rewritten(s.forms[a], forms[a])
    BY <1>8
  <2>2. DefaultsIn(s.forms[a]) = DefaultsIn(forms[a])
    BY <2>1, SameDefaults
  <2>3. QED
    BY <2>2, Zenon DEF DefaultsIn
<1>10. DefaultsOf(s.forms) = DefaultsOf(forms)
  <2> DEFINE A(a) == {Defaults(s.forms[a][r]) : r \in DOMAIN s.forms[a]}
             B(a) == {Defaults(forms[a][r]) : r \in DOMAIN forms[a]}
  <2>1. DefaultsOf(s.forms) = [a \in DOMAIN s.forms |-> A(a)] /\ DefaultsOf(forms) = [a \in DOMAIN forms |-> B(a)]
    BY Zenon DEF DefaultsOf
  <2>2. \A a \in DOMAIN forms : A(a) = B(a)
    BY <1>9
  <2> HIDE DEF A, B
  <2>3. QED
    BY <1>8, <2>1, <2>2
<1>11. QED
  BY <1>8, <1>10

\* Saving the form as it was loaded leaves every default that the public list
\* shows (get_allographs of the form, get_features of the list, update_structure).
THEOREM DefaultsKeptAlways == FormsSpec => []DefaultsKept
<1>1. StructureInv => DefaultsKept
  BY DefaultsStay
<1>2. QED
  BY <1>1, StructureAlways, PTL

=============================================================================
