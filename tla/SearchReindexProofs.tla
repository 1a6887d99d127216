------------------------- MODULE SearchReindexProofs -------------------------
(***************************************************************************)
(* The safety of the atomic rebuild, for any number of workers, batches    *)
(* and rebuilds, as long as the lock does its work: rebuilds raise, time   *)
(* out, crash and leave tasks in the queue at any point, add-documents     *)
(* tasks fail, and the lock may outlive its holder.  What the code         *)
(* promises of whole rebuilds holds as long as no add-documents task fails.*)
(***************************************************************************)
EXTENDS SearchReindex, TLAPS, SequenceTheorems

\* The faults under which two rebuilds run side by side, and the one under
\* which a rebuild goes live with holes (the run SearchReindexTorn shows it).
LockWorks == Faults \cap {"slowHolder", "lockDown"} = {}
AddsKept == "addFails" \notin Faults
SafeFaults == LockWorks /\ AddsKept

Positions == 1 .. Len(queue)

\* The tasks that touch the staging index.
BuildOps == {"dropBuild", "createBuild", "settingsBuild", "add", "swap"}
NoBuildTask == \A i \in Positions : queue[i].op \notin BuildOps
OnlyBuildTask(op) == \A i \in Positions : queue[i].op \in BuildOps => queue[i].op = op

-----------------------------------------------------------------------------
\* A worker performs a rebuild exactly while it holds the lock, and the lock
\* key carries the number of that rebuild.
LockInv ==
  /\ lock <= started
  /\ \A w \in Workers :
       /\ run[w] # 0 => lock = run[w]
       /\ holds[w] <=> run[w] # 0
       /\ pc[w] \in {"idle", "lock", "clear"} => run[w] = 0
       /\ pc[w] \in Section \ {"ensure", "settings"} => run[w] # 0
       /\ pc[w] \in {"idle", "lock", "batches", "release"} => ~waiting[w]
  /\ \A v, w \in Workers : run[v] # 0 /\ run[v] = run[w] => v = w

\* What the queue holds of the staging index: one task, or the batches of one
\* rebuild with its swap behind them, on an index that is fit to go live.
QueueInv ==
  /\ \A i, j \in Positions :
       i < j /\ queue[i].op \in BuildOps /\ queue[j].op \in BuildOps =>
         /\ queue[i].op = "add" /\ queue[j].op \in {"add", "swap"}
         /\ queue[i].run = queue[j].run
  /\ \A i \in Positions : queue[i].op \in {"add", "swap"} =>
       /\ build.exists /\ build.settings
       /\ queue[i].run \in 1 .. started
       /\ \A b \in Batches : build.docs[b] \in {0, queue[i].run}
       /\ \A g \in published : g < queue[i].run
  /\ \A i \in Positions : queue[i].op = "add" => queue[i].batch \in Batches
  /\ \A i \in Positions : queue[i].op = "swap" =>
       /\ live.exists
       /\ AddsKept =>
            \A b \in Batches : \/ build.docs[b] = queue[i].run
                              \/ \E j \in 1 .. i - 1 : /\ queue[j].op = "add"
                                                       /\ queue[j].batch = b

\* Batch b of w's rebuild is in the staging index or on its way there.
Sent(w, b) ==
  \/ build.docs[b] = run[w]
  \/ \E i \in Positions : queue[i].op = "add" /\ queue[i].batch = b

\* Where a rebuild is tells what the staging index and the queue hold.  Until
\* it waits for its swap, it is newer than everything readers ever saw or that
\* is queued for them, and until it comes to its batches it has sent none.
Newer(w) ==
  /\ pc[w] \in Section \ {"swap", "dropOld", "release"} \/ (pc[w] = "swap" /\ ~waiting[w]) =>
       \A g \in published : g < run[w]
  /\ pc[w] \in Section \ {"batches", "swap", "dropOld", "release"} => next[w] = 1
  /\ pc[w] \in {"ensure", "settings"} =>
       \A i \in Positions : queue[i].op \in {"add", "swap"} => queue[i].run < run[w]

\* What earlier rebuilds left in the queue is processed before the first task
\* w waits for.
AtSettings(w) ==
  pc[w] = "settings" /\ waiting[w] =>
    /\ \A i \in Positions : queue[i].op \in BuildOps =>
         \E j \in Positions : j > i /\ queue[j].by = w
    /\ live.exists \/ \E i \in Positions : queue[i].op = "settingsLive" /\ queue[i].by = w

\* From then on the staging index is touched by nobody else.
Owned(w) ==
  pc[w] \in {"drop", "create", "buildSettings", "batches", "swap", "dropOld"} =>
    /\ live.exists
    /\ \A i \in Positions : queue[i].op \in BuildOps => queue[i].by = w

Quiet(w) ==
  pc[w] \in {"drop", "create", "buildSettings", "dropOld"} /\ ~waiting[w] => NoBuildTask

AtDrop(w) ==
  pc[w] = "drop" /\ waiting[w] =>
    /\ OnlyBuildTask("dropBuild")
    /\ NoBuildTask => build = Missing

AtCreate(w) ==
  pc[w] = "create" =>
    /\ build.docs = NoDocuments
    /\ waiting[w] => OnlyBuildTask("createBuild")

AtBuildSettings(w) ==
  pc[w] = "buildSettings" =>
    /\ build.docs = NoDocuments
    /\ waiting[w] => /\ OnlyBuildTask("settingsBuild")
                     /\ NoBuildTask => build.exists /\ build.settings

AtBatches(w) ==
  pc[w] = "batches" \/ (pc[w] = "swap" /\ ~waiting[w]) =>
    /\ build.exists /\ build.settings
    /\ OnlyBuildTask("add")
    /\ \A i \in Positions : queue[i].op = "add" => queue[i].run = run[w]
    /\ \A b \in Batches : build.docs[b] \in {0, run[w]}
    /\ AddsKept => \A b \in Batches : b < next[w] => Sent(w, b)
    /\ pc[w] = "swap" => next[w] = NBatches + 1

AtSwap(w) ==
  /\ pc[w] = "swap" /\ waiting[w] =>
       /\ \A i \in Positions : queue[i].op = "swap" => queue[i].run = run[w]
       /\ AddsKept => run[w] \in published \/ \E i \in Positions : queue[i].op = "swap"
  /\ AddsKept /\ pc[w] = "dropOld" => run[w] \in published

PhaseInv(w) ==
  run[w] # 0 =>
    /\ Newer(w) /\ AtSettings(w) /\ Owned(w) /\ Quiet(w)
    /\ AtDrop(w) /\ AtCreate(w) /\ AtBuildSettings(w) /\ AtBatches(w) /\ AtSwap(w)

LiveInv ==
  /\ NeverMixed
  /\ \A g \in Runs : live.docs = AllFrom(g) => g \in published
  /\ LiveConfigured
  /\ \A g \in published : g <= started
  /\ AddsKept => /\ live.docs = NoDocuments \/ \E g \in published : live.docs = AllFrom(g)
                 /\ SuccessMeansPublished

\* The inductive invariant: none of its parts can be left out.  That the live
\* index is not mixed, and whole when no task fails, rests on what is queued
\* before a swap (QueueInv), that on what a rebuild knows when it enqueues
\* (PhaseInv), and that on no other rebuild being inside the section (LockInv).
Inv == TypeOK /\ LockInv /\ QueueInv /\ (\A w \in Workers : PhaseInv(w)) /\ LiveInv

-----------------------------------------------------------------------------
(* Lemmas about the queue and the indexes.                                 *)

\* Appending a task keeps every earlier task in its place.
LEMMA AppendFacts ==
  ASSUME NEW S, NEW q \in Seq(S), NEW e \in S
  PROVE  /\ Append(q, e) \in Seq(S)
         /\ Len(q) \in Nat
         /\ Len(Append(q, e)) = Len(q) + 1
         /\ \A i \in 1 .. Len(q) : Append(q, e)[i] = q[i]
         /\ Append(q, e)[Len(q) + 1] = e
BY AppendProperties, LenProperties

\* Processing the head moves every other task one place forward.
LEMMA TailFacts ==
  ASSUME NEW S, NEW q \in Seq(S), q # <<>>
  PROVE  /\ Tail(q) \in Seq(S)
         /\ Len(q) \in Nat \ {0}
         /\ Len(Tail(q)) = Len(q) - 1
         /\ \A i \in 1 .. Len(Tail(q)) : Tail(q)[i] = q[i + 1]
         /\ Head(q) = q[1]
         /\ q[1] \in S
BY HeadTailProperties, LenProperties, EmptySeq, ElementOfSeq

\* No rebuild is the empty one: there is at least one batch.
LEMMA DocsFacts ==
  /\ NoDocuments \in [Batches -> 0 .. MaxRuns]
  /\ \A g \in Runs : AllFrom(g) \in [Batches -> 0 .. MaxRuns] /\ AllFrom(g) # NoDocuments
  /\ \A g, h \in Runs : AllFrom(g) = AllFrom(h) => g = h
  /\ Missing \in Index
  /\ 1 \in Batches
<1>1. 1 \in Batches
  BY BoundsAssumption DEF Batches
<1>2. \A g \in Runs : AllFrom(g)[1] = g /\ NoDocuments[1] = 0
  BY <1>1 DEF AllFrom, NoDocuments
<1>. QED
  BY <1>1, <1>2, BoundsAssumption DEF NoDocuments, AllFrom, Missing, Index, Runs

-----------------------------------------------------------------------------
(* Type correctness, under any faults.                                     *)

LEMMA TaskType ==
  ASSUME TypeOK, NEW w \in Workers, NEW op \in Ops, NEW b \in 0 .. NBatches,
         Enqueue(w, op, b)
  PROVE  queue' \in Seq(Task)
<1>1. [op |-> op, by |-> w, run |-> run[w], batch |-> b] \in Task
  BY DEF TypeOK, Task
<1>. QED
  BY <1>1, AppendFacts DEF TypeOK, Enqueue

LEMMA CallAndWaitType ==
  ASSUME TypeOK, NEW w \in Workers, NEW phase, NEW op \in Ops, CallAndWait(w, phase, op)
  PROVE  TypeOK'
<1>1. 0 \in 0 .. NBatches
  BY BoundsAssumption
<1>2. queue' \in Seq(Task)
  BY <1>1, TaskType DEF CallAndWait
<1>. QED
  BY <1>2 DEF TypeOK, CallAndWait, lockVars, history

LEMMA WaitReturnsType ==
  ASSUME TypeOK, NEW w \in Workers, NEW phase, NEW then \in Phases,
         WaitReturns(w, phase, then), published' \subseteq Runs, succeeded' \subseteq 0 .. MaxRuns
  PROVE  TypeOK'
BY DEF TypeOK, WaitReturns, lockVars, serverVars

LEMMA AwaitedType ==
  ASSUME TypeOK, NEW w \in Workers, NEW phase, NEW op \in Ops, NEW then \in Phases,
         Awaited(w, phase, op, then)
  PROVE  TypeOK'
<1>1. CASE CallAndWait(w, phase, op)
  BY <1>1, CallAndWaitType
<1>2. CASE WaitReturns(w, phase, then) /\ UNCHANGED history
  BY <1>2, WaitReturnsType DEF TypeOK, history
<1>. QED
  BY <1>1, <1>2 DEF Awaited

LEMMA EffectType ==
  ASSUME TypeOK, NEW t \in Task, Effect(t)
  PROVE  live' \in Index /\ build' \in Index
<1>1. live \in Index /\ build \in Index /\ t.run \in 0 .. MaxRuns
  BY DEF TypeOK, Task
<1>2. CASE live' = [live EXCEPT !.exists = TRUE] /\ UNCHANGED build
  BY <1>1, <1>2 DEF Index
<1>3. CASE live' = [live EXCEPT !.exists = TRUE, !.settings = TRUE] /\ UNCHANGED build
  BY <1>1, <1>3 DEF Index
<1>4. CASE live' = [live EXCEPT !.docs = NoDocuments] /\ UNCHANGED build
  BY <1>1, <1>4, DocsFacts DEF Index
<1>5. CASE build' = Missing /\ UNCHANGED live
  BY <1>1, <1>5, DocsFacts
<1>6. CASE build' = [build EXCEPT !.exists = TRUE] /\ UNCHANGED live
  BY <1>1, <1>6 DEF Index
<1>7. CASE build' = [build EXCEPT !.exists = TRUE, !.settings = TRUE] /\ UNCHANGED live
  BY <1>1, <1>7 DEF Index
<1>8. CASE /\ build' = [build EXCEPT !.exists = TRUE, !.docs = [@ EXCEPT ![t.batch] = t.run]]
           /\ UNCHANGED live
  BY <1>1, <1>8 DEF Index
<1>9. CASE live' = build /\ build' = live
  BY <1>1, <1>9
<1>10. CASE UNCHANGED <<live, build>>
  BY <1>1, <1>10
<1>. QED
  BY <1>2, <1>3, <1>4, <1>5, <1>6, <1>7, <1>8, <1>9, <1>10 DEF Effect

LEMMA TypeStep == TypeOK /\ [Next]_vars => TypeOK'
<1> SUFFICES ASSUME TypeOK, [Next]_vars PROVE TypeOK'
  OBVIOUS
<1> USE BoundsAssumption DEF Phases, Section
<1>a. ASSUME NEW w \in Workers, JobStep(w) PROVE TypeOK'
  <2>1. CASE AcquireLock(w)
    BY <2>1 DEF TypeOK, AcquireLock, Enter, serverVars, history
  <2>2. CASE LockRefused(w)
    BY <2>2 DEF TypeOK, LockRefused, lockVars, serverVars, history
  <2>3. CASE ReleaseLock(w)
    BY <2>3 DEF TypeOK, ReleaseLock, serverVars, history
  <2>4. CASE EnsureIndex(w)
    <3>1. CASE /\ pc' = [pc EXCEPT ![w] = "settings"]
               /\ UNCHANGED <<waiting, run, next, holds, lockVars, serverVars, history>>
      BY <3>1 DEF TypeOK, lockVars, serverVars, history
    <3>2. CASE CallAndWait(w, "ensure", "createLive")
      BY <3>2, CallAndWaitType DEF Ops
    <3>3. CASE WaitReturns(w, "ensure", "settings") /\ UNCHANGED history
      BY <3>3, WaitReturnsType DEF history, TypeOK
    <3>. QED
      BY <2>4, <3>1, <3>2, <3>3 DEF EnsureIndex
  <2>5. CASE ApplySettings(w)
    BY <2>5, AwaitedType DEF ApplySettings, Ops
  <2>6. CASE PrepareBuild(w)
    BY <2>6, AwaitedType DEF PrepareBuild, Ops
  <2>7. CASE IndexBatch(w)
    <3>. next[w] \in 1 .. NBatches + 1 /\ waiting' = waiting /\ run' = run /\ holds' = holds
         /\ lock' = lock /\ started' = started /\ live' = live /\ build' = build
         /\ published' = published /\ succeeded' = succeeded
      BY <2>7 DEF TypeOK, IndexBatch, lockVars, history
    <3>1. CASE /\ next[w] <= NBatches /\ Enqueue(w, "add", next[w])
               /\ next' = [next EXCEPT ![w] = @ + 1] /\ UNCHANGED pc
      <4>1. next[w] \in 0 .. NBatches /\ next[w] + 1 \in 1 .. NBatches + 1
        BY <3>1
      <4>2. queue' \in Seq(Task)
        BY <3>1, <4>1, TaskType DEF Ops
      <4>. QED
        BY <3>1, <4>1, <4>2 DEF TypeOK
    <3>2. CASE pc' = [pc EXCEPT ![w] = "swap"] /\ UNCHANGED <<next, queue>>
      BY <3>2 DEF TypeOK
    <3>. QED
      BY <2>7, <3>1, <3>2 DEF IndexBatch
  <2>8. CASE SwapWithBuild(w)
    BY <2>8, AwaitedType DEF SwapWithBuild, Ops
  <2>9. CASE DropBuild(w)
    <3>1. CASE CallAndWait(w, "dropOld", "dropBuild")
      BY <3>1, CallAndWaitType DEF Ops
    <3>2. CASE /\ WaitReturns(w, "dropOld", "release")
               /\ succeeded' = succeeded \cup {run[w]} /\ UNCHANGED published
      BY <3>2, WaitReturnsType DEF TypeOK, Runs
    <3>. QED
      BY <2>9, <3>1, <3>2 DEF DropBuild
  <2>10. CASE ClearIndex(w)
    BY <2>10, AwaitedType DEF ClearIndex, Ops
  <2>. QED
    BY <1>a, <2>1, <2>2, <2>3, <2>4, <2>5, <2>6, <2>7, <2>8, <2>9, <2>10 DEF JobStep
<1>b. ASSUME NEW w \in Workers, StartReindex(w) PROVE TypeOK'
  BY <1>b DEF TypeOK, StartReindex, lockVars, serverVars, history
<1>c. ASSUME NEW w \in Workers, StartUnlocked(w) PROVE TypeOK'
  BY <1>c DEF TypeOK, StartUnlocked, lockVars, serverVars, history
<1>d. ASSUME NEW w \in Workers, LockUnavailable(w) PROVE TypeOK'
  BY <1>d DEF TypeOK, LockUnavailable, Enter, serverVars, history
<1>e. ASSUME NEW w \in Workers, JobRaises(w) PROVE TypeOK'
  BY <1>e DEF TypeOK, JobRaises, lockVars, serverVars, history
<1>f. ASSUME NEW w \in Workers, WorkerCrash(w) PROVE TypeOK'
  BY <1>f DEF TypeOK, WorkerCrash, lockVars, serverVars, history
<1>g. CASE LockExpires
  BY <1>g DEF TypeOK, LockExpires, jobVars, serverVars, history
<1>h. CASE ProcessTask
  <2>1. Tail(queue) \in Seq(Task) /\ Head(queue) \in Task
    BY <1>h, TailFacts DEF ProcessTask, TypeOK
  <2>2. live' \in Index /\ build' \in Index
    BY <1>h, <2>1, EffectType DEF ProcessTask, TypeOK
  <2>. QED
    BY <1>h, <2>1, <2>2 DEF ProcessTask, TypeOK, jobVars, lockVars
<1>i. CASE UNCHANGED vars
  BY <1>i DEF TypeOK, vars, jobVars, lockVars, serverVars, history
<1>. QED
  BY <1>a, <1>b, <1>c, <1>d, <1>e, <1>f, <1>g, <1>h, <1>i DEF Next

\* Every variable keeps its type, whatever the environment does.
THEOREM TypeCorrect == Spec => []TypeOK
<1>1. ASSUME Init PROVE TypeOK
  <2>1. live \in Index /\ build \in Index
    BY <1>1, DocsFacts DEF Init, Index
  <2>. QED
    BY <1>1, <2>1, EmptySeq, BoundsAssumption DEF Init, TypeOK, Phases, Section
<1>. QED
  BY <1>1, TypeStep, PTL DEF Spec

-----------------------------------------------------------------------------
(* Mutual exclusion.                                                       *)

\* A step that leaves the lock and every rebuild's number alone, and moves
\* only worker w within or between phases, keeps LockInv.
LEMMA LockFrame ==
  ASSUME TypeOK, LockInv, NEW w \in Workers, NEW p \in Phases, NEW x \in BOOLEAN,
         pc' = [pc EXCEPT ![w] = p], waiting' = [waiting EXCEPT ![w] = x],
         UNCHANGED <<run, holds, lock, started>>,
         p \in {"idle", "lock", "clear"} => run[w] = 0,
         p \in Section \ {"ensure", "settings"} => run[w] # 0,
         p \in {"idle", "lock", "batches", "release"} => ~x
  PROVE  LockInv'
BY DEF TypeOK, LockInv

LEMMA LockCall ==
  ASSUME TypeOK, LockInv, NEW w \in Workers, NEW phase, NEW op,
         phase \notin {"idle", "lock", "batches", "release"},
         CallAndWait(w, phase, op)
  PROVE  LockInv'
BY DEF TypeOK, LockInv, CallAndWait, lockVars

LEMMA LockWait ==
  ASSUME TypeOK, LockInv, NEW w \in Workers, NEW phase, NEW then \in Phases,
         WaitReturns(w, phase, then),
         then \in {"idle", "lock", "clear"} => run[w] = 0,
         then \in Section \ {"ensure", "settings"} => run[w] # 0
  PROVE  LockInv'
<1>1. /\ pc' = [pc EXCEPT ![w] = then] /\ waiting' = [waiting EXCEPT ![w] = FALSE]
      /\ UNCHANGED <<run, holds, lock, started>>
  BY DEF WaitReturns, lockVars
<1>. QED
  BY <1>1, LockFrame

LEMMA LockAwaited ==
  ASSUME TypeOK, LockInv, NEW w \in Workers, NEW phase, NEW op, NEW then \in Phases,
         phase \notin {"idle", "lock", "batches", "release"},
         Awaited(w, phase, op, then),
         then \in {"idle", "lock", "clear"} => run[w] = 0 \/ pc[w] # phase,
         then \in Section \ {"ensure", "settings"} => run[w] # 0 \/ pc[w] # phase
  PROVE  LockInv'
<1>1. CASE CallAndWait(w, phase, op)
  BY <1>1, LockCall
<1>2. CASE WaitReturns(w, phase, then)
  <2>1. pc[w] = phase
    BY <1>2 DEF WaitReturns
  <2>. QED
    BY <1>2, <2>1, LockWait
<1>. QED
  BY <1>1, <1>2 DEF Awaited

LEMMA LockStep ==
  ASSUME LockWorks, TypeOK, LockInv, [Next]_vars
  PROVE  LockInv'
<1> USE BoundsAssumption DEF Phases, Section
<1>0. "slowHolder" \notin Faults /\ "lockDown" \notin Faults
  BY DEF LockWorks
<1>1. ASSUME NEW w \in Workers, JobStep(w) PROVE LockInv'
  <2>1. CASE AcquireLock(w)
    BY <2>1 DEF TypeOK, LockInv, AcquireLock, Enter, serverVars, history
  <2>2. CASE LockRefused(w)
    BY <2>2 DEF TypeOK, LockInv, LockRefused, lockVars
  <2>3. CASE ReleaseLock(w)
    BY <2>3 DEF TypeOK, LockInv, ReleaseLock
  <2>4. CASE EnsureIndex(w)
    <3>1. CASE /\ pc[w] = "ensure" /\ pc' = [pc EXCEPT ![w] = "settings"]
               /\ UNCHANGED <<waiting, run, next, holds, lockVars, serverVars, history>>
      BY <3>1 DEF TypeOK, LockInv, lockVars
    <3>2. CASE CallAndWait(w, "ensure", "createLive")
      BY <3>2, LockCall
    <3>3. CASE WaitReturns(w, "ensure", "settings")
      BY <3>3, LockWait
    <3>. QED
      BY <2>4, <3>1, <3>2, <3>3 DEF EnsureIndex
  <2>5. CASE ApplySettings(w)
    BY <2>5, LockAwaited DEF ApplySettings
  <2>6. CASE PrepareBuild(w)
    BY <2>6, LockAwaited DEF PrepareBuild, LockInv
  <2>7. CASE IndexBatch(w)
    BY <2>7 DEF TypeOK, LockInv, IndexBatch, lockVars
  <2>8. CASE SwapWithBuild(w)
    BY <2>8, LockAwaited DEF SwapWithBuild, LockInv
  <2>9. CASE DropBuild(w)
    <3>1. CASE CallAndWait(w, "dropOld", "dropBuild")
      BY <3>1, LockCall
    <3>2. CASE WaitReturns(w, "dropOld", "release")
      <4>1. run[w] # 0
        BY <3>2 DEF WaitReturns, LockInv
      <4>. QED
        BY <3>2, <4>1, LockWait
    <3>. QED
      BY <2>9, <3>1, <3>2 DEF DropBuild
  <2>10. CASE ClearIndex(w)
    BY <2>10, LockAwaited DEF ClearIndex, LockInv
  <2>. QED
    BY <1>1, <2>1, <2>2, <2>3, <2>4, <2>5, <2>6, <2>7, <2>8, <2>9, <2>10 DEF JobStep
<1>2. ASSUME NEW w \in Workers, StartReindex(w) PROVE LockInv'
  BY <1>2 DEF TypeOK, LockInv, StartReindex, lockVars
<1>3. ASSUME NEW w \in Workers, StartUnlocked(w) PROVE LockInv'
  BY <1>3 DEF TypeOK, LockInv, StartUnlocked, lockVars
<1>4. ASSUME NEW w \in Workers, LockUnavailable(w) PROVE LockInv'
  BY <1>0, <1>4 DEF LockUnavailable
<1>5. ASSUME NEW w \in Workers, JobRaises(w) PROVE LockInv'
  BY <1>5 DEF TypeOK, LockInv, JobRaises, lockVars
<1>6. ASSUME NEW w \in Workers, WorkerCrash(w) PROVE LockInv'
  BY <1>6 DEF TypeOK, LockInv, WorkerCrash, lockVars
<1>7. CASE LockExpires
  BY <1>0, <1>7 DEF TypeOK, LockInv, LockExpires, jobVars
<1>8. CASE ProcessTask
  BY <1>8 DEF LockInv, ProcessTask, jobVars, lockVars
<1>9. CASE UNCHANGED vars
  BY <1>9 DEF LockInv, vars, jobVars, lockVars
<1>. QED
  BY <1>1, <1>2, <1>3, <1>4, <1>5, <1>6, <1>7, <1>8, <1>9 DEF Next

\* reindex_lock serializes the section from ensure_index to drop_build_index,
\* through crashes, expiring keys and releases that fail.
THEOREM MutualExclusion ==
  ASSUME LockWorks
  PROVE  Spec => []OneRebuild
<1>1. Init => LockInv
  BY BoundsAssumption DEF Init, LockInv, Section
<1>2. LockInv => OneRebuild
  BY DEF LockInv, OneRebuild, InSection
<1>3. TypeOK /\ LockInv /\ [Next]_vars => LockInv'
  BY LockStep
<1>. QED
  BY <1>1, <1>2, <1>3, TypeCorrect, PTL DEF Spec

-----------------------------------------------------------------------------
(* What is in the indexes and in the queue: frame lemmas.                  *)

\* While w performs a rebuild, nobody else does.
LEMMA Alone ==
  ASSUME LockInv, NEW w \in Workers, run[w] # 0
  PROVE  \A v \in Workers : v # w => run[v] = 0
BY DEF LockInv

LEMMA QueueSame ==
  ASSUME TypeOK, QueueInv, UNCHANGED <<queue, live, build, published>>,
         started' \in Nat, started <= started'
  PROVE  QueueInv'
BY DEF TypeOK, QueueInv, Positions, BuildOps

LEMMA LiveSame ==
  ASSUME TypeOK, LiveInv, UNCHANGED <<live, history>>, started' \in Nat, started <= started'
  PROVE  LiveInv'
<1>1. NeverMixed'
  BY DEF LiveInv, NeverMixed
<1>2. LiveConfigured' /\ (AddsKept => SuccessMeansPublished')
  BY DEF LiveInv, LiveConfigured, SuccessMeansPublished, history
<1>3. \A g \in published' : g <= started'
  BY BoundsAssumption DEF TypeOK, LiveInv, history, Runs
<1>. QED
  BY <1>1, <1>2, <1>3 DEF LiveInv, history

LEMMA PhaseSame ==
  ASSUME NEW v \in Workers, PhaseInv(v), UNCHANGED <<queue, live, build, published>>,
         pc'[v] = pc[v], waiting'[v] = waiting[v], run'[v] = run[v], next'[v] = next[v]
  PROVE  PhaseInv(v)'
BY DEF PhaseInv, Newer, AtSettings, Owned, Quiet, AtDrop, AtCreate, AtBuildSettings,
       AtBatches, AtSwap, Positions, NoBuildTask, OnlyBuildTask, Sent

\* What Enqueue does to the positions of the queue.
LEMMA Enqueued ==
  ASSUME TypeOK, NEW w \in Workers, NEW op \in Ops, NEW b \in 0 .. NBatches,
         Enqueue(w, op, b)
  PROVE  /\ Len(queue) \in Nat
         /\ Len(queue') = Len(queue) + 1
         /\ \A i \in 1 .. Len(queue) : queue'[i] = queue[i] /\ queue[i] \in Task
         /\ queue'[Len(queue) + 1].op = op
         /\ queue'[Len(queue) + 1].by = w
         /\ queue'[Len(queue) + 1].run = run[w]
         /\ queue'[Len(queue) + 1].batch = b
<1>1. [op |-> op, by |-> w, run |-> run[w], batch |-> b] \in Task
  BY DEF TypeOK, Task
<1>. QED
  BY <1>1, AppendFacts, ElementOfSeq DEF TypeOK, Enqueue

\* A task that does not touch the staging index disturbs nobody.
LEMMA LiveTaskQueue ==
  ASSUME TypeOK, QueueInv, NEW w \in Workers, NEW op \in Ops \ BuildOps, Enqueue(w, op, 0),
         UNCHANGED <<live, build, published, started>>
  PROVE  QueueInv'
<1>. /\ Len(queue) \in Nat
     /\ Len(queue') = Len(queue) + 1
     /\ \A i \in 1 .. Len(queue) : queue'[i] = queue[i]
     /\ queue'[Len(queue) + 1].op = op
  BY Enqueued, BoundsAssumption
<1>. QED
  BY DEF QueueInv, Positions, BuildOps

LEMMA LiveTaskPhase ==
  ASSUME TypeOK, NEW w \in Workers, NEW op \in Ops \ BuildOps, Enqueue(w, op, 0),
         UNCHANGED <<live, build, published>>,
         NEW v \in Workers, PhaseInv(v),
         pc'[v] = pc[v], waiting'[v] = waiting[v], run'[v] = run[v], next'[v] = next[v]
  PROVE  PhaseInv(v)'
<1>. /\ Len(queue) \in Nat
     /\ Len(queue') = Len(queue) + 1
     /\ \A i \in 1 .. Len(queue) : queue'[i] = queue[i]
     /\ queue'[Len(queue) + 1].op = op
  BY Enqueued, BoundsAssumption
<1>. SUFFICES ASSUME run[v] # 0 PROVE PhaseInv(v)'
  BY DEF PhaseInv
<1>1. Newer(v)'
  BY DEF PhaseInv, Newer, Positions, BuildOps
<1>2. AtSettings(v)'
  BY DEF PhaseInv, AtSettings, Positions, BuildOps
<1>3. Owned(v)'
  BY DEF PhaseInv, Owned, Positions, BuildOps
<1>4. /\ NoBuildTask' <=> NoBuildTask
      /\ \A o \in BuildOps : OnlyBuildTask(o)' <=> OnlyBuildTask(o)
  BY DEF NoBuildTask, OnlyBuildTask, Positions, BuildOps
<1>5. Quiet(v)' /\ AtDrop(v)' /\ AtCreate(v)' /\ AtBuildSettings(v)'
  BY <1>4 DEF PhaseInv, Quiet, AtDrop, AtCreate, AtBuildSettings, BuildOps
<1>6. AtBatches(v)'
  BY <1>4 DEF PhaseInv, AtBatches, Positions, Sent, BuildOps
<1>7. AtSwap(v)'
  BY DEF PhaseInv, AtSwap, Positions, BuildOps
<1>. QED
  BY <1>1, <1>2, <1>3, <1>5, <1>6, <1>7 DEF PhaseInv

-----------------------------------------------------------------------------
(* Steps that enqueue nothing.                                             *)

\* What has to be shown of a step by w that leaves the server alone.
Content == QueueInv /\ (\A w \in Workers : PhaseInv(w)) /\ LiveInv

LEMMA LocalStep ==
  ASSUME TypeOK, TypeOK', Content, NEW w \in Workers,
         UNCHANGED <<serverVars, history>>, started <= started',
         \A v \in Workers \ {w} : /\ pc'[v] = pc[v] /\ waiting'[v] = waiting[v]
                                  /\ run'[v] = run[v] /\ next'[v] = next[v],
         PhaseInv(w)'
  PROVE  Content'
<1>1. started' \in Nat
  BY BoundsAssumption DEF TypeOK
<1>2. UNCHANGED <<queue, live, build, published, history>>
  BY DEF serverVars, history
<1>3. QueueInv'
  BY <1>1, <1>2, QueueSame DEF Content
<1>4. LiveInv'
  BY <1>1, <1>2, LiveSame DEF Content
<1>5. \A v \in Workers : PhaseInv(v)'
  BY <1>2, PhaseSame DEF Content
<1>. QED
  BY <1>3, <1>4, <1>5 DEF Content

\* A step after which w performs no rebuild, or is about to release its lock.
LEMMA LeaveStep ==
  ASSUME TypeOK, TypeOK', Content, NEW w \in Workers,
         UNCHANGED <<next, serverVars, history>>, started <= started',
         \A v \in Workers \ {w} : /\ pc'[v] = pc[v] /\ waiting'[v] = waiting[v]
                                  /\ run'[v] = run[v],
         run'[w] = 0 \/ pc'[w] = "release"
  PROVE  Content'
<1>1. PhaseInv(w)'
  BY DEF PhaseInv, Newer, AtSettings, Owned, Quiet, AtDrop, AtCreate,
         AtBuildSettings, AtBatches, AtSwap, Section
<1>. QED
  BY <1>1, LocalStep

\* A rebuild past the lock is newer than everything readers ever saw.
LEMMA AcquireContent ==
  ASSUME TypeOK, TypeOK', Content, NEW w \in Workers, AcquireLock(w)
  PROVE  Content'
<1>1. /\ pc'[w] = "ensure" /\ run'[w] = started + 1 /\ started' = started + 1
      /\ \A v \in Workers \ {w} : /\ pc'[v] = pc[v] /\ waiting'[v] = waiting[v]
                                  /\ run'[v] = run[v] /\ next'[v] = next[v]
      /\ UNCHANGED <<serverVars, history>>
      /\ started \in Nat
  BY BoundsAssumption DEF TypeOK, AcquireLock, Enter
<1>n. next'[w] = 1
  BY DEF TypeOK, AcquireLock, Enter
<1>2. \A g \in published' : g <= started /\ g \in Nat
  BY <1>1, BoundsAssumption DEF Content, LiveInv, history, TypeOK, Runs
<1>q. \A i \in Positions' : queue'[i].op \in {"add", "swap"} => queue'[i].run < run'[w]
  BY <1>1 DEF Content, QueueInv, serverVars, Positions
<1>3. Newer(w)'
  BY <1>1, <1>2, <1>n, <1>q DEF Newer
<1>4. PhaseInv(w)'
  BY <1>1, <1>3 DEF PhaseInv, AtSettings, Owned, Quiet, AtDrop, AtCreate,
         AtBuildSettings, AtBatches, AtSwap
<1>. QED
  BY <1>1, <1>4, LocalStep

\* Returning from wait_for_task: nothing of w is left in the queue.
LEMMA WaitFacts ==
  ASSUME TypeOK, NEW w \in Workers, NEW phase, NEW then \in Phases,
         WaitReturns(w, phase, then)
  PROVE  /\ pc[w] = phase /\ waiting[w] /\ pc'[w] = then /\ waiting'[w] = FALSE
         /\ \A v \in Workers \ {w} : pc'[v] = pc[v] /\ waiting'[v] = waiting[v]
         /\ \A i \in Positions : queue[i].by # w
         /\ UNCHANGED <<run, next, started, serverVars>>
         /\ run'[w] = run[w] /\ next'[w] = next[w]
         /\ UNCHANGED <<queue, live, build>>
BY DEF TypeOK, WaitReturns, Positions, lockVars, serverVars

LEMMA WaitContent ==
  ASSUME TypeOK, TypeOK', LockInv, Content, NEW w \in Workers, NEW phase, NEW then \in Phases,
         WaitReturns(w, phase, then), UNCHANGED history,
         \/ run[w] = 0
         \/ <<phase, then>> \in {<<"ensure", "settings">>, <<"settings", "drop">>,
                                 <<"drop", "create">>, <<"create", "buildSettings">>,
                                 <<"buildSettings", "batches">>, <<"swap", "dropOld">>}
  PROVE  Content'
<1>w. /\ pc[w] = phase /\ waiting[w] /\ pc'[w] = then /\ waiting'[w] = FALSE
      /\ \A v \in Workers \ {w} : pc'[v] = pc[v] /\ waiting'[v] = waiting[v]
      /\ \A i \in Positions : queue[i].by # w
      /\ UNCHANGED <<run, next, started, serverVars>>
      /\ run'[w] = run[w] /\ next'[w] = next[w]
      /\ UNCHANGED <<queue, live, build>>
  BY WaitFacts
<1>. started <= started'
  BY <1>w, BoundsAssumption DEF TypeOK
<1>. published' = published
  BY DEF history
<1>p. PhaseInv(w)
  BY DEF Content
<1>1. CASE run[w] = 0
  <2>1. PhaseInv(w)'
    BY <1>1, <1>w DEF PhaseInv
  <2>. QED
    BY <2>1, <1>w, LocalStep
<1>2. CASE run[w] # 0
  <2>n. phase \in {"settings", "drop", "create", "buildSettings", "swap"} =>
          NoBuildTask /\ live.exists
    <3>1. CASE phase = "settings"
      <4>1. AtSettings(w)
        BY <1>2, <1>p DEF PhaseInv
      <4>2. NoBuildTask /\ live.exists
        BY <4>1, <1>w, <3>1 DEF AtSettings, NoBuildTask
      <4>. QED
        BY <4>2
    <3>2. CASE phase \in {"drop", "create", "buildSettings", "swap"}
      BY <1>2, <1>p, <1>w, <3>2 DEF PhaseInv, Owned, NoBuildTask
    <3>. QED
      BY <3>1, <3>2
  <2>q. phase \in {"settings", "drop", "create", "buildSettings", "swap"} =>
          /\ NoBuildTask' /\ live'.exists
          /\ \A i \in 1 .. Len(queue') : queue'[i].op \notin BuildOps
    BY <2>n, <1>w DEF NoBuildTask, Positions
  <2>1. Newer(w)'
    BY <1>2, <1>p, <1>w DEF PhaseInv, Newer, Section, Positions
  <2>2. AtSettings(w)' /\ AtDrop(w)'
    BY <1>2, <1>w DEF AtSettings, AtDrop
  <2>3. Owned(w)' /\ Quiet(w)'
    BY <1>2, <1>w, <2>q DEF Owned, Quiet, Positions
  <2>4. AtCreate(w)'
    <3>1. CASE phase = "drop" /\ then = "create"
      <4>1. build = Missing
        BY <1>2, <1>p, <1>w, <2>n, <3>1 DEF PhaseInv, AtDrop
      <4>. QED
        BY <4>1, <1>w, <3>1 DEF AtCreate, Missing
    <3>2. CASE then # "create"
      BY <1>w, <3>2 DEF AtCreate
    <3>. QED
      BY <1>2, <3>1, <3>2
  <2>5. AtBuildSettings(w)'
    BY <1>2, <1>p, <1>w DEF PhaseInv, AtBuildSettings, AtCreate
  <2>6. AtBatches(w)'
    <3>1. CASE phase = "buildSettings" /\ then = "batches"
      <4>1. build.docs = NoDocuments /\ build.exists /\ build.settings
        BY <1>2, <1>p, <1>w, <2>n, <3>1 DEF PhaseInv, AtBuildSettings
      <4>2. next[w] = 1
        BY <1>2, <1>p, <1>w, <3>1 DEF PhaseInv, Newer, Section
      <4>. QED
        <5>1. \A b \in Batches : build'.docs[b] = 0 /\ ~(b < next'[w])
          BY <4>1, <4>2, <1>w, BoundsAssumption DEF NoDocuments, Batches
        <5>2. OnlyBuildTask("add")' /\ \A i \in Positions' : queue'[i].op # "add"
          BY <2>q, <3>1 DEF OnlyBuildTask, Positions, BuildOps
        <5>. QED
          BY <4>1, <5>1, <5>2, <1>w, <3>1 DEF AtBatches
    <3>2. CASE then \notin {"batches", "swap"}
      BY <1>w, <3>2 DEF AtBatches
    <3>. QED
      BY <1>2, <3>1, <3>2
  <2>7. AtSwap(w)'
    <3>1. CASE phase = "swap" /\ then = "dropOld"
      BY <1>2, <1>p, <1>w, <2>n, <3>1 DEF PhaseInv, AtSwap, NoBuildTask, BuildOps
    <3>2. CASE then # "dropOld"
      BY <1>w, <3>2 DEF AtSwap
    <3>. QED
      BY <1>2, <3>1, <3>2
  <2>8. PhaseInv(w)'
    BY <2>1, <2>2, <2>3, <2>4, <2>5, <2>6, <2>7 DEF PhaseInv
  <2>. QED
    BY <2>8, <1>w, LocalStep
<1>. QED
  BY <1>1, <1>2

-----------------------------------------------------------------------------
(* Steps that enqueue a task.                                              *)

LEMMA CallFacts ==
  ASSUME TypeOK, NEW w \in Workers, NEW phase, NEW op \in Ops, CallAndWait(w, phase, op)
  PROVE  /\ pc[w] = phase /\ ~waiting[w] /\ pc' = pc /\ waiting'[w] = TRUE
         /\ \A v \in Workers \ {w} : waiting'[v] = waiting[v]
         /\ UNCHANGED <<run, next, started, live, build, history, published>>
         /\ Enqueue(w, op, 0) /\ 0 \in 0 .. NBatches
         /\ Len(queue) \in Nat
         /\ Len(queue') = Len(queue) + 1
         /\ \A i \in 1 .. Len(queue) : queue'[i] = queue[i] /\ queue[i] \in Task
         /\ queue'[Len(queue) + 1].op = op
         /\ queue'[Len(queue) + 1].by = w
         /\ queue'[Len(queue) + 1].run = run[w]
<1>1. 0 \in 0 .. NBatches
  BY BoundsAssumption
<1>2. Enqueue(w, op, 0)
  BY DEF CallAndWait
<1>3. /\ pc[w] = phase /\ ~waiting[w] /\ pc' = pc /\ waiting'[w] = TRUE
      /\ \A v \in Workers \ {w} : waiting'[v] = waiting[v]
      /\ UNCHANGED <<run, next, started, live, build, history, published>>
  BY DEF TypeOK, CallAndWait, lockVars, history
<1>. QED
  BY <1>1, <1>2, <1>3, Enqueued

\* createLive, settingsLive and clear.
LEMMA LiveCallContent ==
  ASSUME TypeOK, TypeOK', Content, NEW w \in Workers,
         NEW phase, NEW op \in Ops \ BuildOps, CallAndWait(w, phase, op),
         <<phase, op>> \in {<<"ensure", "createLive">>, <<"settings", "settingsLive">>}
           \/ run[w] = 0
  PROVE  Content'
<1>w. /\ pc[w] = phase /\ ~waiting[w] /\ pc' = pc /\ waiting'[w] = TRUE
      /\ \A v \in Workers \ {w} : waiting'[v] = waiting[v]
      /\ UNCHANGED <<run, next, started, live, build, history, published>>
      /\ Enqueue(w, op, 0)
      /\ Len(queue) \in Nat
      /\ Len(queue') = Len(queue) + 1
      /\ \A i \in 1 .. Len(queue) : queue'[i] = queue[i]
      /\ queue'[Len(queue) + 1].op = op
      /\ queue'[Len(queue) + 1].by = w
  BY CallFacts
<1>1. QueueInv'
  BY <1>w, LiveTaskQueue DEF Content
<1>2. LiveInv'
  BY <1>w, BoundsAssumption, LiveSame DEF Content, TypeOK
<1>3. ASSUME NEW v \in Workers \ {w} PROVE PhaseInv(v)'
  BY <1>w, LiveTaskPhase DEF Content
<1>4. PhaseInv(w)'
  <2>. SUFFICES ASSUME run[w] # 0 PROVE PhaseInv(w)'
    BY <1>w DEF PhaseInv
  <2>1. Newer(w)'
    BY <1>w DEF Content, PhaseInv, Newer, Section, Positions, BuildOps
  <2>2. CASE phase = "ensure"
    BY <1>w, <2>1, <2>2 DEF PhaseInv, AtSettings, Owned, Quiet, AtDrop, AtCreate,
       AtBuildSettings, AtBatches, AtSwap
  <2>3. CASE phase = "settings" /\ op = "settingsLive"
    <3>1. AtSettings(w)'
      <4>1. ASSUME NEW i \in Positions', queue'[i].op \in BuildOps
            PROVE  Len(queue) + 1 \in Positions' /\ Len(queue) + 1 > i
        BY <4>1, <1>w DEF Positions
      <4>2. Len(queue) + 1 \in Positions'
        BY <1>w DEF Positions
      <4>. QED
        BY <4>1, <4>2, <1>w, <2>3 DEF AtSettings
    <3>. QED
      BY <1>w, <2>1, <2>3, <3>1 DEF PhaseInv, Owned, Quiet, AtDrop, AtCreate,
         AtBuildSettings, AtBatches, AtSwap
  <2>. QED
    BY <2>2, <2>3
<1>. QED
  BY <1>1, <1>2, <1>3, <1>4 DEF Content

\* dropBuild, createBuild and settingsBuild find no other such task queued.
LEMMA BuildCallContent ==
  ASSUME TypeOK, TypeOK', LockInv, Content, NEW w \in Workers,
         NEW phase, NEW op \in Ops, CallAndWait(w, phase, op), run[w] # 0,
         <<phase, op>> \in {<<"drop", "dropBuild">>, <<"create", "createBuild">>,
                            <<"buildSettings", "settingsBuild">>, <<"dropOld", "dropBuild">>}
  PROVE  Content'
<1>w. /\ pc[w] = phase /\ ~waiting[w] /\ pc' = pc /\ waiting'[w] = TRUE
      /\ UNCHANGED <<run, next, started, live, build, history, published>>
      /\ Len(queue) \in Nat
      /\ Len(queue') = Len(queue) + 1
      /\ \A i \in 1 .. Len(queue) : queue'[i] = queue[i]
      /\ queue'[Len(queue) + 1].op = op
      /\ queue'[Len(queue) + 1].by = w
  BY CallFacts
<1>p. PhaseInv(w)
  BY DEF Content
<1>n. /\ \A i \in 1 .. Len(queue) : queue'[i].op \notin BuildOps
      /\ live.exists
  BY <1>w, <1>p DEF PhaseInv, Quiet, NoBuildTask, Owned, Positions
<1>o. op \in BuildOps \ {"add", "swap"}
  BY DEF BuildOps
<1>1. QueueInv'
  <2>1. \A i \in Positions' : queue'[i].op \in BuildOps => i = Len(queue) + 1
    BY <1>w, <1>n DEF Positions
  <2>2. \A i \in Positions' : queue'[i].op \notin {"add", "swap"}
    BY <2>1, <1>w, <1>o DEF BuildOps
  <2>3. \A i, j \in Positions' : i < j => queue'[i].op \notin BuildOps \/ queue'[j].op \notin BuildOps
    BY <1>w, <2>1 DEF Positions
  <2>. QED
    BY <2>2, <2>3 DEF QueueInv
<1>2. LiveInv'
  BY <1>w, BoundsAssumption, LiveSame DEF Content, TypeOK
<1>3. ASSUME NEW v \in Workers \ {w} PROVE PhaseInv(v)'
  BY <1>w, Alone DEF PhaseInv
<1>4. PhaseInv(w)'
  <2>1. Newer(w)'
    BY <1>w, <1>p DEF PhaseInv, Newer, Section
  <2>2. AtSettings(w)' /\ Quiet(w)' /\ AtBatches(w)'
    BY <1>w DEF AtSettings, Quiet, AtBatches
  <2>3. Owned(w)'
    BY <1>w, <1>n DEF Owned, Positions
  <2>4. OnlyBuildTask(op)' /\ ~NoBuildTask'
    BY <1>w, <1>n, <1>o DEF OnlyBuildTask, NoBuildTask, Positions
  <2>5. AtDrop(w)'
    BY <1>w, <2>4 DEF AtDrop
  <2>6. AtCreate(w)'
    BY <1>w, <1>p, <2>4 DEF PhaseInv, AtCreate
  <2>7. AtBuildSettings(w)'
    BY <1>w, <1>p, <2>4 DEF PhaseInv, AtBuildSettings
  <2>8. AtSwap(w)'
    BY <1>w, <1>p DEF PhaseInv, AtSwap
  <2>. QED
    BY <2>1, <2>2, <2>3, <2>5, <2>6, <2>7, <2>8 DEF PhaseInv
<1>. QED
  BY <1>1, <1>2, <1>3, <1>4 DEF Content

\* The swap is enqueued behind every batch of its rebuild.
LEMMA SwapCallContent ==
  ASSUME TypeOK, TypeOK', LockInv, Content, NEW w \in Workers,
         CallAndWait(w, "swap", "swap"), run[w] # 0
  PROVE  Content'
<1>w. /\ pc[w] = "swap" /\ ~waiting[w] /\ pc' = pc /\ waiting'[w] = TRUE
      /\ UNCHANGED <<run, next, started, live, build, history, published>>
      /\ Len(queue) \in Nat
      /\ Len(queue') = Len(queue) + 1
      /\ \A i \in 1 .. Len(queue) : queue'[i] = queue[i]
      /\ queue'[Len(queue) + 1].op = "swap"
      /\ queue'[Len(queue) + 1].by = w
      /\ queue'[Len(queue) + 1].run = run[w]
  BY CallFacts DEF Ops
<1>p. Newer(w) /\ Owned(w) /\ AtBatches(w) /\ QueueInv
  BY DEF Content, PhaseInv
<1>b. /\ build.exists /\ build.settings /\ live.exists
      /\ \A i \in 1 .. Len(queue) : queue[i].op \in BuildOps =>
           queue[i].op = "add" /\ queue[i].run = run[w] /\ queue[i].by = w
      /\ \A b \in Batches : build.docs[b] \in {0, run[w]}
      /\ AddsKept => \A b \in Batches : b < next[w] => Sent(w, b)
      /\ next[w] = NBatches + 1
      /\ \A g \in published : g < run[w]
  BY <1>w, <1>p DEF Newer, Owned, AtBatches, OnlyBuildTask, Positions, BuildOps
<1>r. run[w] \in 1 .. started
  BY BoundsAssumption DEF LockInv, TypeOK
<1>l. \A i \in Positions' : i \in 1 .. Len(queue) \/ i = Len(queue) + 1
  BY <1>w DEF Positions
<1>1. QueueInv'
  <2>1. ASSUME NEW i \in Positions', NEW j \in Positions', i < j,
               queue'[i].op \in BuildOps, queue'[j].op \in BuildOps
        PROVE  /\ queue'[i].op = "add" /\ queue'[j].op \in {"add", "swap"}
               /\ queue'[i].run = queue'[j].run
    <3>1. i \in 1 .. Len(queue)
      BY <1>w, <2>1 DEF Positions
    <3>. QED
      BY <1>w, <1>b, <1>l, <2>1, <3>1
  <2>2. ASSUME NEW i \in Positions', queue'[i].op \in {"add", "swap"}
        PROVE  queue'[i].run = run[w]
    BY <1>w, <1>b, <1>l, <2>2 DEF BuildOps
  <2>3. ASSUME NEW i \in Positions', queue'[i].op = "add" PROVE queue'[i].batch \in Batches
    BY <1>w, <1>p, <1>l, <2>3 DEF QueueInv, Positions
  <2>4. ASSUME AddsKept, NEW i \in Positions', queue'[i].op = "swap", NEW b \in Batches
        PROVE  \/ build.docs[b] = queue'[i].run
               \/ \E j \in 1 .. i - 1 : queue'[j].op = "add" /\ queue'[j].batch = b
    <3>1. i = Len(queue) + 1
      BY <1>w, <1>b, <1>l, <2>4 DEF BuildOps
    <3>2. Sent(w, b)
      BY <1>b, <2>4, BoundsAssumption DEF Batches
    <3>3. CASE build.docs[b] = run[w]
      BY <1>w, <3>1, <3>3
    <3>4. CASE \E k \in Positions : queue[k].op = "add" /\ queue[k].batch = b
      <4>1. PICK k \in Positions : queue[k].op = "add" /\ queue[k].batch = b
        BY <3>4
      <4>2. k \in 1 .. i - 1 /\ queue'[k] = queue[k]
        BY <1>w, <3>1 DEF Positions
      <4>. QED
        BY <4>1, <4>2
    <3>. QED
      BY <3>2, <3>3, <3>4 DEF Sent
  <2>. QED
    BY <1>w, <1>b, <1>r, <2>1, <2>2, <2>3, <2>4 DEF QueueInv
<1>2. LiveInv'
  BY <1>w, BoundsAssumption, LiveSame DEF Content, TypeOK
<1>3. ASSUME NEW v \in Workers \ {w} PROVE PhaseInv(v)'
  BY <1>w, Alone DEF PhaseInv
<1>4. PhaseInv(w)'
  <2>1. Owned(w)'
    BY <1>w, <1>b, <1>l DEF Owned
  <2>2. AtSwap(w)'
    BY <1>w, <1>b, <1>l DEF AtSwap, Positions, BuildOps
  <2>. QED
    BY <1>w, <2>1, <2>2 DEF PhaseInv, Newer, AtSettings, Quiet, AtDrop, AtCreate,
       AtBuildSettings, AtBatches, Section
<1>. QED
  BY <1>1, <1>2, <1>3, <1>4 DEF Content

\* A batch is enqueued behind batches of the same rebuild only.
LEMMA BatchContent ==
  ASSUME TypeOK, TypeOK', LockInv, Content, NEW w \in Workers, IndexBatch(w)
  PROVE  Content'
<1>0. /\ run[w] # 0 /\ pc[w] = "batches" /\ ~waiting[w]
      /\ UNCHANGED <<run, waiting, started, live, build, history, published>>
      /\ next[w] \in 1 .. NBatches + 1
  BY DEF IndexBatch, LockInv, Section, lockVars, history, TypeOK
<1>p. Newer(w) /\ Owned(w) /\ AtBatches(w) /\ QueueInv
  BY <1>0 DEF Content, PhaseInv
<1>r. run[w] \in 1 .. started
  BY <1>0, BoundsAssumption DEF LockInv, TypeOK
<1>b. /\ build.exists /\ build.settings /\ live.exists
      /\ \A i \in 1 .. Len(queue) : queue[i].op \in BuildOps =>
           queue[i].op = "add" /\ queue[i].run = run[w] /\ queue[i].by = w
      /\ \A b \in Batches : build.docs[b] \in {0, run[w]}
      /\ AddsKept => \A b \in Batches : b < next[w] => Sent(w, b)
      /\ \A g \in published : g < run[w]
  BY <1>0, <1>p DEF Newer, Owned, AtBatches, OnlyBuildTask, Positions, BuildOps, Section
<1>2. LiveInv'
  BY <1>0, BoundsAssumption, LiveSame DEF Content, TypeOK
<1>3. ASSUME NEW v \in Workers \ {w} PROVE PhaseInv(v)'
  BY <1>0, Alone DEF PhaseInv
<1>4. CASE next[w] > NBatches /\ pc' = [pc EXCEPT ![w] = "swap"] /\ UNCHANGED <<next, queue>>
  <2>1. QueueInv'
    BY <1>0, <1>4, <1>p, QueueSame, BoundsAssumption DEF TypeOK
  <2>2. pc'[w] = "swap" /\ next'[w] = NBatches + 1
    BY <1>0, <1>4, BoundsAssumption DEF TypeOK
  <2>3. AtBatches(w)'
    BY <1>0, <1>4, <1>p, <2>2 DEF AtBatches, OnlyBuildTask, Positions, Sent
  <2>4. Newer(w)' /\ Owned(w)'
    BY <1>0, <1>4, <1>b, <1>p, <2>2 DEF Newer, Owned, Positions, Section
  <2>5. PhaseInv(w)'
    BY <1>0, <2>2, <2>3, <2>4 DEF PhaseInv, AtSettings, Quiet, AtDrop, AtCreate,
       AtBuildSettings, AtSwap
  <2>. QED
    BY <1>2, <1>3, <2>1, <2>5 DEF Content
<1>5. CASE /\ next[w] <= NBatches /\ Enqueue(w, "add", next[w])
           /\ next' = [next EXCEPT ![w] = @ + 1] /\ UNCHANGED pc
  <2>1. next[w] \in 0 .. NBatches /\ next[w] \in Batches /\ "add" \in Ops
        /\ next'[w] = next[w] + 1
    BY <1>0, <1>5, BoundsAssumption DEF Batches, Ops, TypeOK
  <2>w. /\ Len(queue) \in Nat
        /\ Len(queue') = Len(queue) + 1
        /\ \A i \in 1 .. Len(queue) : queue'[i] = queue[i]
        /\ queue'[Len(queue) + 1].op = "add"
        /\ queue'[Len(queue) + 1].by = w
        /\ queue'[Len(queue) + 1].run = run[w]
        /\ queue'[Len(queue) + 1].batch = next[w]
    BY <1>5, <2>1, Enqueued
  <2>l. \A i \in Positions' : i \in 1 .. Len(queue) \/ i = Len(queue) + 1
    BY <2>w DEF Positions
  <2>2. \A i \in Positions' : queue'[i].op \in BuildOps =>
          queue'[i].op = "add" /\ queue'[i].run = run[w] /\ queue'[i].by = w
    BY <1>b, <2>w, <2>l
  <2>3. \A i \in Positions' : queue'[i].op = "add" => queue'[i].batch \in Batches
    BY <1>p, <2>1, <2>w, <2>l DEF QueueInv, Positions
  <2>4. QueueInv'
    BY <1>0, <1>b, <1>r, <2>2, <2>3 DEF QueueInv, BuildOps
  <2>5. ASSUME AddsKept PROVE \A b \in Batches : b < next'[w] => Sent(w, b)'
    <3>1. ASSUME NEW b \in Batches, b < next[w] PROVE Sent(w, b)'
      <4>1. CASE build.docs[b] = run[w]
        BY <1>0, <4>1 DEF Sent
      <4>2. CASE \E i \in Positions : queue[i].op = "add" /\ queue[i].batch = b
        BY <2>w, <4>2 DEF Sent, Positions
      <4>. QED
        BY <1>b, <2>5, <3>1, <4>1, <4>2 DEF Sent
    <3>2. ASSUME NEW b \in Batches, b = next[w] PROVE Sent(w, b)'
      <4>1. Len(queue) + 1 \in Positions'
        BY <2>w DEF Positions
      <4>. QED
        BY <2>w, <3>2, <4>1 DEF Sent
    <3>3. \A b \in Batches : b < next'[w] => b < next[w] \/ b = next[w]
      BY <1>0, <2>1, BoundsAssumption DEF Batches
    <3>. QED
      BY <3>1, <3>2, <3>3
  <2>6. AtBatches(w)'
    BY <1>0, <1>5, <1>b, <2>2, <2>5 DEF AtBatches, OnlyBuildTask, BuildOps
  <2>7. Newer(w)' /\ Owned(w)'
    BY <1>0, <1>5, <1>b, <2>2 DEF Newer, Owned, Section
  <2>8. PhaseInv(w)'
    BY <1>0, <1>5, <2>6, <2>7 DEF PhaseInv, AtSettings, Quiet, AtDrop, AtCreate,
       AtBuildSettings, AtSwap
  <2>. QED
    BY <1>2, <1>3, <2>4, <2>8 DEF Content
<1>. QED
  BY <1>4, <1>5 DEF IndexBatch

-----------------------------------------------------------------------------
(* Meilisearch processes a task.                                           *)

LEMMA HeadFacts ==
  ASSUME TypeOK, QueueInv, ProcessTask
  PROVE  /\ Len(queue) \in Nat \ {0}
         /\ Len(queue') = Len(queue) - 1
         /\ \A i \in Positions' : i + 1 \in Positions /\ queue'[i] = queue[i + 1]
         /\ 1 \in Positions
         /\ Head(queue) = queue[1] /\ queue[1] \in Task
         /\ \/ Effect(queue[1])
            \/ queue[1].op = "add" /\ ~AddsKept /\ UNCHANGED <<live, build>>
         /\ UNCHANGED <<pc, waiting, run, next, started, succeeded>>
         /\ published' = published \cup {g \in Runs : live'.docs = AllFrom(g)}
<1>1. queue \in Seq(Task) /\ queue # <<>> /\ queue' = Tail(queue)
  BY DEF TypeOK, ProcessTask
<1>2. /\ Len(queue) \in Nat \ {0}
      /\ Len(queue') = Len(queue) - 1
      /\ \A i \in 1 .. Len(queue') : queue'[i] = queue[i + 1]
      /\ Head(queue) = queue[1] /\ queue[1] \in Task
  BY <1>1, TailFacts
<1>3. \/ Effect(queue[1])
      \/ queue[1].op = "add" /\ ~AddsKept /\ UNCHANGED <<live, build>>
  BY <1>2 DEF ProcessTask, AddsKept
<1>. QED
  BY <1>2, <1>3 DEF ProcessTask, jobVars, lockVars, Positions

\* The history grows only by what a swap puts live.
LEMMA PublishedSame ==
  ASSUME TypeOK, LiveInv, live'.docs \in {live.docs, NoDocuments},
         published' = published \cup {g \in Runs : live'.docs = AllFrom(g)}
  PROVE  published' = published
BY DocsFacts DEF LiveInv, TypeOK

\* Emptying the live index leaves it with no two rebuilds.
LEMMA LiveDocsKept ==
  ASSUME TypeOK, LiveInv, live'.docs \in {live.docs, NoDocuments}
  PROVE  /\ NeverMixed'
         /\ \A g \in Runs : live'.docs = AllFrom(g) => g \in published
<1>1. CASE live'.docs = live.docs
  BY <1>1 DEF LiveInv, NeverMixed
<1>2. CASE live'.docs = NoDocuments
  <2>1. \A b \in Batches : live'.docs[b] \in {0, 0}
    BY <1>2 DEF NoDocuments
  <2>. QED
    BY <1>2, <2>1, DocsFacts DEF NeverMixed
<1>. QED
  BY <1>1, <1>2

\* createLive, settingsLive and clear leave the staging index alone.
LEMMA LiveTaskProcessed ==
  ASSUME TypeOK, Content, ProcessTask, Head(queue).op \notin BuildOps
  PROVE  Content'
<1>h. /\ Len(queue) \in Nat \ {0}
      /\ Len(queue') = Len(queue) - 1
      /\ \A i \in Positions' : i + 1 \in Positions /\ queue'[i] = queue[i + 1]
      /\ 1 \in Positions
      /\ Effect(queue[1])
      /\ queue[1].op \notin BuildOps
      /\ UNCHANGED <<pc, waiting, run, next, started, succeeded>>
      /\ published' = published \cup {g \in Runs : live'.docs = AllFrom(g)}
  BY HeadFacts DEF Content, BuildOps
<1>e. /\ build' = build
      /\ live'.docs \in {live.docs, NoDocuments}
      /\ live.exists => live'.exists
      /\ live.settings => live'.settings
      /\ queue[1].op = "settingsLive" => live'.exists
  BY <1>h DEF Effect, BuildOps, TypeOK, Index
<1>u. published' = published
  BY <1>h, <1>e, PublishedSame DEF Content
<1>s. \A k \in Positions : k = 1 \/ (k - 1 \in Positions' /\ queue'[k - 1] = queue[k])
  BY <1>h DEF Positions
<1>1. LiveInv'
  BY <1>h, <1>e, <1>u, LiveDocsKept DEF Content, LiveInv, LiveConfigured, SuccessMeansPublished
<1>2. QueueInv'
  <2>. QueueInv
    BY DEF Content
  <2>1. ASSUME NEW i \in Positions', NEW j \in Positions', i < j,
               queue'[i].op \in BuildOps, queue'[j].op \in BuildOps
        PROVE  /\ queue'[i].op = "add" /\ queue'[j].op \in {"add", "swap"}
               /\ queue'[i].run = queue'[j].run
    <3>1. i + 1 < j + 1
      BY <2>1, <1>h DEF Positions
    <3>. QED
      BY <1>h, <2>1, <3>1 DEF QueueInv
  <2>2. ASSUME AddsKept, NEW i \in Positions', queue'[i].op = "swap", NEW b \in Batches,
               build.docs[b] # queue'[i].run
        PROVE  \E j \in 1 .. i - 1 : queue'[j].op = "add" /\ queue'[j].batch = b
    <3>0. \E k \in 1 .. (i + 1) - 1 : queue[k].op = "add" /\ queue[k].batch = b
      BY <1>h, <2>2 DEF QueueInv
    <3>1. PICK k \in 1 .. i : queue[k].op = "add" /\ queue[k].batch = b
      BY <3>0, <1>h DEF Positions
    <3>2. k # 1 /\ k \in Positions
      BY <1>h, <3>1 DEF BuildOps, Positions
    <3>3. k - 1 \in 1 .. i - 1 /\ queue'[k - 1] = queue[k]
      BY <1>s, <3>2, <3>1, <1>h DEF Positions
    <3>. QED
      BY <3>1, <3>3
  <2>3. \A i \in Positions' :
          /\ queue'[i].op \in {"add", "swap"} =>
               /\ build.exists /\ build.settings
               /\ queue'[i].run \in 1 .. started
               /\ \A b \in Batches : build.docs[b] \in {0, queue'[i].run}
               /\ \A g \in published : g < queue'[i].run
          /\ queue'[i].op = "add" => queue'[i].batch \in Batches
          /\ queue'[i].op = "swap" => live.exists
    BY <1>h DEF QueueInv
  <2>. QED
    BY <1>h, <1>e, <1>u, <2>1, <2>2, <2>3 DEF QueueInv
<1>3. ASSUME NEW v \in Workers PROVE PhaseInv(v)'
  <2>. SUFFICES ASSUME run[v] # 0 PROVE PhaseInv(v)'
    BY <1>h DEF PhaseInv
  <2>p. Newer(v) /\ AtSettings(v) /\ Owned(v) /\ Quiet(v) /\ AtDrop(v) /\ AtCreate(v)
        /\ AtBuildSettings(v) /\ AtBatches(v) /\ AtSwap(v)
    BY DEF Content, PhaseInv
  <2>1. Newer(v)'
    BY <1>h, <1>u, <2>p DEF Newer
  <2>2. AtSettings(v)'
    <3>. SUFFICES ASSUME pc[v] = "settings", waiting[v] PROVE AtSettings(v)'
      BY <1>h DEF AtSettings
    <3>1. ASSUME NEW i \in Positions', queue'[i].op \in BuildOps
          PROVE  \E j \in Positions' : j > i /\ queue'[j].by = v
      <4>1. PICK k \in Positions : k > i + 1 /\ queue[k].by = v
        BY <1>h, <2>p, <3>1 DEF AtSettings
      <4>2. k - 1 \in Positions' /\ k - 1 > i /\ queue'[k - 1].by = v
        BY <1>s, <1>h, <4>1 DEF Positions
      <4>. QED
        BY <4>2
    <3>2. live'.exists \/ \E i \in Positions' : queue'[i].op = "settingsLive" /\ queue'[i].by = v
      <4>1. CASE live.exists
        BY <1>e, <4>1
      <4>2. CASE ~live.exists
        <5>1. PICK k \in Positions : queue[k].op = "settingsLive" /\ queue[k].by = v
          BY <2>p, <4>2 DEF AtSettings
        <5>2. CASE k = 1
          BY <1>e, <5>1, <5>2
        <5>3. CASE k # 1
          BY <1>s, <5>1, <5>3
        <5>. QED
          BY <5>2, <5>3
      <4>. QED
        BY <4>1, <4>2
    <3>. QED
      BY <3>1, <3>2 DEF AtSettings
  <2>3. Owned(v)'
    BY <1>h, <1>e, <2>p DEF Owned
  <2>4. /\ NoBuildTask => NoBuildTask'
        /\ NoBuildTask' => NoBuildTask
        /\ \A o \in BuildOps : OnlyBuildTask(o) => OnlyBuildTask(o)'
    BY <1>h, <1>s DEF NoBuildTask, OnlyBuildTask
  <2>5. Quiet(v)' /\ AtDrop(v)' /\ AtCreate(v)' /\ AtBuildSettings(v)'
    BY <1>h, <1>e, <2>p, <2>4 DEF Quiet, AtDrop, AtCreate, AtBuildSettings, BuildOps
  <2>6. \A b \in Batches : Sent(v, b) => Sent(v, b)'
    <3>1. ASSUME NEW b \in Batches, Sent(v, b) PROVE Sent(v, b)'
      <4>1. CASE build.docs[b] = run[v]
        BY <1>h, <1>e, <4>1 DEF Sent
      <4>2. CASE \E i \in Positions : queue[i].op = "add" /\ queue[i].batch = b
        <5>1. PICK k \in Positions : queue[k].op = "add" /\ queue[k].batch = b
          BY <4>2
        <5>2. k # 1
          BY <1>h, <5>1 DEF BuildOps
        <5>. QED
          BY <1>s, <5>1, <5>2 DEF Sent
      <4>. QED
        BY <3>1, <4>1, <4>2 DEF Sent
    <3>. QED
      BY <3>1
  <2>7. AtBatches(v)'
    BY <1>h, <1>e, <2>p, <2>4, <2>6 DEF AtBatches, BuildOps
  <2>8. AtSwap(v)'
    <3>1. ASSUME NEW k \in Positions, queue[k].op = "swap"
          PROVE  k - 1 \in Positions' /\ queue'[k - 1].op = "swap"
      BY <1>h, <1>s, <3>1 DEF BuildOps
    <3>. QED
      BY <1>h, <1>u, <2>p, <3>1 DEF AtSwap
  <2>. QED
    BY <2>1, <2>2, <2>3, <2>5, <2>7, <2>8 DEF PhaseInv
<1>. QED
  BY <1>1, <1>2, <1>3 DEF Content

\* A task that drops, creates or configures the staging index is the only one
\* that touches it.
LEMMA StructureTaskProcessed ==
  ASSUME TypeOK, Content, ProcessTask,
         Head(queue).op \in BuildOps \ {"add", "swap"}
  PROVE  Content'
<1>h. /\ Len(queue) \in Nat \ {0}
      /\ Len(queue') = Len(queue) - 1
      /\ \A i \in Positions' : i + 1 \in Positions /\ queue'[i] = queue[i + 1]
      /\ 1 \in Positions
      /\ Effect(queue[1])
      /\ queue[1].op \in BuildOps \ {"add", "swap"}
      /\ UNCHANGED <<pc, waiting, run, next, started, succeeded>>
      /\ published' = published \cup {g \in Runs : live'.docs = AllFrom(g)}
  BY HeadFacts DEF Content
<1>e. /\ live' = live
      /\ build'.docs \in {build.docs, NoDocuments}
      /\ queue[1].op = "dropBuild" => build' = Missing
      /\ queue[1].op = "settingsBuild" => build'.exists /\ build'.settings
  <2>1. CASE queue[1].op = "dropBuild"
    BY <1>h, <2>1 DEF Effect, Missing
  <2>2. CASE queue[1].op = "createBuild"
    <3>1. live' = live /\ build' = [build EXCEPT !.exists = TRUE]
      BY <1>h, <2>2 DEF Effect
    <3>. QED
      BY <3>1, <2>2 DEF TypeOK, Index
  <2>3. CASE queue[1].op = "settingsBuild"
    <3>1. live' = live /\ build' = [build EXCEPT !.exists = TRUE, !.settings = TRUE]
      BY <1>h, <2>3 DEF Effect
    <3>. QED
      BY <3>1, <2>3 DEF TypeOK, Index
  <2>. QED
    BY <1>h, <2>1, <2>2, <2>3 DEF BuildOps
<1>u. published' = published
  BY <1>h, <1>e, PublishedSame DEF Content
<1>n. \A k \in Positions : k = 1 \/ queue[k].op \notin BuildOps
  BY <1>h DEF Content, QueueInv, Positions, BuildOps
<1>m. \A i \in Positions' : queue'[i].op \notin BuildOps
  <2>1. ASSUME NEW i \in Positions' PROVE i + 1 # 1
    BY DEF Positions
  <2>. QED
    BY <1>h, <1>n, <2>1
<1>1. LiveInv'
  BY <1>h, <1>e, <1>u, LiveDocsKept DEF Content, LiveInv, LiveConfigured, SuccessMeansPublished
<1>2. QueueInv'
  BY <1>m DEF QueueInv, BuildOps
<1>3. ASSUME NEW v \in Workers PROVE PhaseInv(v)'
  <2>. SUFFICES ASSUME run[v] # 0 PROVE PhaseInv(v)'
    BY <1>h DEF PhaseInv
  <2>p. Newer(v) /\ AtSettings(v) /\ Owned(v) /\ Quiet(v) /\ AtDrop(v) /\ AtCreate(v)
        /\ AtBuildSettings(v) /\ AtBatches(v) /\ AtSwap(v)
    BY DEF Content, PhaseInv
  <2>n. NoBuildTask' /\ ~NoBuildTask
    BY <1>h, <1>m DEF NoBuildTask
  <2>o. \A o \in BuildOps : OnlyBuildTask(o)' /\ (OnlyBuildTask(o) => queue[1].op = o)
    BY <1>h, <1>m DEF OnlyBuildTask
  <2>1. Newer(v)' /\ Owned(v)' /\ Quiet(v)'
    BY <1>h, <1>e, <1>u, <1>m, <2>n, <2>p DEF Newer, Owned, Quiet, BuildOps
  <2>2. AtSettings(v)'
    <3>1. \A k \in Positions : queue[k].op = "settingsLive" =>
            k - 1 \in Positions' /\ queue'[k - 1] = queue[k]
      BY <1>h DEF Positions, BuildOps
    <3>. QED
      BY <1>h, <1>e, <1>m, <2>p, <3>1 DEF AtSettings
  <2>3. AtDrop(v)'
    BY <1>h, <1>e, <2>o, <2>p DEF AtDrop, BuildOps
  <2>4. AtCreate(v)' /\ AtBuildSettings(v)'
    BY <1>h, <1>e, <2>o, <2>n, <2>p DEF AtCreate, AtBuildSettings, Quiet, BuildOps
  <2>5. AtBatches(v)'
    BY <1>h, <2>o, <2>p DEF AtBatches, BuildOps
  <2>6. AtSwap(v)'
    BY <1>h, <1>u, <1>n, <1>m, <2>p DEF AtSwap, BuildOps
  <2>. QED
    BY <2>1, <2>2, <2>3, <2>4, <2>5, <2>6 DEF PhaseInv
<1>. QED
  BY <1>1, <1>2, <1>3 DEF Content

\* A batch lands in the staging index of its own rebuild.
LEMMA AddProcessed ==
  ASSUME TypeOK, Content, ProcessTask, Head(queue).op = "add", Effect(queue[1])
  PROVE  Content'
<1>h. /\ Len(queue) \in Nat \ {0}
      /\ Len(queue') = Len(queue) - 1
      /\ \A i \in Positions' : i + 1 \in Positions /\ queue'[i] = queue[i + 1]
      /\ 1 \in Positions
      /\ Effect(queue[1])
      /\ queue[1].op = "add" /\ queue[1] \in Task
      /\ UNCHANGED <<pc, waiting, run, next, started, succeeded>>
      /\ published' = published \cup {g \in Runs : live'.docs = AllFrom(g)}
  BY HeadFacts DEF Content
<1> DEFINE r == queue[1].run
           c == queue[1].batch
<1>q. /\ build.exists /\ build.settings /\ r \in 1 .. started
      /\ \A b \in Batches : build.docs[b] \in {0, r}
      /\ \A g \in published : g < r
      /\ c \in Batches
  BY <1>h DEF Content, QueueInv
<1>e. /\ live' = live
      /\ build' = [build EXCEPT !.exists = TRUE, !.docs = [@ EXCEPT ![c] = r]]
  BY <1>h DEF Effect
<1>d. /\ build'.exists /\ build'.settings
      /\ build'.docs[c] = r
      /\ \A b \in Batches : b # c => build'.docs[b] = build.docs[b]
  BY <1>e, <1>q DEF TypeOK, Index
<1>u. published' = published
  BY <1>h, <1>e, PublishedSame DEF Content
<1>s. \A k \in Positions : k = 1 \/ (k - 1 \in Positions' /\ queue'[k - 1] = queue[k])
  BY <1>h DEF Positions
<1>o. \A i \in Positions' : queue'[i].op \in BuildOps =>
        queue'[i].op \in {"add", "swap"} /\ queue'[i].run = r
  <2>1. \A i \in Positions' : 1 < i + 1
    BY DEF Positions
  <2>. QED
    BY <1>h, <2>1 DEF Content, QueueInv, BuildOps
<1>1. LiveInv'
  BY <1>h, <1>e, <1>u, LiveDocsKept DEF Content, LiveInv, LiveConfigured, SuccessMeansPublished
<1>2. QueueInv'
  <2>1. ASSUME NEW i \in Positions', NEW j \in Positions', i < j,
               queue'[i].op \in BuildOps, queue'[j].op \in BuildOps
        PROVE  /\ queue'[i].op = "add" /\ queue'[j].op \in {"add", "swap"}
               /\ queue'[i].run = queue'[j].run
    <3>1. i + 1 < j + 1
      BY <2>1, <1>h DEF Positions
    <3>. QED
      BY <1>h, <2>1, <3>1 DEF Content, QueueInv
  <2>2. ASSUME AddsKept, NEW i \in Positions', queue'[i].op = "swap", NEW b \in Batches,
               build'.docs[b] # queue'[i].run
        PROVE  \E j \in 1 .. i - 1 : queue'[j].op = "add" /\ queue'[j].batch = b
    <3>1. queue'[i].run = r /\ b # c
      BY <1>o, <1>d, <2>2 DEF BuildOps
    <3>0. \E k \in 1 .. (i + 1) - 1 : queue[k].op = "add" /\ queue[k].batch = b
      BY <1>h, <1>d, <2>2, <3>1 DEF Content, QueueInv
    <3>2. PICK k \in 1 .. i : queue[k].op = "add" /\ queue[k].batch = b
      BY <3>0, <1>h DEF Positions
    <3>3. k # 1 /\ k \in Positions
      BY <1>h, <3>1, <3>2 DEF Positions
    <3>4. k - 1 \in 1 .. i - 1 /\ queue'[k - 1] = queue[k]
      BY <1>s, <3>2, <3>3, <1>h DEF Positions
    <3>. QED
      BY <3>2, <3>4
  <2>3. \A i \in Positions' :
          /\ queue'[i].op = "add" => queue'[i].batch \in Batches
          /\ queue'[i].op = "swap" => live.exists
    BY <1>h DEF Content, QueueInv
  <2>4. \A b \in Batches : build'.docs[b] \in {0, r}
    BY <1>d, <1>q
  <2>. QED
    BY <1>h, <1>d, <1>e, <1>o, <1>q, <1>u, <2>1, <2>2, <2>3, <2>4 DEF QueueInv, BuildOps
<1>3. ASSUME NEW v \in Workers PROVE PhaseInv(v)'
  <2>. SUFFICES ASSUME run[v] # 0 PROVE PhaseInv(v)'
    BY <1>h DEF PhaseInv
  <2>p. Newer(v) /\ AtSettings(v) /\ Owned(v) /\ Quiet(v) /\ AtDrop(v) /\ AtCreate(v)
        /\ AtBuildSettings(v) /\ AtBatches(v) /\ AtSwap(v)
    BY DEF Content, PhaseInv
  <2>n. ~NoBuildTask /\ \A o \in BuildOps : OnlyBuildTask(o) => o = "add"
    BY <1>h DEF NoBuildTask, OnlyBuildTask, BuildOps
  <2>o. OnlyBuildTask("add") => OnlyBuildTask("add")'
    BY <1>h DEF OnlyBuildTask
  <2>1. Newer(v)' /\ Owned(v)'
    BY <1>h, <1>e, <1>u, <2>p DEF Newer, Owned
  <2>2. AtSettings(v)'
    <3>. SUFFICES ASSUME pc[v] = "settings", waiting[v] PROVE AtSettings(v)'
      BY <1>h DEF AtSettings
    <3>1. ASSUME NEW i \in Positions', queue'[i].op \in BuildOps
          PROVE  \E j \in Positions' : j > i /\ queue'[j].by = v
      <4>1. PICK k \in Positions : k > i + 1 /\ queue[k].by = v
        BY <1>h, <2>p, <3>1 DEF AtSettings
      <4>2. k - 1 \in Positions' /\ k - 1 > i /\ queue'[k - 1].by = v
        BY <1>s, <1>h, <4>1 DEF Positions
      <4>. QED
        BY <4>2
    <3>2. \A k \in Positions : queue[k].op = "settingsLive" =>
            k - 1 \in Positions' /\ queue'[k - 1] = queue[k]
      BY <1>h, <1>s
    <3>. QED
      BY <1>e, <2>p, <3>1, <3>2 DEF AtSettings
  <2>3. Quiet(v)' /\ AtDrop(v)' /\ AtCreate(v)' /\ AtBuildSettings(v)'
    BY <1>h, <2>n, <2>p DEF Quiet, AtDrop, AtCreate, AtBuildSettings, BuildOps
  <2>4. ASSUME pc[v] = "batches" \/ (pc[v] = "swap" /\ ~waiting[v]) PROVE AtBatches(v)'
    <3>1. r = run[v]
      BY <1>h, <2>4, <2>p DEF AtBatches
    <3>2. ASSUME NEW b \in Batches, Sent(v, b) PROVE Sent(v, b)'
      <4>1. CASE b = c \/ build.docs[b] = run[v]
        BY <1>h, <1>d, <3>1, <4>1 DEF Sent
      <4>2. CASE b # c /\ \E i \in Positions : queue[i].op = "add" /\ queue[i].batch = b
        <5>1. PICK k \in Positions : queue[k].op = "add" /\ queue[k].batch = b
          BY <4>2
        <5>2. k # 1
          BY <4>2, <5>1
        <5>. QED
          BY <1>s, <5>1, <5>2 DEF Sent
      <4>. QED
        BY <3>2, <4>1, <4>2 DEF Sent
    <3>3. \A b \in Batches : build'.docs[b] \in {0, run[v]}
      BY <1>d, <1>q, <3>1
    <3>. QED
      BY <1>h, <1>d, <2>4, <2>o, <2>p, <3>2, <3>3 DEF AtBatches
  <2>5. AtBatches(v)'
    BY <1>h, <2>4 DEF AtBatches
  <2>6. AtSwap(v)'
    <3>1. \A k \in Positions : queue[k].op = "swap" => k - 1 \in Positions' /\ queue'[k - 1] = queue[k]
      BY <1>h, <1>s
    <3>. QED
      BY <1>h, <1>u, <2>p, <3>1 DEF AtSwap
  <2>. QED
    BY <2>1, <2>2, <2>3, <2>5, <2>6 DEF PhaseInv
<1>. QED
  BY <1>1, <1>2, <1>3 DEF Content

\* A batch that fails leaves both indexes as they are: the rebuild goes on
\* with a hole.
LEMMA AddFailed ==
  ASSUME TypeOK, Content, ProcessTask, Head(queue).op = "add", ~AddsKept,
         UNCHANGED <<live, build>>
  PROVE  Content'
<1>h. /\ Len(queue) \in Nat \ {0}
      /\ Len(queue') = Len(queue) - 1
      /\ \A i \in Positions' : i + 1 \in Positions /\ queue'[i] = queue[i + 1]
      /\ 1 \in Positions
      /\ queue[1].op = "add"
      /\ UNCHANGED <<pc, waiting, run, next, started, succeeded>>
      /\ published' = published \cup {g \in Runs : live'.docs = AllFrom(g)}
  BY HeadFacts DEF Content
<1>u. published' = published
  BY <1>h, PublishedSame DEF Content
<1>s. \A k \in Positions : k = 1 \/ (k - 1 \in Positions' /\ queue'[k - 1] = queue[k])
  BY <1>h DEF Positions
<1>1. LiveInv'
  BY <1>h, <1>u DEF Content, LiveInv, NeverMixed, LiveConfigured
<1>2. QueueInv'
  <2>1. ASSUME NEW i \in Positions', NEW j \in Positions', i < j,
               queue'[i].op \in BuildOps, queue'[j].op \in BuildOps
        PROVE  /\ queue'[i].op = "add" /\ queue'[j].op \in {"add", "swap"}
               /\ queue'[i].run = queue'[j].run
    <3>1. i + 1 < j + 1
      BY <2>1, <1>h DEF Positions
    <3>. QED
      BY <1>h, <2>1, <3>1 DEF Content, QueueInv
  <2>2. \A i \in Positions' :
          /\ queue'[i].op \in {"add", "swap"} =>
               /\ build.exists /\ build.settings
               /\ queue'[i].run \in 1 .. started
               /\ \A b \in Batches : build.docs[b] \in {0, queue'[i].run}
               /\ \A g \in published : g < queue'[i].run
          /\ queue'[i].op = "add" => queue'[i].batch \in Batches
          /\ queue'[i].op = "swap" => live.exists
    BY <1>h DEF Content, QueueInv
  <2>. QED
    BY <1>h, <1>u, <2>1, <2>2 DEF QueueInv
<1>3. ASSUME NEW v \in Workers PROVE PhaseInv(v)'
  <2>. SUFFICES ASSUME run[v] # 0 PROVE PhaseInv(v)'
    BY <1>h DEF PhaseInv
  <2>p. Newer(v) /\ AtSettings(v) /\ Owned(v) /\ Quiet(v) /\ AtDrop(v) /\ AtCreate(v)
        /\ AtBuildSettings(v) /\ AtBatches(v) /\ AtSwap(v)
    BY DEF Content, PhaseInv
  <2>n. ~NoBuildTask /\ \A o \in BuildOps : OnlyBuildTask(o) => o = "add"
    BY <1>h DEF NoBuildTask, OnlyBuildTask, BuildOps
  <2>1. Newer(v)' /\ Owned(v)'
    BY <1>h, <1>u, <2>p DEF Newer, Owned
  <2>2. AtSettings(v)'
    <3>. SUFFICES ASSUME pc[v] = "settings", waiting[v] PROVE AtSettings(v)'
      BY <1>h DEF AtSettings
    <3>1. ASSUME NEW i \in Positions', queue'[i].op \in BuildOps
          PROVE  \E j \in Positions' : j > i /\ queue'[j].by = v
      <4>1. PICK k \in Positions : k > i + 1 /\ queue[k].by = v
        BY <1>h, <2>p, <3>1 DEF AtSettings
      <4>2. k - 1 \in Positions' /\ k - 1 > i /\ queue'[k - 1].by = v
        BY <1>s, <1>h, <4>1 DEF Positions
      <4>. QED
        BY <4>2
    <3>2. \A k \in Positions : queue[k].op = "settingsLive" =>
            k - 1 \in Positions' /\ queue'[k - 1] = queue[k]
      BY <1>h, <1>s
    <3>. QED
      BY <2>p, <3>1, <3>2 DEF AtSettings
  <2>3. Quiet(v)' /\ AtDrop(v)' /\ AtCreate(v)' /\ AtBuildSettings(v)'
    BY <1>h, <2>n, <2>p DEF Quiet, AtDrop, AtCreate, AtBuildSettings, BuildOps
  <2>4. AtBatches(v)'
    <3>1. OnlyBuildTask("add") => OnlyBuildTask("add")'
      BY <1>h DEF OnlyBuildTask
    <3>. QED
      BY <1>h, <2>p, <3>1 DEF AtBatches
  <2>5. AtSwap(v)'
    BY <1>h, <2>p DEF AtSwap
  <2>. QED
    BY <2>1, <2>2, <2>3, <2>4, <2>5 DEF PhaseInv
<1>. QED
  BY <1>1, <1>2, <1>3 DEF Content

\* The swap puts live what its rebuild sent, every batch of it unless one
\* failed, and nothing else.
LEMMA SwapFacts ==
  ASSUME TypeOK, Content, ProcessTask, Head(queue).op = "swap",
         NEW r, r = queue[1].run
  PROVE  /\ build.exists /\ build.settings /\ live.exists
         /\ r \in 1 .. started /\ r \in Runs
         /\ \A g \in published : g < r
         /\ live' = build /\ build' = live
         /\ \A b \in Batches : live'.docs[b] \in {0, r}
         /\ AddsKept => live'.docs = AllFrom(r)
         /\ published' = published \cup {g \in {r} : live'.docs = AllFrom(g)}
<1>h. /\ 1 \in Positions
      /\ Effect(queue[1])
      /\ queue[1].op = "swap"
      /\ published' = published \cup {g \in Runs : live'.docs = AllFrom(g)}
  BY HeadFacts DEF Content
<1>q. /\ build.exists /\ build.settings /\ r \in 1 .. started /\ live.exists
      /\ \A g \in published : g < r
      /\ \A b \in Batches : build.docs[b] \in {0, r}
      /\ AddsKept => \A b \in Batches : build.docs[b] = r
  <2>1. \A j \in 1 .. 1 - 1 : FALSE
    OBVIOUS
  <2>. QED
    BY <1>h, <2>1 DEF Content, QueueInv
<1>r. r \in Runs
  BY <1>q, BoundsAssumption DEF Runs, TypeOK
<1>e. live' = build /\ build' = live
  BY <1>h, <1>q DEF Effect
<1>d. AddsKept => live'.docs = AllFrom(r)
  BY <1>e, <1>q DEF AllFrom, TypeOK, Index
<1>b. \A b \in Batches : live'.docs[b] \in {0, r}
  BY <1>e, <1>q
<1>u. published' = published \cup {g \in {r} : live'.docs = AllFrom(g)}
  <2>1. ASSUME NEW g \in Runs, live'.docs = AllFrom(g) PROVE g = r
    <3>1. AllFrom(g)[1] = g /\ 1 \in Batches /\ g # 0
      BY DocsFacts, BoundsAssumption DEF AllFrom, Runs
    <3>. QED
      BY <1>b, <2>1, <3>1
  <2>. QED
    BY <1>h, <1>r, <2>1
<1>. QED
  BY <1>q, <1>r, <1>e, <1>d, <1>b, <1>u

LEMMA SwapProcessed ==
  ASSUME TypeOK, LockInv, Content, ProcessTask, Head(queue).op = "swap"
  PROVE  Content'
<1> DEFINE r == queue[1].run
<1> HIDE DEF r
<1>h. /\ Len(queue) \in Nat \ {0}
      /\ Len(queue') = Len(queue) - 1
      /\ \A i \in Positions' : i + 1 \in Positions /\ queue'[i] = queue[i + 1]
      /\ 1 \in Positions
      /\ queue[1].op = "swap" /\ queue[1] \in Task
      /\ UNCHANGED <<pc, waiting, run, next, started, succeeded>>
      /\ published' = published \cup {g \in Runs : live'.docs = AllFrom(g)}
  BY HeadFacts DEF Content
<1>q. /\ build.exists /\ build.settings /\ r \in 1 .. started /\ r \in Runs /\ live.exists
      /\ \A g \in published : g < r
  BY SwapFacts DEF r
<1>e. live' = build /\ build' = live
  BY SwapFacts DEF r
<1>d. AddsKept => live'.docs = AllFrom(r)
  BY SwapFacts DEF r
<1>b. \A b \in Batches : live'.docs[b] \in {0, r}
  BY SwapFacts DEF r
<1>u. /\ published' \subseteq published \cup {r}
      /\ published \subseteq published'
      /\ AddsKept => r \in published'
  BY <1>d, SwapFacts DEF r
<1> USE DEF r
<1>m. \A i \in Positions' : queue'[i].op \notin BuildOps
  <2>1. \A i \in Positions' : 1 < i + 1
    BY DEF Positions
  <2>. QED
    BY <1>h, <2>1 DEF Content, QueueInv, BuildOps
<1>1. LiveInv'
  <2>1. NeverMixed'
    BY <1>b, <1>q DEF NeverMixed
  <2>2. LiveConfigured'
    BY <1>e, <1>q DEF LiveConfigured
  <2>3. AddsKept => SuccessMeansPublished'
    BY <1>h, <1>u DEF Content, LiveInv, SuccessMeansPublished
  <2>4. \A g \in published' : g <= started'
    BY <1>h, <1>q, <1>u, BoundsAssumption DEF Content, LiveInv, TypeOK
  <2>. QED
    BY <1>h, <1>d, <1>u, <2>1, <2>2, <2>3, <2>4 DEF LiveInv
<1>2. QueueInv'
  BY <1>m DEF QueueInv, BuildOps
<1>3. ASSUME NEW v \in Workers PROVE PhaseInv(v)'
  <2>. SUFFICES ASSUME run[v] # 0 PROVE PhaseInv(v)'
    BY <1>h DEF PhaseInv
  <2>p. Newer(v) /\ AtSettings(v) /\ Owned(v) /\ Quiet(v) /\ AtDrop(v) /\ AtCreate(v)
        /\ AtBuildSettings(v) /\ AtBatches(v) /\ AtSwap(v)
    BY DEF Content, PhaseInv
  <2>n. ~NoBuildTask /\ NoBuildTask' /\ \A o \in BuildOps : OnlyBuildTask(o) => o = "swap"
    BY <1>h, <1>m DEF NoBuildTask, OnlyBuildTask, BuildOps
  <2>q. /\ pc[v] \notin {"drop", "create", "buildSettings", "batches"}
        /\ pc[v] \in {"swap", "dropOld"} => waiting[v]
    BY <1>h, <2>n, <2>p DEF Quiet, AtDrop, AtCreate, AtBuildSettings, AtBatches, BuildOps
  <2>1. Newer(v)'
    BY <1>h, <1>u, <1>m, <2>p, <2>q DEF Newer, Section, BuildOps
  <2>2. Owned(v)' /\ Quiet(v)'
    BY <1>h, <1>e, <1>q, <1>m, <2>n DEF Owned, Quiet
  <2>3. AtSettings(v)'
    BY <1>h, <1>e, <1>q, <1>m DEF AtSettings
  <2>4. AtDrop(v)' /\ AtCreate(v)' /\ AtBuildSettings(v)' /\ AtBatches(v)'
    BY <1>h, <2>q DEF AtDrop, AtCreate, AtBuildSettings, AtBatches
  <2>5. AtSwap(v)'
    BY <1>h, <1>u, <1>m, <2>p DEF AtSwap, BuildOps
  <2>. QED
    BY <2>1, <2>2, <2>3, <2>4, <2>5 DEF PhaseInv
<1>. QED
  BY <1>1, <1>2, <1>3 DEF Content

-----------------------------------------------------------------------------
(* The invariant.                                                          *)

LEMMA ContentStep ==
  ASSUME LockWorks, TypeOK, TypeOK', LockInv, Content, [Next]_vars
  PROVE  Content'
<1> USE DEF Phases, Section
<1>s. started \in Nat
  BY BoundsAssumption DEF TypeOK
<1>1. ASSUME NEW w \in Workers, JobStep(w) PROVE Content'
  <2>1. CASE AcquireLock(w)
    BY <2>1, AcquireContent
  <2>2. CASE LockRefused(w)
    <3>1. /\ run'[w] = 0
          /\ UNCHANGED <<next, serverVars, history>> /\ started' = started
          /\ \A v \in Workers \ {w} : /\ pc'[v] = pc[v] /\ waiting'[v] = waiting[v]
                                      /\ run'[v] = run[v]
      BY <2>2 DEF LockRefused, LockInv, TypeOK, lockVars
    <3>. QED
      BY <1>s, <3>1, LeaveStep
  <2>3. CASE ReleaseLock(w)
    <3>1. /\ run'[w] = 0
          /\ UNCHANGED <<next, serverVars, history>> /\ started' = started
          /\ \A v \in Workers \ {w} : /\ pc'[v] = pc[v] /\ waiting'[v] = waiting[v]
                                      /\ run'[v] = run[v]
      BY <2>3 DEF ReleaseLock, TypeOK
    <3>. QED
      BY <1>s, <3>1, LeaveStep
  <2>4. CASE EnsureIndex(w)
    <3>1. CASE /\ pc[w] = "ensure" /\ ~waiting[w] /\ live.exists
               /\ pc' = [pc EXCEPT ![w] = "settings"]
               /\ UNCHANGED <<waiting, run, next, holds, lockVars, serverVars, history>>
      <4>1. /\ pc'[w] = "settings"
            /\ \A v \in Workers \ {w} : pc'[v] = pc[v]
            /\ UNCHANGED <<waiting, run, next, started, queue, live, build, published>>
        BY <3>1 DEF TypeOK, lockVars, serverVars, history
      <4>2. PhaseInv(w)'
        <5>. SUFFICES ASSUME run[w] # 0 PROVE PhaseInv(w)'
          BY <4>1 DEF PhaseInv
        <5>1. Newer(w)'
          BY <3>1, <4>1 DEF Content, PhaseInv, Newer, Positions
        <5>. QED
          BY <3>1, <4>1, <5>1 DEF PhaseInv, AtSettings, Owned, Quiet, AtDrop, AtCreate,
             AtBuildSettings, AtBatches, AtSwap
      <4>. QED
        BY <1>s, <3>1, <4>1, <4>2, LocalStep
    <3>2. CASE CallAndWait(w, "ensure", "createLive")
      BY <3>2, LiveCallContent DEF Ops, BuildOps
    <3>3. CASE WaitReturns(w, "ensure", "settings") /\ UNCHANGED history
      BY <3>3, WaitContent
    <3>. QED
      BY <2>4, <3>1, <3>2, <3>3 DEF EnsureIndex
  <2>5. CASE ApplySettings(w)
    <3> DEFINE then == IF run[w] = 0 THEN "idle" ELSE "drop"
    <3>1. CASE CallAndWait(w, "settings", "settingsLive")
      BY <3>1, LiveCallContent DEF Ops, BuildOps
    <3>2. CASE WaitReturns(w, "settings", then) /\ UNCHANGED history
      BY <3>2, WaitContent
    <3>. QED
      BY <2>5, <3>1, <3>2 DEF ApplySettings, Awaited
  <2>6. CASE PrepareBuild(w)
    <3>0. pc[w] \in {"drop", "create", "buildSettings"} /\ run[w] # 0
      BY <2>6 DEF PrepareBuild, Awaited, CallAndWait, WaitReturns, LockInv
    <3>1. CASE Awaited(w, "drop", "dropBuild", "create")
      BY <3>0, <3>1, BuildCallContent, WaitContent DEF Awaited, Ops
    <3>2. CASE Awaited(w, "create", "createBuild", "buildSettings")
      BY <3>0, <3>2, BuildCallContent, WaitContent DEF Awaited, Ops
    <3>3. CASE Awaited(w, "buildSettings", "settingsBuild", "batches")
      BY <3>0, <3>3, BuildCallContent, WaitContent DEF Awaited, Ops
    <3>. QED
      BY <2>6, <3>1, <3>2, <3>3 DEF PrepareBuild
  <2>7. CASE IndexBatch(w)
    BY <2>7, BatchContent
  <2>8. CASE SwapWithBuild(w)
    <3>1. CASE CallAndWait(w, "swap", "swap")
      <4>1. run[w] # 0
        BY <3>1 DEF CallAndWait, LockInv
      <4>. QED
        BY <3>1, <4>1, SwapCallContent
    <3>2. CASE WaitReturns(w, "swap", "dropOld") /\ UNCHANGED history
      BY <3>2, WaitContent
    <3>. QED
      BY <2>8, <3>1, <3>2 DEF SwapWithBuild, Awaited
  <2>9. CASE DropBuild(w)
    <3>1. CASE CallAndWait(w, "dropOld", "dropBuild")
      <4>1. run[w] # 0
        BY <3>1 DEF CallAndWait, LockInv
      <4>. QED
        BY <3>1, <4>1, BuildCallContent DEF Ops
    <3>2. CASE /\ WaitReturns(w, "dropOld", "release")
               /\ succeeded' = succeeded \cup {run[w]} /\ UNCHANGED published
      <4>1. /\ pc[w] = "dropOld" /\ pc'[w] = "release"
            /\ \A v \in Workers \ {w} : pc'[v] = pc[v] /\ waiting'[v] = waiting[v]
            /\ UNCHANGED <<run, next, started, queue, live, build, published>>
        BY <3>2, WaitFacts
      <4>2. run[w] # 0 /\ (AddsKept => run[w] \in published)
        BY <4>1 DEF LockInv, Content, PhaseInv, AtSwap
      <4>3. QueueInv'
        BY <1>s, <4>1, QueueSame DEF Content
      <4>4. LiveInv'
        BY <3>2, <4>1, <4>2 DEF Content, LiveInv, NeverMixed, LiveConfigured, SuccessMeansPublished
      <4>5. ASSUME NEW v \in Workers PROVE PhaseInv(v)'
        <5>1. CASE v = w
          BY <4>1, <5>1 DEF PhaseInv, Newer, AtSettings, Owned, Quiet, AtDrop, AtCreate,
             AtBuildSettings, AtBatches, AtSwap
        <5>2. CASE v # w
          BY <4>1, <5>2, PhaseSame DEF Content
        <5>. QED
          BY <5>1, <5>2
      <4>. QED
        BY <4>3, <4>4, <4>5 DEF Content
    <3>. QED
      BY <2>9, <3>1, <3>2 DEF DropBuild
  <2>10. CASE ClearIndex(w)
    <3>1. run[w] = 0
      BY <2>10 DEF ClearIndex, Awaited, CallAndWait, WaitReturns, LockInv
    <3>2. CASE CallAndWait(w, "clear", "clear")
      BY <3>1, <3>2, LiveCallContent DEF Ops, BuildOps
    <3>3. CASE WaitReturns(w, "clear", "idle") /\ UNCHANGED history
      BY <3>1, <3>3, WaitContent
    <3>. QED
      BY <2>10, <3>2, <3>3 DEF ClearIndex, Awaited
  <2>. QED
    BY <1>1, <2>1, <2>2, <2>3, <2>4, <2>5, <2>6, <2>7, <2>8, <2>9, <2>10 DEF JobStep
<1>2. ASSUME NEW w \in Workers, StartReindex(w) \/ StartUnlocked(w) PROVE Content'
  <2>1. /\ run'[w] = 0
        /\ UNCHANGED <<next, serverVars, history>> /\ started' = started
        /\ \A v \in Workers \ {w} : /\ pc'[v] = pc[v] /\ waiting'[v] = waiting[v]
                                    /\ run'[v] = run[v]
    BY <1>2 DEF StartReindex, StartUnlocked, LockInv, TypeOK, lockVars
  <2>. QED
    BY <1>s, <2>1, LeaveStep
<1>3. ASSUME NEW w \in Workers, LockUnavailable(w) PROVE Content'
  BY <1>3 DEF LockUnavailable, LockWorks
<1>4. ASSUME NEW w \in Workers, JobRaises(w) PROVE Content'
  <2>1. /\ run'[w] = 0 \/ pc'[w] = "release"
        /\ UNCHANGED <<next, serverVars, history>> /\ started' = started
        /\ \A v \in Workers \ {w} : /\ pc'[v] = pc[v] /\ waiting'[v] = waiting[v]
                                    /\ run'[v] = run[v]
    BY <1>4 DEF JobRaises, TypeOK, lockVars
  <2>. QED
    BY <1>s, <2>1, LeaveStep
<1>5. ASSUME NEW w \in Workers, WorkerCrash(w) PROVE Content'
  <2>1. /\ run'[w] = 0
        /\ UNCHANGED <<next, serverVars, history>> /\ started' = started
        /\ \A v \in Workers \ {w} : /\ pc'[v] = pc[v] /\ waiting'[v] = waiting[v]
                                    /\ run'[v] = run[v]
    BY <1>5 DEF WorkerCrash, TypeOK, lockVars
  <2>. QED
    BY <1>s, <2>1, LeaveStep
<1>6. CASE LockExpires
  <2>1. UNCHANGED <<jobVars, started, serverVars, history>>
    BY <1>6 DEF LockExpires
  <2>2. QueueInv' /\ LiveInv'
    BY <1>s, <2>1, QueueSame, LiveSame DEF Content, serverVars, history
  <2>3. \A v \in Workers : PhaseInv(v)'
    BY <2>1, PhaseSame DEF Content, serverVars, history, jobVars
  <2>. QED
    BY <2>2, <2>3 DEF Content
<1>7. CASE ProcessTask
  <2>1. /\ Head(queue).op \in Ops /\ Head(queue) = queue[1]
        /\ \/ Effect(queue[1])
           \/ queue[1].op = "add" /\ ~AddsKept /\ UNCHANGED <<live, build>>
    BY <1>7, HeadFacts DEF Content, Task
  <2>2. CASE Head(queue).op = "add"
    BY <1>7, <2>1, <2>2, AddProcessed, AddFailed
  <2>3. CASE Head(queue).op # "add"
    BY <1>7, <2>3, LiveTaskProcessed, StructureTaskProcessed, SwapProcessed DEF BuildOps
  <2>. QED
    BY <2>2, <2>3
<1>8. CASE UNCHANGED vars
  <2>1. UNCHANGED <<jobVars, started, serverVars, history>>
    BY <1>8 DEF vars, lockVars
  <2>2. QueueInv' /\ LiveInv'
    BY <1>s, <2>1, QueueSame, LiveSame DEF Content, serverVars, history
  <2>3. \A v \in Workers : PhaseInv(v)'
    BY <2>1, PhaseSame DEF Content, serverVars, history, jobVars
  <2>. QED
    BY <2>2, <2>3 DEF Content
<1>. QED
  BY <1>1, <1>2, <1>3, <1>4, <1>5, <1>6, <1>7, <1>8 DEF Next

LEMMA InitDocs ==
  ASSUME Init
  PROVE  live.docs = NoDocuments /\ published = {} /\ succeeded = {}
<1>1. Missing.docs = NoDocuments
  BY DEF Missing
<1>2. [Missing EXCEPT !.exists = TRUE, !.settings = TRUE].docs = NoDocuments
  BY DEF Missing
<1>. QED
  BY <1>1, <1>2 DEF Init

LEMMA InitContent ==
  ASSUME Init
  PROVE  Content
<1>1. Len(queue) = 0 /\ Positions = {}
  BY DEF Init, Positions
<1>2. live.docs = NoDocuments /\ published = {} /\ succeeded = {}
  BY InitDocs
<1>3. QueueInv
  BY <1>1 DEF QueueInv
<1>4. LiveInv
  <2>1. \A b \in Batches : live.docs[b] \in {0, 0}
    BY <1>2 DEF NoDocuments
  <2>. QED
    BY <1>2, <2>1, DocsFacts DEF LiveInv, NeverMixed, LiveConfigured, SuccessMeansPublished
<1>5. \A w \in Workers : PhaseInv(w)
  BY DEF Init, PhaseInv
<1>. QED
  BY <1>3, <1>4, <1>5 DEF Content

\* Inv holds of every reachable state, for any number of workers, batches,
\* rebuilds and queued jobs.
THEOREM InvCorrect ==
  ASSUME LockWorks
  PROVE  Spec => []Inv
<1>1. Init => LockInv /\ Content
  BY InitContent, BoundsAssumption DEF Init, LockInv, Section
<1>2. TypeOK /\ TypeOK' /\ LockInv /\ Content /\ [Next]_vars => LockInv' /\ Content'
  BY LockStep, ContentStep
<1>3. TypeOK /\ LockInv /\ Content => Inv
  BY DEF Inv, Content
<1>. QED
  BY <1>1, <1>2, <1>3, TypeCorrect, PTL DEF Spec

-----------------------------------------------------------------------------
(* What follows from it.                                                   *)

\* Queries are answered from nothing or from one complete rebuild: neither a
\* crash between two batches nor a timeout of the swap shows half an index.
THEOREM LiveIsWhole ==
  ASSUME SafeFaults
  PROVE  Spec => []LiveWhole
<1>1. Inv => LiveWhole
  BY DEF Inv, LiveInv, LiveWhole, TypeOK, SafeFaults
<1>. QED
  BY <1>1, InvCorrect, PTL DEF SafeFaults

\* Whatever fails inside a rebuild or inside Meilisearch, readers never see
\* the documents of two rebuilds side by side: a batch that failed leaves a
\* hole, and no stray batch of a crashed rebuild reaches a later one.
THEOREM LiveIsNeverMixed ==
  ASSUME LockWorks
  PROVE  Spec => []NeverMixed
<1>1. Inv => NeverMixed
  BY DEF Inv, LiveInv
<1>. QED
  BY <1>1, InvCorrect, PTL

\* What readers query was configured by _apply_index_settings before it held
\* its first document.
THEOREM LiveIsConfigured ==
  ASSUME LockWorks
  PROVE  Spec => []LiveConfigured
<1>1. Inv => LiveConfigured
  BY DEF Inv, LiveInv
<1>. QED
  BY <1>1, InvCorrect, PTL

\* prepare_build_index hands a rebuild a staging index of its own, although
\* crashed rebuilds leave theirs behind, with tasks still queued for it.
THEOREM BuildIsOwn ==
  ASSUME LockWorks
  PROVE  Spec => []OwnBuild
<1>1. Inv => OwnBuild
  BY DEF Inv, PhaseInv, AtBatches, OwnBuild, InSection, LockInv, Positions
<1>. QED
  BY <1>1, InvCorrect, PTL

\* A reindex job that reports its count has put that rebuild live, although
\* the client never looks at the outcome of a Meilisearch task.
THEOREM SuccessIsPublished ==
  ASSUME SafeFaults
  PROVE  Spec => []SuccessMeansPublished
<1>1. Inv => SuccessMeansPublished
  BY DEF Inv, LiveInv, SafeFaults
<1>. QED
  BY <1>1, InvCorrect, PTL DEF SafeFaults

LEMMA FreedByRelease ==
  ASSUME TypeOK, Next, lock # 0, lock' = 0, pc' # pc
  PROVE  \E w \in Workers : ReleaseLock(w)
<1>1. ASSUME NEW w \in Workers, JobStep(w), ~ReleaseLock(w) PROVE FALSE
  <2>1. lock' # lock
    OBVIOUS
  <2>2. ~AcquireLock(w)
    BY DEF AcquireLock
  <2>3. ASSUME NEW phase, NEW op, NEW then PROVE ~Awaited(w, phase, op, then)
    BY <2>1 DEF Awaited, CallAndWait, WaitReturns, lockVars
  <2>4. ~EnsureIndex(w) /\ ~DropBuild(w)
    BY <2>1 DEF EnsureIndex, DropBuild, CallAndWait, WaitReturns, lockVars
  <2>5. ~LockRefused(w) /\ ~IndexBatch(w)
    BY <2>1 DEF LockRefused, IndexBatch, lockVars
  <2>. QED
    BY <1>1, <2>2, <2>3, <2>4, <2>5
       DEF JobStep, ApplySettings, PrepareBuild, SwapWithBuild, ClearIndex
<1>2. ASSUME NEW w \in Workers PROVE ~StartReindex(w) /\ ~StartUnlocked(w)
  BY DEF StartReindex, StartUnlocked, lockVars
<1>3. ASSUME NEW w \in Workers
      PROVE  ~LockUnavailable(w) /\ ~JobRaises(w) /\ ~WorkerCrash(w)
  BY DEF LockUnavailable, JobRaises, WorkerCrash, lockVars
<1>4. ~LockExpires /\ ~ProcessTask
  BY DEF LockExpires, ProcessTask, jobVars, lockVars
<1>. QED
  BY <1>1, <1>2, <1>3, <1>4 DEF Next

\* The `finally` of reindex_lock, which deletes the key without looking at it,
\* never frees the lock of another rebuild.
THEOREM ReleasesItsOwn ==
  ASSUME LockWorks
  PROVE  Spec => NoForeignRelease
<1> DEFINE Own == lock # 0 /\ lock' = 0 /\ pc' # pc
                    => \E w \in Workers : pc[w] = "release" /\ run[w] = lock
<1>1. Inv /\ [Next]_vars => [Own]_vars
  <2> SUFFICES ASSUME Inv, Next, lock # 0, lock' = 0, pc' # pc
               PROVE  \E w \in Workers : pc[w] = "release" /\ run[w] = lock
    OBVIOUS
  <2>1. ASSUME NEW w \in Workers, ReleaseLock(w) PROVE pc[w] = "release" /\ run[w] = lock
    BY <2>1 DEF ReleaseLock, Inv, LockInv
  <2>2. \E w \in Workers : ReleaseLock(w)
    BY FreedByRelease DEF Inv
  <2>. QED
    BY <2>1, <2>2
<1>2. Spec => [][Own]_vars
  BY <1>1, InvCorrect, PTL DEF Spec
<1>. QED
  BY <1>2 DEF NoForeignRelease

\* Only Meilisearch changes an index, and only by processing a task.
LEMMA OnlyTasksChangeIndexes ==
  ASSUME [Next]_vars, ~ProcessTask
  PROVE  UNCHANGED <<live, build, published>>
<1>1. ASSUME NEW w \in Workers, JobStep(w) PROVE UNCHANGED <<live, build, published>>
  <2>1. ASSUME NEW phase, NEW op, NEW then, Awaited(w, phase, op, then)
        PROVE  UNCHANGED <<live, build, published>>
    BY <2>1 DEF Awaited, CallAndWait, WaitReturns, serverVars, history
  <2>2. CASE EnsureIndex(w) \/ DropBuild(w)
    BY <2>2 DEF EnsureIndex, DropBuild, CallAndWait, WaitReturns, serverVars, history
  <2>3. CASE AcquireLock(w) \/ LockRefused(w) \/ ReleaseLock(w) \/ IndexBatch(w)
    BY <2>3 DEF AcquireLock, Enter, LockRefused, ReleaseLock, IndexBatch, serverVars, history
  <2>. QED
    BY <1>1, <2>1, <2>2, <2>3 DEF JobStep, ApplySettings, PrepareBuild, SwapWithBuild, ClearIndex
<1>2. ASSUME NEW w \in Workers,
             StartReindex(w) \/ StartUnlocked(w) \/ LockUnavailable(w)
             \/ JobRaises(w) \/ WorkerCrash(w)
      PROVE  UNCHANGED <<live, build, published>>
  BY <1>2 DEF StartReindex, StartUnlocked, LockUnavailable, Enter, JobRaises, WorkerCrash,
     serverVars, history
<1>3. CASE LockExpires
  BY <1>3 DEF LockExpires, serverVars, history
<1>4. CASE UNCHANGED vars
  BY <1>4 DEF vars, serverVars, history
<1>. QED
  BY <1>1, <1>2, <1>3, <1>4 DEF Next

\* A task other than a swap leaves the documents readers see, or clears them.
LEMMA OtherTasks ==
  ASSUME AddsKept, TypeOK, Content, ProcessTask, Head(queue).op # "swap"
  PROVE  /\ live'.docs = live.docs \/ (live'.docs = NoDocuments /\ Head(queue).op = "clear")
         /\ published' = published
<1>1. Effect(queue[1]) /\ Head(queue) = queue[1]
      /\ published' = published \cup {g \in Runs : live'.docs = AllFrom(g)}
  BY HeadFacts DEF Content
<1>2. live'.docs = live.docs \/ (live'.docs = NoDocuments /\ Head(queue).op = "clear")
  BY <1>1 DEF Effect, TypeOK, Index
<1>. QED
  BY <1>1, <1>2, PublishedSame DEF Content

\* Only a clear job, which performs no rebuild, enqueues a clear.
ClearInv == \A i \in Positions : queue[i].op = "clear" => queue[i].run = 0

LEMMA ClearCall ==
  ASSUME TypeOK, ClearInv, NEW w \in Workers, NEW op \in Ops, NEW b \in 0 .. NBatches,
         Enqueue(w, op, b), op = "clear" => run[w] = 0
  PROVE  ClearInv'
BY Enqueued DEF ClearInv, Positions

LEMMA ClearStep ==
  ASSUME TypeOK, LockInv, ClearInv, [Next]_vars
  PROVE  ClearInv'
<1>0. ASSUME UNCHANGED queue PROVE ClearInv'
  BY <1>0 DEF ClearInv, Positions
<1>z. 0 \in 0 .. NBatches
  BY BoundsAssumption
<1>1. ASSUME NEW w \in Workers, JobStep(w) PROVE ClearInv'
  <2>1. ASSUME NEW phase, NEW op \in Ops, CallAndWait(w, phase, op),
               op = "clear" => run[w] = 0
        PROVE  ClearInv'
    BY <1>z, <2>1, ClearCall DEF CallAndWait
  <2>2. ASSUME NEW phase, NEW then, WaitReturns(w, phase, then) PROVE ClearInv'
    BY <1>0, <2>2 DEF WaitReturns, serverVars
  <2>3. CASE EnsureIndex(w)
    BY <1>0, <2>1, <2>2, <2>3 DEF EnsureIndex, serverVars, Ops
  <2>4. CASE ApplySettings(w) \/ PrepareBuild(w) \/ SwapWithBuild(w)
    BY <2>1, <2>2, <2>4 DEF ApplySettings, PrepareBuild, SwapWithBuild, Awaited, Ops
  <2>5. CASE IndexBatch(w)
    <3>1. CASE next[w] <= NBatches /\ Enqueue(w, "add", next[w])
      <4>1. next[w] \in 0 .. NBatches
        BY <3>1, BoundsAssumption DEF TypeOK
      <4>. QED
        BY <3>1, <4>1, ClearCall DEF Ops
    <3>2. CASE UNCHANGED queue
      BY <1>0, <3>2
    <3>. QED
      BY <2>5, <3>1, <3>2 DEF IndexBatch
  <2>6. CASE DropBuild(w)
    BY <2>1, <2>2, <2>6 DEF DropBuild, Ops
  <2>7. CASE ClearIndex(w)
    <3>1. pc[w] = "clear" => run[w] = 0
      BY DEF LockInv
    <3>2. CASE CallAndWait(w, "clear", "clear")
      BY <2>1, <3>1, <3>2 DEF CallAndWait, Ops
    <3>3. CASE WaitReturns(w, "clear", "idle")
      BY <2>2, <3>3
    <3>. QED
      BY <2>7, <3>2, <3>3 DEF ClearIndex, Awaited
  <2>8. CASE AcquireLock(w) \/ LockRefused(w) \/ ReleaseLock(w)
    BY <1>0, <2>8 DEF AcquireLock, Enter, LockRefused, ReleaseLock, serverVars
  <2>. QED
    BY <1>1, <2>3, <2>4, <2>5, <2>6, <2>7, <2>8 DEF JobStep
<1>2. ASSUME NEW w \in Workers,
             StartReindex(w) \/ StartUnlocked(w) \/ LockUnavailable(w)
             \/ JobRaises(w) \/ WorkerCrash(w)
      PROVE  ClearInv'
  BY <1>0, <1>2 DEF StartReindex, StartUnlocked, LockUnavailable, Enter, JobRaises, WorkerCrash,
     serverVars
<1>3. CASE LockExpires
  BY <1>0, <1>3 DEF LockExpires, serverVars
<1>4. CASE ProcessTask
  <2>1. /\ Len(queue) \in Nat
        /\ Len(queue') = Len(queue) - 1
        /\ \A i \in 1 .. Len(queue') : queue'[i] = queue[i + 1]
    BY <1>4, TailFacts DEF ProcessTask, TypeOK
  <2>. QED
    BY <2>1 DEF ClearInv, Positions
<1>5. CASE UNCHANGED vars
  BY <1>0, <1>5 DEF vars, serverVars
<1>. QED
  BY <1>1, <1>2, <1>3, <1>4, <1>5 DEF Next

\* A rebuild has no zero-results window: once documents are served, nothing
\* but the clear an operator asked for leaves readers with none.
THEOREM OnlyClearEmpties ==
  ASSUME SafeFaults
  PROVE  Spec => EmptiedOnlyByClear
<1> DEFINE Own == live.docs # NoDocuments /\ live'.docs = NoDocuments
                    => Head(queue).op = "clear" /\ Head(queue).run = 0
<1>1. Inv /\ ClearInv /\ [Next]_vars => [Own]_vars
  <2> SUFFICES ASSUME Inv, ClearInv, Next, live.docs # NoDocuments, live'.docs = NoDocuments
               PROVE  Head(queue).op = "clear" /\ Head(queue).run = 0
    OBVIOUS
  <2>1. ProcessTask
    BY OnlyTasksChangeIndexes
  <2>2. Content
    BY DEF Inv, Content
  <2>3. Head(queue).op # "swap"
    BY <2>1, <2>2, SwapFacts, DocsFacts DEF Inv, SafeFaults
  <2>4. Head(queue).op = "clear"
    BY <2>1, <2>2, <2>3, OtherTasks DEF Inv, SafeFaults
  <2>5. Head(queue) = queue[1] /\ 1 \in Positions
    BY <2>1, TailFacts DEF ProcessTask, Inv, TypeOK, Positions
  <2>. QED
    BY <2>4, <2>5 DEF ClearInv
<1>2. Init => ClearInv
  BY DEF Init, ClearInv, Positions
<1>3. Inv => TypeOK /\ LockInv
  BY DEF Inv
<1>4. TypeOK /\ LockInv /\ ClearInv /\ [Next]_vars => ClearInv'
  BY ClearStep
<1>5. Spec => [][Own]_vars
  BY <1>1, <1>2, <1>3, <1>4, InvCorrect, PTL DEF Spec, SafeFaults
<1>. QED
  BY <1>5 DEF EmptiedOnlyByClear

-----------------------------------------------------------------------------
(* The rebuild implements what the index promises its readers.             *)

LEMMA ServedFacts ==
  /\ live.docs = NoDocuments => Served = 0
  /\ \A r \in Runs : live.docs = AllFrom(r) => Served = r
  /\ live'.docs = NoDocuments => Served' = 0
  /\ \A r \in Runs : live'.docs = AllFrom(r) => Served' = r
  /\ live'.docs = live.docs => Served' = Served
BY DocsFacts DEF Served, LiveWhole, AllFrom, Torn

\* Every step of the system is a step of AtomicIndex or leaves readers alone:
\* the swap publishes a newer rebuild whole, a clear empties, nothing else is
\* seen.
THEOREM Refinement ==
  ASSUME SafeFaults
  PROVE  Spec => ServesAtomically
<1>1. Init => Readers!AInit
  BY InitDocs, ServedFacts DEF Readers!AInit
<1>2. Inv /\ [Next]_vars => [Readers!ANext]_(Readers!avars)
  <2> SUFFICES ASSUME Inv, [Next]_vars PROVE [Readers!ANext]_(Readers!avars)
    OBVIOUS
  <2>0. TypeOK /\ Content
    BY DEF Inv, Content
  <2>1. CASE ~ProcessTask
    <3>1. Served' = Served /\ published' = published
      BY <2>1, OnlyTasksChangeIndexes, ServedFacts
    <3>. QED
      BY <3>1 DEF Readers!avars
  <2>2. CASE ProcessTask /\ Head(queue).op = "swap"
    <3> DEFINE r == queue[1].run
    <3> HIDE DEF r
    <3>1. /\ r \in Runs /\ live'.docs = AllFrom(r)
          /\ published' = published \cup {r} /\ \A g \in published : g < r
      BY <2>0, <2>2, SwapFacts DEF r, SafeFaults
    <3>2. Served' = r
      BY <3>1, ServedFacts
    <3>3. r > 0 /\ \A g \in published : r > g
      BY <2>0, <3>1, BoundsAssumption DEF Runs, TypeOK
    <3>. QED
      BY <3>1, <3>2, <3>3 DEF Readers!ANext, Readers!Publish
  <2>3. CASE ProcessTask /\ Head(queue).op # "swap"
    <3>1. published' = published /\ (Served' = Served \/ Served' = 0)
      BY <2>0, <2>3, OtherTasks, ServedFacts DEF SafeFaults
    <3>. QED
      BY <3>1 DEF Readers!ANext, Readers!Empty, Readers!avars
  <2>. QED
    BY <2>1, <2>2, <2>3
<1>. QED
  BY <1>1, <1>2, InvCorrect, PTL DEF Spec, ServesAtomically, Readers!ASpec, SafeFaults
=============================================================================
