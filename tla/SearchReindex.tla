---------------------------- MODULE SearchReindex ----------------------------
(***************************************************************************)
(* The atomic rebuild of one search index: IndexingService.reindex of      *)
(* src/apps/search/services.py driving MeilisearchIndexWriter of           *)
(* src/apps/search/meilisearch/writer.py, run by Celery workers and        *)
(* management commands that share one Meilisearch server and one Redis     *)
(* lock.  The operator's other two jobs on the same index, clear and setup,*)
(* take no lock and are modelled with it.                                  *)
(*                                                                         *)
(* Meilisearch (external) keeps one FIFO queue of tasks.  A call of the    *)
(* writer enqueues a task; most calls then wait for it, add_documents does *)
(* not.  A task that fails is not reported to the waiter, since            *)
(* wait_for_task returns a failed task like any other.                     *)
(*                                                                         *)
(* The corpus is abstracted to Batches; a document is known by the rebuild *)
(* that wrote it.  An index maps each batch to the rebuild its documents   *)
(* come from, 0 when the batch is absent.                                  *)
(***************************************************************************)
EXTENDS Naturals, Sequences

CONSTANTS
  Workers,    \* processes that run search jobs (Celery workers, manage.py)
  NBatches,   \* batches of REINDEX_BATCH_SIZE rows in the corpus
  MaxRuns,    \* bound: rebuilds that get past the lock
  MaxQueue,   \* bound: no clear or setup starts behind more queued tasks
  Faults      \* which of AllFaults the environment may commit

AllFaults ==
  { "raise",        \* a call of the job raises: timeout, lost connection, bad row
    "crash",        \* the worker process dies; its task was acknowledged early
    "slowHolder",   \* a rebuild outlives REINDEX_LOCK_TIMEOUT_SECONDS
    "lockDown",     \* the lock cache fails when the lock is taken
    "unlockFails",  \* the lock cache fails when the lock is released
    "addFails" }    \* an add-documents task fails inside Meilisearch

Batches == 1 .. NBatches
Runs == 1 .. MaxRuns

ASSUME BoundsAssumption == NBatches \in Nat \ {0} /\ MaxRuns \in Nat /\ MaxQueue \in Nat
ASSUME FaultsAssumption == Faults \subseteq AllFaults

VARIABLES
  pc,         \* what each worker is doing
  waiting,    \* whether it is inside wait_for_task
  run,        \* the rebuild it is performing; 0 when it performs none
  next,       \* the next batch of that rebuild
  holds,      \* the local `acquired` of reindex_lock
  lock,       \* the Redis key: the rebuild that set it, 0 when absent
  started,    \* how many rebuilds have got past the lock
  queue,      \* Meilisearch tasks not processed yet
  live,       \* the index readers query, `<uid>`
  build,      \* the staging index, `<uid>__build`
  published,  \* history: rebuilds that were live, complete
  succeeded   \* history: rebuilds whose job returned normally

jobVars == <<pc, waiting, run, next, holds>>
lockVars == <<lock, started>>
serverVars == <<queue, live, build>>
history == <<published, succeeded>>
vars == <<jobVars, lockVars, serverVars, history>>

-----------------------------------------------------------------------------
NoDocuments == [b \in Batches |-> 0]
AllFrom(g) == [b \in Batches |-> g]
Missing == [exists |-> FALSE, settings |-> FALSE, docs |-> NoDocuments]
Index == [exists : BOOLEAN, settings : BOOLEAN, docs : [Batches -> 0 .. MaxRuns]]

\* The phases of reindex between taking the lock and giving it back.
Section == {"ensure", "settings", "drop", "create", "buildSettings",
            "batches", "swap", "dropOld", "release"}
Phases == Section \cup {"idle", "lock", "clear"}

Ops == {"createLive", "settingsLive", "dropBuild", "createBuild",
        "settingsBuild", "add", "swap", "clear"}
Task == [op : Ops, by : Workers, run : 0 .. MaxRuns, batch : 0 .. NBatches]

\* Worker w performs a rebuild and is past the lock.
InSection(w) == pc[w] \in Section /\ run[w] # 0

TypeOK ==
  /\ pc \in [Workers -> Phases]
  /\ waiting \in [Workers -> BOOLEAN]
  /\ run \in [Workers -> 0 .. MaxRuns]
  /\ next \in [Workers -> 1 .. NBatches + 1]
  /\ holds \in [Workers -> BOOLEAN]
  /\ lock \in 0 .. MaxRuns
  /\ started \in 0 .. MaxRuns
  /\ queue \in Seq(Task)
  /\ live \in Index
  /\ build \in Index
  /\ published \subseteq Runs
  /\ succeeded \subseteq 0 .. MaxRuns

Init ==
  /\ pc = [w \in Workers |-> "idle"]
  /\ waiting = [w \in Workers |-> FALSE]
  /\ run = [w \in Workers |-> 0]
  /\ next = [w \in Workers |-> 1]
  /\ holds = [w \in Workers |-> FALSE]
  /\ lock = 0
  /\ started = 0
  /\ queue = <<>>
  /\ live \in {Missing, [Missing EXCEPT !.exists = TRUE, !.settings = TRUE]}
  /\ build = Missing
  /\ published = {}
  /\ succeeded = {}

-----------------------------------------------------------------------------
(* Calls of the Meilisearch client.                                        *)

\* Mutant: batches are counted from zero by the caller.
EnqueueNextBatch(w, op, b) ==
  queue' = Append(queue, [op |-> op, by |-> w, run |-> run[w], batch |-> b + 1])

Enqueue(w, op, b) ==
  queue' = Append(queue, [op |-> op, by |-> w, run |-> run[w], batch |-> b])

\* The call of `phase` enqueues its task and enters wait_for_task.
CallAndWait(w, phase, op) ==
  /\ pc[w] = phase /\ ~waiting[w]
  /\ Enqueue(w, op, 0)
  /\ waiting' = [waiting EXCEPT ![w] = TRUE]
  /\ UNCHANGED <<pc, run, next, holds, lockVars, live, build, history>>

\* Mutant: the call does not wait, as add_documents does not.
ReturnsAtOnce(w, phase, then) ==
  /\ pc[w] = phase /\ waiting[w]
  /\ pc' = [pc EXCEPT ![w] = then]
  /\ waiting' = [waiting EXCEPT ![w] = FALSE]
  /\ UNCHANGED <<run, next, holds, lockVars, serverVars>>

\* Mutant: the call waits until Meilisearch is idle.
WaitsForIdle(w, phase, then) == queue = <<>> /\ ReturnsAtOnce(w, phase, then)

\* wait_for_task returns once the task is processed.  The queue is FIFO and
\* w waits for the last task it enqueued, so none of its tasks is left.
WaitReturns(w, phase, then) ==
  /\ pc[w] = phase /\ waiting[w]
  /\ \A i \in 1 .. Len(queue) : queue[i].by # w
  /\ pc' = [pc EXCEPT ![w] = then]
  /\ waiting' = [waiting EXCEPT ![w] = FALSE]
  /\ UNCHANGED <<run, next, holds, lockVars, serverVars>>

Awaited(w, phase, op, then) ==
  \/ CallAndWait(w, phase, op)
  \/ WaitReturns(w, phase, then) /\ UNCHANGED history

-----------------------------------------------------------------------------
(* reindex_lock.                                                           *)

\* The job is picked up: the registration is read and the rows are counted.
StartReindex(w) ==
  /\ pc[w] = "idle"
  /\ pc' = [pc EXCEPT ![w] = "lock"]
  /\ UNCHANGED <<waiting, run, next, holds, lockVars, serverVars, history>>

\* A rebuild enters the section under a fresh number.
Enter(w, acquired) ==
  /\ started < MaxRuns
  /\ started' = started + 1
  /\ run' = [run EXCEPT ![w] = started + 1]
  /\ next' = [next EXCEPT ![w] = 1]
  /\ holds' = [holds EXCEPT ![w] = acquired]
  /\ pc' = [pc EXCEPT ![w] = "ensure"]
  /\ UNCHANGED <<waiting, serverVars, history>>

\* Mutant: cache.set instead of cache.add.
SetLock(w) == pc[w] = "lock" /\ Enter(w, TRUE) /\ lock' = started + 1

\* cache.add sets the absent key.
AcquireLock(w) ==
  /\ pc[w] = "lock" /\ lock = 0
  /\ Enter(w, TRUE)
  /\ lock' = started + 1

\* Mutant: the refused job runs the `finally` as well.
RefusedReleases(w) ==
  /\ pc[w] = "lock" /\ lock # 0
  /\ pc' = [pc EXCEPT ![w] = "idle"]
  /\ lock' = 0
  /\ UNCHANGED <<waiting, run, next, holds, started, serverVars, history>>

\* cache.add finds the key: ReindexInProgressError ends the job.
LockRefused(w) ==
  /\ pc[w] = "lock" /\ lock # 0
  /\ pc' = [pc EXCEPT ![w] = "idle"]
  /\ UNCHANGED <<waiting, run, next, holds, lockVars, serverVars, history>>

\* The cache raises: the rebuild proceeds without the lock.
LockUnavailable(w) ==
  /\ pc[w] = "lock" /\ "lockDown" \in Faults
  /\ Enter(w, FALSE)
  /\ UNCHANGED lock

\* The `finally` of the lock: cache.delete removes the key, whoever set it;
\* an exception of the cache is logged and swallowed.
ReleaseLock(w) ==
  /\ pc[w] = "release"
  /\ \/ holds[w] /\ lock' = 0
     \/ ~holds[w] /\ UNCHANGED lock
     \/ holds[w] /\ "unlockFails" \in Faults /\ UNCHANGED lock
  /\ pc' = [pc EXCEPT ![w] = "idle"]
  /\ run' = [run EXCEPT ![w] = 0]
  /\ holds' = [holds EXCEPT ![w] = FALSE]
  /\ UNCHANGED <<waiting, next, started, serverVars, history>>

\* Mutant: the key is set without a timeout, it ends only with the cache.
LockNeverExpires == "slowHolder" \in Faults /\ lock' = 0 /\ UNCHANGED <<jobVars, started, serverVars, history>>

\* Redis drops the key after REINDEX_LOCK_TIMEOUT_SECONDS.  Without
\* "slowHolder" that is longer than any rebuild that is still running.
LockExpires ==
  /\ lock # 0
  /\ \/ \A w \in Workers : run[w] # lock
     \/ "slowHolder" \in Faults
  /\ lock' = 0
  /\ UNCHANGED <<jobVars, started, serverVars, history>>

-----------------------------------------------------------------------------
(* The steps of a rebuild.                                                 *)

\* ensure_index_and_settings, first half: create the live index if absent.
EnsureIndex(w) ==
  \/ /\ pc[w] = "ensure" /\ ~waiting[w] /\ live.exists
     /\ pc' = [pc EXCEPT ![w] = "settings"]
     /\ UNCHANGED <<waiting, run, next, holds, lockVars, serverVars, history>>
  \/ ~live.exists /\ CallAndWait(w, "ensure", "createLive")
  \/ WaitReturns(w, "ensure", "settings") /\ UNCHANGED history

\* Second half: _apply_index_settings.  A setup job ends here.
ApplySettings(w) ==
  Awaited(w, "settings", "settingsLive", IF run[w] = 0 THEN "idle" ELSE "drop")

\* Mutants of prepare_build_index: it keeps a stale build index; it does not
\* configure the new one; it empties the live index instead of the stale build.
ReuseBuild(w) ==
  \/ Awaited(w, "drop", "createBuild", "buildSettings")
  \/ Awaited(w, "buildSettings", "settingsBuild", "batches")
UnconfiguredBuild(w) ==
  Awaited(w, "drop", "dropBuild", "create") \/ Awaited(w, "create", "createBuild", "batches")
DropsLive(w) ==
  \/ Awaited(w, "drop", "clear", "create")
  \/ Awaited(w, "create", "createBuild", "buildSettings")
  \/ Awaited(w, "buildSettings", "settingsBuild", "batches")

\* prepare_build_index: drop the stale build index, create and configure one.
PrepareBuild(w) ==
  \/ Awaited(w, "drop", "dropBuild", "create")
  \/ Awaited(w, "create", "createBuild", "buildSettings")
  \/ Awaited(w, "buildSettings", "settingsBuild", "batches")

\* The batch loop: each batch is handed to Meilisearch, none is waited for.
IndexBatch(w) ==
  /\ pc[w] = "batches"
  /\ \/ /\ next[w] <= NBatches
        /\ Enqueue(w, "add", next[w])
        /\ next' = [next EXCEPT ![w] = @ + 1]
        /\ UNCHANGED pc
     \/ /\ next[w] > NBatches
        /\ pc' = [pc EXCEPT ![w] = "swap"]
        /\ UNCHANGED <<next, queue>>
  /\ UNCHANGED <<waiting, run, holds, lockVars, live, build, history>>

SwapWithBuild(w) == Awaited(w, "swap", "swap", "dropOld")

\* drop_build_index, after which reindex returns to its caller.
DropBuild(w) ==
  \/ CallAndWait(w, "dropOld", "dropBuild")
  \/ /\ WaitReturns(w, "dropOld", "release")
     /\ succeeded' = succeeded \cup {run[w]}
     /\ UNCHANGED published

\* An exception leaves reindex through the `finally` of its lock, and a clear
\* or setup job directly.  Tasks already enqueued stay in the queue.
JobRaises(w) ==
  /\ "raise" \in Faults
  /\ pc[w] \in (Section \ {"release"}) \cup {"clear"}
  /\ pc' = [pc EXCEPT ![w] = IF run[w] = 0 THEN "idle" ELSE "release"]
  /\ waiting' = [waiting EXCEPT ![w] = FALSE]
  /\ UNCHANGED <<run, next, holds, lockVars, serverVars, history>>

\* The process dies: nothing is released, nobody retries the task.
WorkerCrash(w) ==
  /\ "crash" \in Faults
  /\ pc[w] # "idle"
  /\ pc' = [pc EXCEPT ![w] = "idle"]
  /\ waiting' = [waiting EXCEPT ![w] = FALSE]
  /\ run' = [run EXCEPT ![w] = 0]
  /\ holds' = [holds EXCEPT ![w] = FALSE]
  /\ UNCHANGED <<next, lockVars, serverVars, history>>

-----------------------------------------------------------------------------
(* The jobs that take no lock.                                             *)

StartUnlocked(w) ==
  /\ pc[w] = "idle" /\ Len(queue) < MaxQueue
  /\ pc' = [pc EXCEPT ![w] = "clear"] \/ pc' = [pc EXCEPT ![w] = "ensure"]
  /\ UNCHANGED <<waiting, run, next, holds, lockVars, serverVars, history>>

\* IndexingService.clear: delete_all on the live index.
ClearIndex(w) == Awaited(w, "clear", "clear", "idle")

-----------------------------------------------------------------------------
(* Meilisearch (external).  Creating an index that exists, or swapping with *)
(* one that does not, is a task that fails without effect; adding documents *)
(* or settings creates the index.                                           *)

Effect(t) ==
  \/ /\ t.op = "createLive"
     /\ live' = [live EXCEPT !.exists = TRUE]
     /\ UNCHANGED build
  \/ /\ t.op = "settingsLive"
     /\ live' = [live EXCEPT !.exists = TRUE, !.settings = TRUE]
     /\ UNCHANGED build
  \/ /\ t.op = "clear"
     /\ live' = [live EXCEPT !.docs = NoDocuments]
     /\ UNCHANGED build
  \/ /\ t.op = "dropBuild"
     /\ build' = Missing
     /\ UNCHANGED live
  \/ /\ t.op = "createBuild"
     /\ build' = [build EXCEPT !.exists = TRUE]
     /\ UNCHANGED live
  \/ /\ t.op = "settingsBuild"
     /\ build' = [build EXCEPT !.exists = TRUE, !.settings = TRUE]
     /\ UNCHANGED live
  \/ /\ t.op = "add"
     /\ build' = [build EXCEPT !.exists = TRUE, !.docs = [@ EXCEPT ![t.batch] = t.run]]
     /\ UNCHANGED live
  \/ /\ t.op = "swap" /\ live.exists /\ build.exists
     /\ live' = build
     /\ build' = live
  \/ /\ t.op = "swap" /\ ~(live.exists /\ build.exists)
     /\ UNCHANGED <<live, build>>

ProcessTask ==
  /\ queue # <<>>
  /\ queue' = Tail(queue)
  /\ \/ Effect(Head(queue))
     \/ Head(queue).op = "add" /\ "addFails" \in Faults /\ UNCHANGED <<live, build>>
  /\ published' = published \cup {g \in Runs : live'.docs = AllFrom(g)}
  /\ UNCHANGED <<jobVars, lockVars, succeeded>>

-----------------------------------------------------------------------------
\* The steps a job takes by itself once it has been picked up.
JobStep(w) ==
  \/ AcquireLock(w) \/ LockRefused(w) \/ ReleaseLock(w)
  \/ EnsureIndex(w) \/ ApplySettings(w) \/ PrepareBuild(w) \/ IndexBatch(w)
  \/ SwapWithBuild(w) \/ DropBuild(w) \/ ClearIndex(w)

Next ==
  \/ \E w \in Workers : \/ JobStep(w) \/ StartReindex(w) \/ StartUnlocked(w)
                        \/ LockUnavailable(w) \/ JobRaises(w) \/ WorkerCrash(w)
  \/ LockExpires
  \/ ProcessTask

Spec == Init /\ [][Next]_vars

\* A job that was picked up goes on unless it raises or dies; Redis expires
\* keys; Meilisearch works off its queue.
Fairness ==
  /\ \A w \in Workers : WF_vars(JobStep(w))
  /\ WF_vars(LockExpires)
  /\ WF_vars(ProcessTask)

FairSpec == Spec /\ Fairness
-----------------------------------------------------------------------------
(* Properties.                                                             *)

\* The live index is empty or holds every batch of one rebuild: never half
\* of a rebuild, never two mixed.  IndexingService.reindex promises it of a
\* run that crashes mid-stream ("never a half-empty index").
LiveWhole ==
  live.docs = NoDocuments \/ \E g \in Runs : live.docs = AllFrom(g)

\* Documents are only ever served from an index whose filterable, sortable and
\* searchable attributes were applied: _apply_index_settings ran on what is
\* now live, even when the index was created implicitly by a stray batch.
LiveConfigured == live.docs # NoDocuments => live.settings

\* reindex_lock: at most one rebuild is between the lock and its release.
OneRebuild == \A v, w \in Workers : InSection(v) /\ InSection(w) => v = w

\* The staging index a rebuild streams into holds none but its own documents:
\* prepare_build_index dropped whatever a crashed rebuild had left there, and
\* no task of that rebuild is still to come.
OwnBuild ==
  \A w \in Workers :
    InSection(w) /\ pc[w] \in {"batches", "swap"} /\ ~waiting[w] =>
      /\ \A b \in Batches : build.docs[b] \in {0, run[w]}
      /\ \A i \in 1 .. Len(queue) : queue[i].op = "add" => queue[i].run = run[w]

\* Whatever fails, readers never see two rebuilds side by side.
NeverMixed == \E g \in Runs \cup {0} : \A b \in Batches : live.docs[b] \in {0, g}

\* A rebuild that returned its count to the caller was live, complete.
SuccessMeansPublished == succeeded \subseteq published

\* A job deletes the lock key only if it is the one that set it; otherwise it
\* frees the lock of another run (test_contended_lock_raises_and_does_not_release).
NoForeignRelease ==
  [][lock # 0 /\ lock' = 0 /\ pc' # pc
       => \E w \in Workers : pc[w] = "release" /\ run[w] = lock]_vars

\* Readers lose all results only by an operator's clear job: a rebuild has no
\* zero-results window (clear_and_reindex_index does not clear first).
EmptiedOnlyByClear ==
  [][live.docs # NoDocuments /\ live'.docs = NoDocuments
       => Head(queue).op = "clear" /\ Head(queue).run = 0]_vars

\* Readers are served by AtomicIndex.
Torn == MaxRuns + 1
Served ==
  IF live.docs = NoDocuments THEN 0
  ELSE IF LiveWhole THEN live.docs[1] ELSE Torn
Readers == INSTANCE AtomicIndex WITH served <- Served, published <- published
ServesAtomically == Readers!ASpec

\* The lock never stays taken: its holder releases it, or it expires ("a
\* worker that dies mid-rebuild can't wedge an index's reindex forever").
LockFreed == lock # 0 ~> lock = 0

\* Every job that got past the lock ends, whoever else is working.
JobsEnd == \A w \in Workers : pc[w] \in Section \cup {"clear"} ~> pc[w] = "idle"
=============================================================================
