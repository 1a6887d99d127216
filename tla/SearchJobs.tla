----------------------------- MODULE SearchJobs -----------------------------
(* The jobs that rebuild search indexes and what their progress reports say: *)
(* actions of the management API become Celery tasks, a task rebuilds one     *)
(* index or all of them in turn, and an index that fails is left out          *)
(* (apps/search/admin_service, tasks, progress, services).  What a rebuild    *)
(* does to an index, and the lock in detail, is SearchReindex's subject.      *)
EXTENDS SequencesExt, FiniteSetsExt, Integers

CONSTANTS Indexes,      \* the order of IndexType: a sequence
          Tasks,        \* ids of Celery tasks and of commands, numbers
          Workers,      \* how many tasks run at a time
          Batch,        \* REINDEX_BATCH_SIZE: 500
          InitialRows,  \* index -> rows its documents are built from
          MaxRowChanges, MaxFails   \* bounds

ASSUME JobsAssumption ==
    /\ IsFiniteSet(Tasks) /\ Tasks = 1 .. Cardinality(Tasks)
    /\ Workers \in Nat \ {0} /\ Batch \in Nat \ {0}
ASSUME IndexesAssumption ==
    /\ Indexes \in Seq(Range(Indexes)) /\ Indexes # <<>>
    /\ IsInjective(Indexes)
    /\ InitialRows \in [Range(Indexes) -> Nat]

VARIABLES
  rowsOf,       \* index -> number of rows in the database
  builtBy,      \* index -> task whose documents it serves, 0 at first
  locks,        \* index -> task that holds its lock, 0 for none
  tasks,        \* task -> what it was asked and where it is
  waiting,      \* the queue
  status,       \* task -> what the result backend has of it
  rowChanges, fails,
  swapped,      \* history: task -> indexes it swapped
  failed,       \* history: task -> indexes whose rebuild raised
  grown         \* history: tasks whose index got rows after they were counted

jobVars == <<rowsOf, builtBy, locks, tasks, waiting, status, rowChanges, fails, swapped, failed, grown>>
marks == <<swapped, failed, grown>>

All == {"clear_and_rebuild_all", "sync_all"}
Single == {"reindex", "clean_and_reindex"}

Unstarted == [kind |-> "none", order |-> <<>>, at |-> "none", pos |-> 0,
              total |-> 0, left |-> 0, done |-> 0, result |-> <<>>]
Pending == [state |-> "PENDING", current |-> 0, segment |-> "", done |-> 0, total |-> 0, indexed |-> 0]

JobsInit ==
    /\ rowsOf = InitialRows
    /\ builtBy = [i \in DOMAIN InitialRows |-> 0]
    /\ locks = [i \in DOMAIN InitialRows |-> 0]
    /\ tasks = [t \in Tasks |-> Unstarted] /\ waiting = <<>>
    /\ status = [t \in Tasks |-> Pending]
    /\ rowChanges = 0 /\ fails = 0
    /\ swapped = [t \in Tasks |-> {}] /\ failed = [t \in Tasks |-> {}] /\ grown = {}

Free == {t \in Tasks : tasks[t].kind = "none"}
Running == {t \in Tasks : tasks[t].at \notin {"none", "queued", "over", "dead"}}
Index(t) == tasks[t].order[tasks[t].pos]
-----------------------------------------------------------------------------
(* Starting                                                                 *)

NewTask(kind, order) == [Unstarted EXCEPT !.kind = kind, !.order = order, !.at = "queued"]

Enqueue(orders, kind) ==
    LET first == Min(Free)
        new == first .. first + Len(orders) - 1
    IN /\ Cardinality(Free) >= Len(orders)
       /\ tasks' = [t \in Tasks |-> IF t \in new THEN NewTask(kind, orders[t - first + 1]) ELSE tasks[t]]
       /\ waiting' = waiting \o [i \in DOMAIN orders |-> first + i - 1]
       /\ UNCHANGED <<rowsOf, builtBy, locks, status, rowChanges, fails, marks>>

\* One index; reindex_all as one task for each; clear and rebuild as one task
\* for all.
StartAction ==
    /\ Free # {}
    /\ \/ \E kind \in Single \cup {"clear"}, i \in Range(Indexes) : Enqueue(<< <<i>> >>, kind)
       \/ Enqueue([n \in DOMAIN Indexes |-> <<Indexes[n]>>], "reindex")
       \/ Enqueue(<<Indexes>>, "clear_and_rebuild_all")

\* The command runs at once, beside the workers, and reports to nobody.
StartCommand ==
    /\ Free # {}
    /\ tasks' = [tasks EXCEPT ![Min(Free)] =
         [NewTask("sync_all", Indexes) EXCEPT !.at = "count", !.pos = 1]]
    /\ UNCHANGED <<rowsOf, builtBy, locks, waiting, status, rowChanges, fails, marks>>

Report(t, s) ==
    status' = IF tasks[t].kind = "sync_all" THEN status ELSE [status EXCEPT ![t] = s]

\* A worker takes the oldest task; a clear reports no progress.
Take ==
    /\ waiting # <<>>
    /\ Cardinality({t \in Running : tasks[t].kind # "sync_all"}) < Workers
    /\ LET t == Head(waiting)
           clear == tasks[t].kind = "clear"
       IN /\ tasks' = [tasks EXCEPT ![t].at = IF clear THEN "clear" ELSE "count", ![t].pos = 1]
          /\ IF clear THEN UNCHANGED status
             ELSE Report(t, [Pending EXCEPT !.state = "STARTED"])
    /\ waiting' = Tail(waiting)
    /\ UNCHANGED <<rowsOf, builtBy, locks, rowChanges, fails, marks>>

Clear(t) ==
    /\ tasks[t].at = "clear"
    /\ builtBy' = [builtBy EXCEPT ![Index(t)] = t]
    /\ tasks' = [tasks EXCEPT ![t].at = "over"]
    /\ status' = [status EXCEPT ![t].state = "SUCCESS"]
    /\ UNCHANGED <<rowsOf, locks, waiting, rowChanges, fails, marks>>
-----------------------------------------------------------------------------
(* Rebuilding one index                                                     *)

\* The rows are counted before the lock is asked for.
Count(t) ==
    /\ tasks[t].at = "count"
    /\ tasks' = [tasks EXCEPT ![t].total = rowsOf[Index(t)], ![t].done = 0, ![t].at = "lock"]
    /\ grown' = grown \ {t}
    /\ UNCHANGED <<rowsOf, builtBy, locks, waiting, status, rowChanges, fails, swapped, failed>>

\* What the orchestration returns: the indexes that went through.
Finished(t, task) ==
    LET sum == FoldFunction(+, 0, task.result)
    IN /\ tasks' = [tasks EXCEPT ![t] = [task EXCEPT !.at = "over"]]
       /\ Report(t, [status[t] EXCEPT !.state = "SUCCESS", !.indexed = sum])

\* The loop over all indexes goes on; a task for one index is done.
GoOn(t, task) ==
    IF task.kind \in All /\ task.pos < Len(task.order)
    THEN /\ tasks' = [tasks EXCEPT ![t] = [task EXCEPT !.pos = @ + 1, !.at = "count"]]
         /\ UNCHANGED status
    ELSE Finished(t, task)

\* Mutant: an exception ends the loop.
RaisedOut(t) ==
    /\ tasks' = [tasks EXCEPT ![t].at = "over"]
    /\ Report(t, [status[t] EXCEPT !.state = "FAILURE"])

\* An exception ends a task for one index; the loop logs it and goes on.
Raised(t) ==
    IF tasks[t].kind \in All THEN GoOn(t, tasks[t])
    ELSE /\ tasks' = [tasks EXCEPT ![t].at = "over"]
         /\ Report(t, [status[t] EXCEPT !.state = "FAILURE"])

Lock(t) ==
    LET i == Index(t)
    IN /\ tasks[t].at = "lock"
       /\ IF locks[i] = 0
          THEN /\ locks' = [locks EXCEPT ![i] = t]
               /\ tasks' = [tasks EXCEPT ![t].at = "open"]
               /\ UNCHANGED <<status, failed>>
          ELSE /\ failed' = [failed EXCEPT ![t] = @ \cup {i}]
               /\ Raised(t)
               /\ UNCHANGED locks
       /\ UNCHANGED <<rowsOf, builtBy, waiting, rowChanges, fails, swapped, grown>>

\* The rows that are read are those of the first fetch.
OpenCursor(t) ==
    /\ tasks[t].at = "open"
    /\ tasks' = [tasks EXCEPT ![t].left = rowsOf[Index(t)], ![t].at = "write"]
    /\ UNCHANGED <<rowsOf, builtBy, locks, waiting, status, rowChanges, fails, marks>>

\* Mutant: the reporter is not told that the loop moves on.
PositionAtStart(t) == 1

Position(t) == tasks[t].pos

WriteBatch(t) ==
    LET n == IF tasks[t].left < Batch THEN tasks[t].left ELSE Batch
        done == tasks[t].done + n
    IN /\ tasks[t].at = "write" /\ tasks[t].left > 0
       /\ tasks' = [tasks EXCEPT ![t].left = @ - n, ![t].done = done]
       /\ Report(t, [state |-> "PROGRESS", current |-> Position(t), segment |-> Index(t),
                     done |-> done, total |-> tasks[t].total, indexed |-> 0])
       /\ UNCHANGED <<rowsOf, builtBy, locks, waiting, rowChanges, fails, marks>>

Swap(t) ==
    LET i == Index(t)
    IN /\ tasks[t].at = "write" /\ tasks[t].left = 0
       /\ builtBy' = [builtBy EXCEPT ![i] = t]
       /\ swapped' = [swapped EXCEPT ![t] = @ \cup {i}]
       /\ tasks' = [tasks EXCEPT ![t].at = "drop"]
       /\ UNCHANGED <<rowsOf, locks, waiting, status, rowChanges, fails, failed, grown>>

\* The lock goes before the answer; the answer counts rows.
DropBuild(t) ==
    LET i == Index(t)
    IN /\ tasks[t].at = "drop"
       /\ locks' = [locks EXCEPT ![i] = 0]
       /\ GoOn(t, [tasks[t] EXCEPT !.result =
            [j \in DOMAIN @ \cup {i} |-> IF j = i THEN tasks[t].done ELSE @[j]]])
       /\ UNCHANGED <<rowsOf, builtBy, waiting, rowChanges, fails, marks>>

\* Meilisearch or the database raises, before the swap or after it.
Raise(t) ==
    LET i == Index(t)
    IN /\ fails < MaxFails /\ fails' = fails + 1
       /\ tasks[t].at \in {"count", "open", "write", "drop"}
       /\ locks' = IF tasks[t].at = "count" THEN locks ELSE [locks EXCEPT ![i] = 0]
       /\ failed' = [failed EXCEPT ![t] = @ \cup {i}]
       /\ Raised(t)
       /\ UNCHANGED <<rowsOf, builtBy, waiting, rowChanges, swapped, grown>>

\* A worker that is killed leaves its last report and its lock behind.
Die(t) ==
    /\ fails < MaxFails /\ fails' = fails + 1
    /\ t \in Running
    /\ tasks' = [tasks EXCEPT ![t].at = "dead"]
    /\ UNCHANGED <<rowsOf, builtBy, locks, waiting, status, rowChanges, marks>>

\* REINDEX_LOCK_TIMEOUT_SECONDS after.
Expire ==
    /\ \E i \in DOMAIN locks :
         /\ locks[i] # 0 /\ tasks[locks[i]].at = "dead"
         /\ locks' = [locks EXCEPT ![i] = 0]
    /\ UNCHANGED <<rowsOf, builtBy, tasks, waiting, status, rowChanges, fails, marks>>

ChangeRows ==
    /\ rowChanges < MaxRowChanges /\ rowChanges' = rowChanges + 1
    /\ \E i \in DOMAIN rowsOf, more \in {1, -1} :
         /\ rowsOf[i] + more >= 0
         /\ rowsOf' = [rowsOf EXCEPT ![i] = @ + more]
         /\ grown' = grown \cup
              (IF more = 1 THEN {t \in Running : tasks[t].at \in {"lock", "open"} /\ Index(t) = i} ELSE {})
    /\ UNCHANGED <<builtBy, locks, tasks, waiting, status, fails, swapped, failed>>

JobsNext ==
    \/ StartAction \/ StartCommand \/ Take \/ Expire \/ ChangeRows
    \/ \E t \in Tasks :
         \/ Clear(t) \/ Count(t) \/ Lock(t) \/ OpenCursor(t) \/ WriteBatch(t)
         \/ Swap(t) \/ DropBuild(t) \/ Raise(t) \/ Die(t)

JobsSpec == JobsInit /\ [][JobsNext]_jobVars
-----------------------------------------------------------------------------
(* Properties                                                               *)

\* A run over all indexes that ends has tried every one of them: those it
\* answers for are swapped in, those it leaves out raised or were locked, and
\* the number it reports is of the former alone (clear_and_reindex_all,
\* reindex_all: one index must not abort the rest).
OthersRebuilt ==
    \A t \in Tasks :
        tasks[t].kind \in All /\ tasks[t].at = "over" =>
          /\ DOMAIN tasks[t].result \cup failed[t] = Range(Indexes)
          /\ DOMAIN tasks[t].result \cap failed[t] = {}
          /\ DOMAIN tasks[t].result \subseteq swapped[t]

\* Progress only moves forward, names the index at work, ends with the answer
\* and stays within the total, unless rows came between the count and the
\* lock's holder reading them (CeleryTaskReporter, IndexingService.reindex).
ProgressHonest ==
    [][\A t \in Tasks :
         LET old == status[t]
             new == status'[t]
         IN new # old =>
              /\ old.state \notin {"SUCCESS", "FAILURE"}
              /\ new.state = "PROGRESS" =>
                   /\ old.current < new.current
                      \/ (old.current = new.current /\ old.done < new.done)
                   /\ new.segment = tasks[t].order[new.current]
                   /\ new.done <= new.total \/ t \in grown]_jobVars
=============================================================================
