-------------------------- MODULE SearchJobsProofs --------------------------
(***************************************************************************)
(* What a run over all indexes answers, and what progress reports say, for *)
(* any number of indexes, tasks, workers, rows, failures and deaths.       *)
(***************************************************************************)
EXTENDS SearchJobs, TLAPS, SequenceTheorems, FiniteSetTheorems

Names == Range(Indexes)
Steps == {"count", "lock", "open", "write", "drop"}
Kinds == All \cup Single \cup {"clear"}
Answers == UNION {[S -> Nat] : S \in SUBSET Names}
TaskType ==
  [kind : Kinds \cup {"none"}, order : Seq(Names),
   at : Steps \cup {"none", "queued", "clear", "over", "dead"}, pos : Nat,
   total : Nat, left : Nat, done : Nat, result : Answers]

\* The indexes a run over all of them has come past.
Before(pos) == {Indexes[j] : j \in 1 .. pos - 1}

-----------------------------------------------------------------------------
TypeInv ==
  /\ rowsOf \in [Names -> Nat]
  /\ tasks \in [Tasks -> TaskType]
  /\ waiting \in Seq(Tasks)
  /\ failed \in [Tasks -> SUBSET Names]
  /\ swapped \in [Tasks -> SUBSET Names]

\* Numbers are given to tasks in order.
FreeInv == \E k \in 1 .. Cardinality(Tasks) + 1 : Free = k .. Cardinality(Tasks)

QueueInv ==
  /\ \A i \in 1 .. Len(waiting) : tasks[waiting[i]].at = "queued"
  /\ \A i, j \in 1 .. Len(waiting) : waiting[i] = waiting[j] => i = j

\* The indexes come past are those that went through and those that failed.
Settled(task, F, S, passed) ==
  /\ DOMAIN task.result \cup F = passed
  /\ DOMAIN task.result \cap F = {}
  /\ DOMAIN task.result \subseteq S

Sound(task, F, S) ==
  /\ task.kind = "none" => task = Unstarted /\ F = {} /\ S = {}
  /\ task.kind # "none" => task.at # "none" /\ task.order # <<>>
  /\ task.at \in Steps \cup {"clear"} => task.pos \in 1 .. Len(task.order)
  /\ task.at = "clear" => task.kind = "clear"
  /\ task.kind \in All =>
       /\ task.order = Indexes
       /\ task.at = "queued" => Settled(task, F, S, {})
       /\ task.at \in Steps => Settled(task, F, S, Before(task.pos))
       /\ task.at = "drop" => Indexes[task.pos] \in S
       /\ task.at = "over" => Settled(task, F, S, Names)

TaskInv == \A t \in Tasks : Sound(tasks[t], failed[t], swapped[t])

Inv == TypeInv /\ FreeInv /\ QueueInv /\ TaskInv

-----------------------------------------------------------------------------
(* The indexes.                                                             *)

\* The order of the indexes names each of them once.
LEMMA IndexesFacts ==
  /\ Indexes \in Seq(Names)
  /\ Len(Indexes) \in Nat \ {0}
  /\ DOMAIN Indexes = 1 .. Len(Indexes)
  /\ \A i \in 1 .. Len(Indexes) : Indexes[i] \in Names
  /\ \A i, j \in 1 .. Len(Indexes) : Indexes[i] = Indexes[j] => i = j
  /\ Names = {Indexes[i] : i \in 1 .. Len(Indexes)}
<1>1. /\ Indexes \in Seq(Names)
      /\ Indexes # <<>>
      /\ \A i, j \in DOMAIN Indexes : Indexes[i] = Indexes[j] => i = j
  BY IndexesAssumption DEF Names, IsInjective
<1>2. DOMAIN Indexes = 1 .. Len(Indexes) /\ Len(Indexes) \in Nat
  BY <1>1, LenProperties
<1>3. Len(Indexes) # 0
  BY <1>1, EmptySeq
<1>4. QED
  BY <1>1, <1>2, <1>3 DEF Names, Range

\* How the indexes come past grow.
LEMMA BeforeFacts ==
  /\ Before(1) = {}
  /\ \A pos \in 1 .. Len(Indexes) :
       /\ Before(pos + 1) = Before(pos) \cup {Indexes[pos]}
       /\ Indexes[pos] \notin Before(pos)
  /\ Before(Len(Indexes) + 1) = Names
BY IndexesFacts DEF Before

\* Tasks are numbered from 1.
LEMMA TasksFacts ==
  /\ Cardinality(Tasks) \in Nat
  /\ Tasks = 1 .. Cardinality(Tasks)
  /\ Tasks \subseteq Nat \ {0}
BY JobsAssumption, FS_CardinalityType

\* The answer of a task that has rebuilt nothing.
LEMMA EmptyAnswer == <<>> \in Answers /\ DOMAIN <<>> = {}
<1>1. <<>> \in Seq(Nat) /\ Len(<<>>) = 0
  BY EmptySeq
<1>2. <<>> \in [1 .. 0 -> Nat]
  BY <1>1, LenProperties
<1>3. 1 .. 0 = {}
  OBVIOUS
<1>4. <<>> \in [{} -> Nat]
  BY <1>2, <1>3
<1>5. QED
  BY <1>4 DEF Answers

\* The record of a number nobody has been given.
LEMMA UnstartedFacts ==
  /\ Unstarted \in TaskType
  /\ Unstarted.kind = "none" /\ Unstarted.at = "none" /\ DOMAIN Unstarted.result = {}
<1>1. <<>> \in Seq(Names)
  BY EmptySeq
<1>2. QED
  BY <1>1, EmptyAnswer DEF Unstarted, TaskType

-----------------------------------------------------------------------------
(* Starting tasks.                                                          *)

\* The record of a task in the queue.
LEMMA NewTaskFacts ==
  ASSUME NEW kind \in Kinds, NEW order \in Seq(Names)
  PROVE  LET task == NewTask(kind, order)
         IN /\ task \in TaskType
            /\ task.kind = kind /\ task.order = order /\ task.at = "queued"
            /\ DOMAIN task.result = {}
BY UnstartedFacts, EmptyAnswer DEF NewTask, Unstarted, TaskType

\* The invariant holds at first.
LEMMA InitInv == JobsInit => Inv
<1> SUFFICES ASSUME JobsInit PROVE Inv
  OBVIOUS
<1>1. TypeInv
  BY UnstartedFacts, IndexesAssumption, EmptySeq DEF JobsInit, TypeInv, Names
<1>2. Free = 1 .. Cardinality(Tasks)
  BY UnstartedFacts, TasksFacts DEF JobsInit, Free
<1>3. FreeInv
  BY <1>2, TasksFacts DEF FreeInv
<1>4. QueueInv
  BY EmptySeq DEF JobsInit, QueueInv
<1>5. TaskInv
  BY UnstartedFacts DEF JobsInit, TaskInv, Sound, Steps, All
<1>6. QED
  BY <1>1, <1>3, <1>4, <1>5 DEF Inv

\* The numbers that are given out are the smallest free ones.
LEMMA FirstFree ==
  ASSUME FreeInv, Free # {}
  PROVE  /\ Min(Free) \in Nat \ {0}
         /\ Free = Min(Free) .. Cardinality(Tasks)
         /\ Cardinality(Free) = Cardinality(Tasks) - Min(Free) + 1
<1>1. PICK k \in 1 .. Cardinality(Tasks) + 1 : Free = k .. Cardinality(Tasks)
  BY DEF FreeInv
<1>2. k \in Int /\ Cardinality(Tasks) \in Int /\ k <= Cardinality(Tasks)
  BY <1>1, TasksFacts
<1>3. \A m \in Free : (\A n \in Free : m <= n) => m = k
  BY <1>1, <1>2
<1>4. k \in Free /\ \A n \in Free : k <= n
  BY <1>1, <1>2
<1>5. Min(Free) = k
  BY <1>3, <1>4 DEF Min
<1>6. Cardinality(Free) = Cardinality(Tasks) - k + 1
  BY <1>1, <1>2, FS_Interval
<1>7. QED
  BY <1>1, <1>2, <1>5, <1>6

\* Enqueuing any number of tasks keeps the invariant.
LEMMA EnqueueInv ==
  ASSUME Inv, Free # {}, NEW kind \in Kinds,
         NEW n \in Nat \ {0}, NEW orders \in [1 .. n -> Seq(Names)], Len(orders) = n,
         DOMAIN orders = 1 .. n,
         \A i \in 1 .. n : orders[i] # <<>>,
         kind \in All => \A i \in 1 .. n : orders[i] = Indexes,
         Enqueue(orders, kind)
  PROVE  Inv'
<1> DEFINE first == Min(Free)
           new == first .. first + n - 1
           numbers == [i \in 1 .. n |-> first + i - 1]
<1>1. /\ first \in Nat \ {0} /\ Free = first .. Cardinality(Tasks)
      /\ first + n - 1 <= Cardinality(Tasks)
  <2>1. FreeInv
    BY DEF Inv
  <2>2. Cardinality(Free) >= n
    BY DEF Enqueue
  <2>3. QED
    BY <2>1, <2>2, FirstFree, TasksFacts
<1> HIDE DEF first
<1>2. new \subseteq Free /\ new \subseteq Tasks /\ Free \subseteq Tasks
  <2>1. Free \subseteq Tasks
    BY DEF Free
  <2>2. new \subseteq Free
    BY <1>1, TasksFacts
  <2>3. QED
    BY <2>1, <2>2
<1>3. /\ tasks' = [t \in Tasks |-> IF t \in new THEN NewTask(kind, orders[t - first + 1]) ELSE tasks[t]]
      /\ waiting' = waiting \o numbers
      /\ UNCHANGED <<rowsOf, failed, swapped>>
  BY DEF Enqueue, marks, first
<1>4. \A t \in new : /\ t - first + 1 \in 1 .. n
                     /\ orders[t - first + 1] \in Seq(Names)
  BY <1>1
<1> DEFINE fresh(t) == NewTask(kind, orders[t - first + 1])
<1>5. \A t \in new : /\ fresh(t) \in TaskType
                     /\ fresh(t).kind = kind /\ fresh(t).order = orders[t - first + 1]
                     /\ fresh(t).at = "queued" /\ DOMAIN fresh(t).result = {}
  BY <1>4, NewTaskFacts
<1>6. \A t \in Tasks : /\ t \in new => tasks'[t] = fresh(t)
                       /\ t \notin new => tasks'[t] = tasks[t]
  BY <1>3
<1> HIDE DEF fresh, new, numbers
<1>7. TypeInv'
  <2>1. tasks' \in [Tasks -> TaskType]
    BY <1>3, <1>5, <1>6 DEF Inv, TypeInv, fresh
  <2>2. numbers \in Seq(Tasks)
    BY <1>1, <1>2, SeqDef DEF numbers, new
  <2>3. waiting' \in Seq(Tasks)
    BY <2>2, <1>3, ConcatProperties DEF Inv, TypeInv
  <2>4. QED
    BY <1>3, <2>1, <2>3 DEF Inv, TypeInv
<1>8. FreeInv'
  <2>1. kind # "none"
    BY DEF Kinds, All, Single
  <2>2. Free' = Free \ new
    BY <2>1, <1>2, <1>5, <1>6 DEF Free
  <2>3. Free' = (first + n) .. Cardinality(Tasks)
    BY <2>2, <1>1, TasksFacts DEF new
  <2>4. QED
    BY <2>3, <1>1, TasksFacts DEF FreeInv
<1>9. QueueInv'
  <2>1. /\ Len(waiting) \in Nat /\ \A i \in 1 .. Len(waiting) : waiting[i] \in Tasks
    BY LenProperties DEF Inv, TypeInv
  <2>2. \A i \in 1 .. Len(waiting) : waiting[i] \notin new /\ tasks[waiting[i]].at = "queued"
    <3>1. \A t \in Free : tasks[t].at = "none"
      BY <1>2, UnstartedFacts DEF Free, Inv, TaskInv, Sound
    <3>2. QED
      BY <3>1, <1>2 DEF Inv, QueueInv
  <2>3. /\ numbers \in Seq(Tasks) /\ Len(numbers) = n
        /\ \A i \in 1 .. n : numbers[i] = first + i - 1 /\ numbers[i] \in new
    <3>1. numbers \in [1 .. n -> Tasks]
      BY <1>1, <1>2 DEF numbers, new
    <3>2. numbers \in Seq(Tasks)
      BY <3>1, SeqDef
    <3>3. DOMAIN numbers = 1 .. n /\ Len(numbers) \in Nat /\ DOMAIN numbers = 1 .. Len(numbers)
      BY <3>1, <3>2, LenProperties
    <3>4. QED
      BY <3>2, <3>3, <1>1 DEF numbers, new
  <2>4. /\ Len(waiting') = Len(waiting) + n
        /\ \A i \in 1 .. Len(waiting) + n :
             waiting'[i] = IF i <= Len(waiting) THEN waiting[i] ELSE numbers[i - Len(waiting)]
    <3>1. waiting \in Seq(Tasks) /\ numbers \in Seq(Tasks)
      BY <2>3 DEF Inv, TypeInv
    <3>2. /\ Len(waiting \o numbers) = Len(waiting) + Len(numbers)
          /\ \A i \in 1 .. Len(waiting) + Len(numbers) :
               (waiting \o numbers)[i] = IF i <= Len(waiting) THEN waiting[i]
                                          ELSE numbers[i - Len(waiting)]
      BY <3>1, ConcatProperties
    <3>3. QED
      BY <3>2, <2>3, <1>3
  <2>5. \A i \in 1 .. Len(waiting) + n :
          \/ i \in 1 .. Len(waiting) /\ waiting'[i] = waiting[i] /\ waiting'[i] \notin new
          \/ /\ i > Len(waiting) /\ waiting'[i] = first + (i - Len(waiting)) - 1
             /\ waiting'[i] \in new
    <3> SUFFICES ASSUME NEW i \in 1 .. Len(waiting) + n
                 PROVE  \/ /\ i \in 1 .. Len(waiting) /\ waiting'[i] = waiting[i]
                           /\ waiting'[i] \notin new
                        \/ /\ i > Len(waiting) /\ waiting'[i] = first + (i - Len(waiting)) - 1
                           /\ waiting'[i] \in new
      OBVIOUS
    <3>1. CASE i <= Len(waiting)
      <4>1. i \in 1 .. Len(waiting)
        BY <3>1, <2>1
      <4>2. waiting'[i] = waiting[i]
        BY <3>1, <2>4
      <4>3. QED
        BY <4>1, <4>2, <2>2
    <3>2. CASE i > Len(waiting)
      <4>1. i - Len(waiting) \in 1 .. n
        BY <3>2, <2>1
      <4>2. waiting'[i] = numbers[i - Len(waiting)]
        BY <3>2, <2>1, <2>4
      <4>3. QED
        BY <4>1, <4>2, <2>3, <3>2
    <3>3. QED
      BY <3>1, <3>2, <2>1
  <2>6. \A i \in 1 .. Len(waiting') : tasks'[waiting'[i]].at = "queued"
    BY <2>1, <2>2, <2>4, <2>5, <1>2, <1>5, <1>6
  <2>7. \A i, j \in 1 .. Len(waiting') : waiting'[i] = waiting'[j] => i = j
    <3> SUFFICES ASSUME NEW i \in 1 .. Len(waiting) + n, NEW j \in 1 .. Len(waiting) + n,
                        waiting'[i] = waiting'[j]
                 PROVE  i = j
      BY <2>4
    <3>1. CASE i \in 1 .. Len(waiting) /\ j \in 1 .. Len(waiting)
      <4>1. waiting[i] = waiting[j]
        BY <3>1, <2>1, <2>5
      <4>2. QED
        BY <4>1, <3>1 DEF Inv, QueueInv
    <3>2. CASE i > Len(waiting) /\ j > Len(waiting)
      <4>1. first + (i - Len(waiting)) - 1 = first + (j - Len(waiting)) - 1
        BY <3>2, <2>1, <2>5
      <4>2. QED
        BY <4>1, <1>1, <2>1
    <3>3. QED
      BY <3>1, <3>2, <2>5
  <2>8. QED
    BY <2>6, <2>7 DEF QueueInv
<1>10. TaskInv'
  <2>1. \A t \in Tasks \ new : Sound(tasks'[t], failed'[t], swapped'[t])
    BY <1>3, <1>6 DEF Inv, TaskInv
  <2>2. ASSUME NEW t \in new PROVE Sound(tasks'[t], failed'[t], swapped'[t])
    <3>1. failed[t] = {} /\ swapped[t] = {}
      BY <1>2 DEF Free, Inv, TaskInv, Sound
    <3>2. /\ tasks'[t].kind = kind /\ tasks'[t].order = orders[t - first + 1]
          /\ tasks'[t].at = "queued" /\ DOMAIN tasks'[t].result = {}
      BY <1>2, <1>5, <1>6
    <3>3. kind # "none"
      BY DEF Kinds, All, Single
    <3>4. tasks'[t].order # <<>> /\ (kind \in All => tasks'[t].order = Indexes)
      BY <3>2, <1>4
    <3>5. QED
      BY <1>3, <3>1, <3>2, <3>3, <3>4 DEF Sound, Settled, Steps
  <2>3. QED
    BY <2>1, <2>2 DEF TaskInv
<1>11. QED
  BY <1>7, <1>8, <1>9, <1>10 DEF Inv

-----------------------------------------------------------------------------
(* A step of one task that is at work.                                      *)

\* What a step of one task has to keep.
LEMMA Stepped ==
  ASSUME Inv, NEW t \in Tasks, tasks[t].kind # "none", tasks[t].at # "queued",
         NEW task \in TaskType, task.kind = tasks[t].kind,
         tasks' = [tasks EXCEPT ![t] = task],
         NEW F \in SUBSET Names, failed' = [failed EXCEPT ![t] = F],
         NEW S \in SUBSET Names, swapped' = [swapped EXCEPT ![t] = S],
         Sound(task, F, S),
         UNCHANGED <<rowsOf, waiting>>
  PROVE  Inv'
<1>1. TypeInv'
  BY DEF Inv, TypeInv
<1>2. tasks'[t] = task /\ \A u \in Tasks \ {t} : tasks'[u] = tasks[u]
  BY DEF Inv, TypeInv
<1>3. FreeInv'
  <2>1. Free' = Free
    BY <1>2 DEF Free
  <2>2. QED
    BY <2>1 DEF Inv, FreeInv
<1>4. QueueInv'
  <2>1. \A i \in 1 .. Len(waiting) : waiting[i] \in Tasks \ {t}
    BY LenProperties DEF Inv, TypeInv, QueueInv
  <2>2. QED
    BY <1>2, <2>1 DEF Inv, QueueInv
<1>5. TaskInv'
  <2>1. failed'[t] = F /\ swapped'[t] = S
    BY DEF Inv, TypeInv
  <2>2. \A u \in Tasks \ {t} : failed'[u] = failed[u] /\ swapped'[u] = swapped[u]
    BY DEF Inv, TypeInv
  <2>3. QED
    BY <1>2, <2>1, <2>2 DEF Inv, TaskInv
<1>6. QED
  BY <1>1, <1>3, <1>4, <1>5 DEF Inv

\* The same when only the task's own record changes.
LEMMA Moved ==
  ASSUME Inv, NEW t \in Tasks, tasks[t].kind # "none", tasks[t].at # "queued",
         NEW task \in TaskType, task.kind = tasks[t].kind,
         tasks' = [tasks EXCEPT ![t] = task],
         Sound(task, failed[t], swapped[t]),
         UNCHANGED <<rowsOf, waiting, failed, swapped>>
  PROVE  Inv'
<1>1. failed[t] \in SUBSET Names /\ swapped[t] \in SUBSET Names
  BY DEF Inv, TypeInv
<1>2. failed' = [failed EXCEPT ![t] = failed[t]] /\ swapped' = [swapped EXCEPT ![t] = swapped[t]]
  BY DEF Inv, TypeInv
<1>3. QED
  BY <1>1, <1>2, Stepped

\* What is known of a task that rebuilds an index.
LEMMA AtWork ==
  ASSUME Inv, NEW t \in Tasks, tasks[t].at \in Steps \cup {"clear"}
  PROVE  /\ tasks[t] \in TaskType
         /\ tasks[t].kind # "none" /\ tasks[t].order # <<>>
         /\ tasks[t].pos \in 1 .. Len(tasks[t].order)
         /\ Len(tasks[t].order) \in Nat
         /\ Index(t) \in Names
         /\ tasks[t].kind \in All =>
              /\ tasks[t].order = Indexes
              /\ tasks[t].at \in Steps =>
                   Settled(tasks[t], failed[t], swapped[t], Before(tasks[t].pos))
              /\ tasks[t].at = "drop" => Index(t) \in swapped[t]
<1>1. tasks[t] \in TaskType /\ tasks[t].order \in Seq(Names)
  BY DEF Inv, TypeInv, TaskType
<1>2. Sound(tasks[t], failed[t], swapped[t])
  BY DEF Inv, TaskInv
<1>3. tasks[t].kind # "none"
  BY <1>2, UnstartedFacts DEF Sound, Steps
<1>4. tasks[t].pos \in 1 .. Len(tasks[t].order)
  BY <1>2 DEF Sound
<1>5. tasks[t].order[tasks[t].pos] \in Names /\ Len(tasks[t].order) \in Nat
  BY <1>1, <1>4, LenProperties
<1>6. QED
  BY <1>1, <1>2, <1>3, <1>4, <1>5 DEF Sound, Index

\* The record of a task that turns to its next index.
LEMMA NextIndex ==
  ASSUME NEW task \in TaskType
  PROVE  LET next == [task EXCEPT !.pos = @ + 1, !.at = "count"]
         IN /\ next \in TaskType /\ next.kind = task.kind /\ next.order = task.order
            /\ next.pos = task.pos + 1 /\ next.at = "count" /\ next.result = task.result
<1> DEFINE next == [task EXCEPT !.pos = @ + 1, !.at = "count"]
<1>1. task.pos + 1 \in Nat
  BY DEF TaskType
<1>2. next \in TaskType
  BY <1>1, Zenon DEF TaskType, Steps
<1>3. /\ next.kind = task.kind /\ next.order = task.order
      /\ next.pos = task.pos + 1 /\ next.at = "count" /\ next.result = task.result
  BY DEF TaskType
<1>4. QED
  BY <1>2, <1>3

\* The loop comes past an index when the index went through or failed.
LEMMA GoOnInv ==
  ASSUME Inv, NEW t \in Tasks, tasks[t].at \in Steps,
         NEW task \in TaskType, task.kind = tasks[t].kind, task.order = tasks[t].order,
         task.pos = tasks[t].pos,
         NEW F \in SUBSET Names, failed' = [failed EXCEPT ![t] = F],
         NEW S \in SUBSET Names, swapped' = [swapped EXCEPT ![t] = S],
         task.kind \in All => Settled(task, F, S, Before(task.pos + 1)),
         GoOn(t, task),
         UNCHANGED <<rowsOf, waiting>>
  PROVE  Inv'
<1>1. /\ tasks[t].kind # "none" /\ tasks[t].at # "queued" /\ tasks[t].order # <<>>
      /\ task.pos \in 1 .. Len(task.order) /\ Len(task.order) \in Nat
      /\ task.kind \in All => task.order = Indexes
  BY AtWork DEF Steps
<1>2. CASE task.kind \in All /\ task.pos < Len(task.order)
  <2> DEFINE next == [task EXCEPT !.pos = @ + 1, !.at = "count"]
  <2>1. tasks' = [tasks EXCEPT ![t] = next]
    BY <1>2 DEF GoOn
  <2>2. /\ next \in TaskType /\ next.kind = task.kind /\ next.order = task.order
        /\ next.pos = task.pos + 1 /\ next.at = "count" /\ next.result = task.result
    BY NextIndex
  <2>3. Sound(next, F, S)
    BY <1>1, <1>2, <2>2 DEF Sound, Settled, Steps
  <2> HIDE DEF next
  <2>4. QED
    BY <1>1, <2>1, <2>2, <2>3, Stepped
<1>3. CASE ~(task.kind \in All /\ task.pos < Len(task.order))
  <2> DEFINE next == [task EXCEPT !.at = "over"]
  <2>1. tasks' = [tasks EXCEPT ![t] = next]
    BY <1>3 DEF GoOn, Finished
  <2>2. /\ next \in TaskType /\ next.kind = task.kind /\ next.order = task.order
        /\ next.at = "over" /\ next.result = task.result
    BY DEF TaskType, Steps
  <2>3. task.kind \in All => Settled(task, F, S, Names)
    <3>1. SUFFICES ASSUME task.kind \in All PROVE Settled(task, F, S, Names)
      OBVIOUS
    <3>2. task.pos = Len(Indexes)
      BY <1>1, <1>3, <3>1
    <3>3. QED
      BY <3>1, <3>2, BeforeFacts
  <2>4. Sound(next, F, S)
    BY <1>1, <2>2, <2>3 DEF Sound, Settled, Steps
  <2> HIDE DEF next
  <2>5. QED
    BY <1>1, <2>1, <2>2, <2>4, Stepped
<1>4. QED
  BY <1>2, <1>3

\* An index that raised or was locked is noted, whatever the task does next.
LEMMA RaisedInv ==
  ASSUME Inv, NEW t \in Tasks, tasks[t].at \in Steps,
         failed' = [failed EXCEPT ![t] = @ \cup {Index(t)}],
         Raised(t),
         UNCHANGED <<rowsOf, waiting, swapped>>
  PROVE  Inv'
<1> DEFINE F == failed[t] \cup {Index(t)}
<1>1. /\ tasks[t] \in TaskType /\ tasks[t].kind # "none" /\ tasks[t].order # <<>>
      /\ tasks[t].pos \in 1 .. Len(tasks[t].order) /\ Index(t) \in Names
  BY AtWork
<1>2. /\ F \in SUBSET Names /\ failed' = [failed EXCEPT ![t] = F]
      /\ swapped[t] \in SUBSET Names /\ swapped' = [swapped EXCEPT ![t] = swapped[t]]
  BY <1>1 DEF Inv, TypeInv
<1>3. CASE tasks[t].kind \in All
  <2>1. Settled(tasks[t], failed[t], swapped[t], Before(tasks[t].pos))
    BY <1>3, AtWork
  <2>2. Index(t) = Indexes[tasks[t].pos] /\ tasks[t].pos \in 1 .. Len(Indexes)
    BY <1>1, <1>3, AtWork DEF Index
  <2>3. Settled(tasks[t], F, swapped[t], Before(tasks[t].pos + 1))
    BY <2>1, <2>2, BeforeFacts DEF Settled
  <2>4. GoOn(t, tasks[t])
    BY <1>3 DEF Raised
  <2> HIDE DEF F
  <2>5. QED
    BY <1>1, <1>2, <2>3, <2>4, GoOnInv
<1>4. CASE tasks[t].kind \notin All
  <2> DEFINE next == [tasks[t] EXCEPT !.at = "over"]
  <2>1. tasks' = [tasks EXCEPT ![t] = next]
    BY <1>4 DEF Raised
  <2>2. /\ next \in TaskType /\ next.kind = tasks[t].kind /\ next.order = tasks[t].order
        /\ next.at = "over"
    BY <1>1 DEF TaskType
  <2>3. Sound(next, F, swapped[t])
    BY <1>1, <1>4, <2>2 DEF Sound, Steps
  <2>4. tasks[t].at # "queued"
    BY DEF Steps
  <2> HIDE DEF next, F
  <2>5. QED
    BY <1>1, <1>2, <2>1, <2>2, <2>3, <2>4, Stepped
<1>5. QED
  BY <1>3, <1>4

-----------------------------------------------------------------------------
(* Every action.                                                            *)

\* An action of the management API enqueues one task or one for each index.
LEMMA StartActionInv == Inv /\ StartAction => Inv'
<1> SUFFICES ASSUME Inv, StartAction PROVE Inv'
  OBVIOUS
<1>1. Free # {}
  BY DEF StartAction
<1>2. ASSUME NEW order \in Seq(Names), order # <<>>
      PROVE  /\ <<order>> \in [1 .. 1 -> Seq(Names)] /\ Len(<<order>>) = 1
             /\ DOMAIN <<order>> = 1 .. 1
             /\ \A i \in 1 .. 1 : <<order>>[i] = order /\ <<order>>[i] # <<>>
  BY <1>2
<1>3. ASSUME NEW kind \in Single \cup {"clear"}, NEW i \in Range(Indexes),
             Enqueue(<< <<i>> >>, kind)
      PROVE  Inv'
  <2> DEFINE order == <<i>>
             orders == <<order>>
             n == 1
  <2>1. order \in Seq(Names) /\ order # <<>>
    BY <1>3 DEF Names
  <2>2. kind \in Kinds /\ kind \notin All
    BY DEF Kinds, Single, All
  <2>3. /\ orders \in [1 .. n -> Seq(Names)] /\ Len(orders) = n /\ DOMAIN orders = 1 .. n
        /\ \A j \in 1 .. n : orders[j] # <<>>
        /\ n \in Nat \ {0}
    <3> HIDE DEF order
    <3>1. QED
      BY <1>2, <2>1
  <2>4. Enqueue(orders, kind)
    BY <1>3
  <2> HIDE DEF orders, n
  <2>5. QED
    BY <1>1, <2>2, <2>3, <2>4, EnqueueInv
<1>4. CASE Enqueue([n \in DOMAIN Indexes |-> <<Indexes[n]>>], "reindex")
  <2> DEFINE orders == [n \in DOMAIN Indexes |-> <<Indexes[n]>>]
             k == Len(Indexes)
  <2>1. k \in Nat \ {0} /\ DOMAIN Indexes = 1 .. k
    BY IndexesFacts
  <2>2. \A n \in 1 .. k : orders[n] \in Seq(Names) /\ orders[n] # <<>>
    BY <2>1, IndexesFacts
  <2>3. orders \in [1 .. k -> Seq(Names)] /\ DOMAIN orders = 1 .. k
    BY <2>1, <2>2
  <2>4. Len(orders) = k
    <3>1. orders \in Seq(Seq(Names))
      BY <2>1, <2>3, SeqDef
    <3>2. DOMAIN orders = 1 .. Len(orders) /\ Len(orders) \in Nat
      BY <3>1, LenProperties
    <3>3. QED
      BY <2>1, <2>3, <3>2
  <2>5. "reindex" \in Kinds /\ "reindex" \notin All
    BY DEF Kinds, Single, All
  <2>6. Enqueue(orders, "reindex")
    BY <1>4
  <2> HIDE DEF orders, k
  <2>7. QED
    BY <1>1, <2>1, <2>2, <2>3, <2>4, <2>5, <2>6, EnqueueInv
<1>5. CASE Enqueue(<<Indexes>>, "clear_and_rebuild_all")
  <2> DEFINE orders == <<Indexes>>
             kind == "clear_and_rebuild_all"
             n == 1
  <2>1. Indexes \in Seq(Names) /\ Indexes # <<>>
    BY IndexesFacts, IndexesAssumption
  <2>2. /\ orders \in [1 .. n -> Seq(Names)] /\ Len(orders) = n /\ DOMAIN orders = 1 .. n
        /\ \A j \in 1 .. n : orders[j] # <<>> /\ orders[j] = Indexes
        /\ n \in Nat \ {0}
    BY <1>2, <2>1
  <2>3. kind \in Kinds
    BY DEF Kinds, All
  <2>4. Enqueue(orders, kind)
    BY <1>5
  <2> HIDE DEF orders, kind, n
  <2>5. QED
    BY <1>1, <2>2, <2>3, <2>4, EnqueueInv
<1>6. QED
  BY <1>3, <1>4, <1>5 DEF StartAction

\* A command starts at once.
LEMMA StartCommandInv == Inv /\ StartCommand => Inv'
<1> SUFFICES ASSUME Inv, StartCommand PROVE Inv'
  OBVIOUS
<1> DEFINE t == Min(Free)
           task == [NewTask("sync_all", Indexes) EXCEPT !.at = "count", !.pos = 1]
<1>1. /\ t \in Nat \ {0} /\ Free = t .. Cardinality(Tasks)
      /\ t \in Free
  <2>1. Free # {}
    BY DEF StartCommand
  <2>2. t \in Nat \ {0} /\ Free = t .. Cardinality(Tasks)
    BY <2>1, FirstFree DEF Inv
  <2> HIDE DEF t
  <2>3. QED
    BY <2>1, <2>2, TasksFacts
<1>2. /\ tasks' = [tasks EXCEPT ![t] = task]
      /\ UNCHANGED <<rowsOf, waiting, swapped, failed>>
  BY DEF StartCommand, marks
<1>3. /\ task \in TaskType /\ task.kind = "sync_all" /\ task.order = Indexes
      /\ task.at = "count" /\ task.pos = 1 /\ DOMAIN task.result = {}
  <2>1. "sync_all" \in Kinds
    BY DEF Kinds, All
  <2>2. LET new == NewTask("sync_all", Indexes)
        IN new \in TaskType /\ new.kind = "sync_all" /\ new.order = Indexes /\ DOMAIN new.result = {}
    BY <2>1, IndexesFacts, NewTaskFacts
  <2>3. QED
    BY <2>2 DEF TaskType, Steps
<1> HIDE DEF t, task
<1>4. t \in Tasks /\ tasks[t].kind = "none" /\ tasks[t].at = "none"
  BY <1>1, UnstartedFacts DEF Free, Inv, TaskInv, Sound
<1>5. tasks'[t] = task /\ \A u \in Tasks \ {t} : tasks'[u] = tasks[u]
  BY <1>2, <1>4 DEF Inv, TypeInv
<1>6. TypeInv'
  BY <1>2, <1>3, <1>4 DEF Inv, TypeInv
<1>7. FreeInv'
  <2>1. Free' = Free \ {t}
    BY <1>3, <1>4, <1>5 DEF Free
  <2>2. Free' = (t + 1) .. Cardinality(Tasks)
    BY <2>1, <1>1, TasksFacts
  <2>3. t + 1 \in 1 .. Cardinality(Tasks) + 1
    BY <1>1, <1>4, TasksFacts
  <2>4. QED
    BY <2>2, <2>3 DEF FreeInv
<1>8. QueueInv'
  <2>1. \A i \in 1 .. Len(waiting) : waiting[i] \in Tasks \ {t}
    BY <1>4, LenProperties DEF Inv, TypeInv, QueueInv
  <2>2. QED
    BY <1>2, <1>5, <2>1 DEF Inv, QueueInv
<1>9. TaskInv'
  <2>1. failed[t] = {} /\ swapped[t] = {}
    BY <1>4 DEF Inv, TaskInv, Sound
  <2>2. Sound(task, {}, {})
    BY <1>3, IndexesFacts, IndexesAssumption, BeforeFacts DEF Sound, Settled, Steps
  <2>3. QED
    BY <1>2, <1>5, <2>1, <2>2 DEF Inv, TaskInv
<1>10. QED
  BY <1>6, <1>7, <1>8, <1>9 DEF Inv

\* A worker takes the oldest task.
LEMMA TakeInv == Inv /\ Take => Inv'
<1> SUFFICES ASSUME Inv, Take PROVE Inv'
  OBVIOUS
<1> DEFINE t == Head(waiting)
           clear == tasks[t].kind = "clear"
           task == [tasks[t] EXCEPT !.at = IF clear THEN "clear" ELSE "count", !.pos = 1]
<1>1. /\ tasks' = [tasks EXCEPT ![t].at = IF clear THEN "clear" ELSE "count", ![t].pos = 1]
      /\ waiting # <<>> /\ waiting' = Tail(waiting)
      /\ UNCHANGED <<rowsOf, swapped, failed>>
  BY DEF Take, marks
<1>2. waiting \in Seq(Tasks) /\ Len(waiting) \in Nat \ {0}
  BY <1>1, EmptySeq DEF Inv, TypeInv
<1>3. /\ t \in Tasks /\ t = waiting[1]
      /\ Tail(waiting) \in Seq(Tasks) /\ Len(Tail(waiting)) = Len(waiting) - 1
      /\ \A i \in 1 .. Len(Tail(waiting)) : Tail(waiting)[i] = waiting[i + 1]
  BY <1>1, <1>2, HeadTailProperties
<1>4. tasks[t] \in TaskType /\ tasks[t].at = "queued"
  BY <1>2, <1>3 DEF Inv, TypeInv, QueueInv
<1>5. /\ tasks'[t] = task /\ \A u \in Tasks \ {t} : tasks'[u] = tasks[u]
      /\ tasks' \in [Tasks -> TaskType]
      /\ task \in TaskType /\ task.kind = tasks[t].kind /\ task.order = tasks[t].order
      /\ task.at = (IF clear THEN "clear" ELSE "count") /\ task.pos = 1
      /\ task.result = tasks[t].result
  BY <1>1, <1>3, <1>4 DEF Inv, TypeInv, TaskType, Steps
<1> HIDE DEF t, task
<1>6. TypeInv'
  BY <1>1, <1>3, <1>5 DEF Inv, TypeInv
<1>7. FreeInv'
  <2>1. Free' = Free
    BY <1>3, <1>5 DEF Free
  <2>2. QED
    BY <2>1 DEF Inv, FreeInv
<1>8. QueueInv'
  <2>1. \A i \in 1 .. Len(waiting') : /\ i + 1 \in 1 .. Len(waiting) /\ waiting'[i] = waiting[i + 1]
    BY <1>1, <1>2, <1>3
  <2>2. \A i \in 1 .. Len(waiting') : waiting'[i] \in Tasks \ {t}
    <3> SUFFICES ASSUME NEW i \in 1 .. Len(waiting') PROVE waiting'[i] \in Tasks \ {t}
      OBVIOUS
    <3>1. waiting[i + 1] \in Tasks
      BY <2>1, <1>2, LenProperties
    <3>2. i + 1 # 1 /\ 1 \in 1 .. Len(waiting)
      BY <1>2
    <3>3. waiting[i + 1] # waiting[1]
      BY <2>1, <3>2 DEF Inv, QueueInv
    <3>4. QED
      BY <2>1, <3>1, <3>3, <1>3
  <2>3. \A i \in 1 .. Len(waiting') : tasks'[waiting'[i]].at = "queued"
    BY <2>1, <2>2, <1>5 DEF Inv, QueueInv
  <2>4. \A i, j \in 1 .. Len(waiting') : waiting'[i] = waiting'[j] => i = j
    <3> SUFFICES ASSUME NEW i \in 1 .. Len(waiting'), NEW j \in 1 .. Len(waiting'),
                        waiting'[i] = waiting'[j]
                 PROVE  i = j
      OBVIOUS
    <3>1. i + 1 = j + 1
      BY <2>1 DEF Inv, QueueInv
    <3>2. QED
      BY <3>1
  <2>5. QED
    BY <2>3, <2>4 DEF QueueInv
<1>9. TaskInv'
  <2>1. Sound(tasks[t], failed[t], swapped[t])
    BY <1>3 DEF Inv, TaskInv
  <2>2. tasks[t].kind # "none" /\ tasks[t].order # <<>>
    BY <1>4, <2>1, UnstartedFacts DEF Sound
  <2>3. 1 \in 1 .. Len(tasks[t].order)
    BY <1>4, <2>2, EmptySeq DEF TaskType
  <2>4. task.kind \in All => ~clear
    BY <1>5 DEF All
  <2>5. Sound(task, failed[t], swapped[t])
    BY <1>4, <1>5, <2>1, <2>2, <2>3, <2>4, BeforeFacts DEF Sound, Settled, Steps
  <2>6. QED
    BY <1>1, <1>3, <1>5, <2>5 DEF Inv, TaskInv
<1>10. QED
  BY <1>6, <1>7, <1>8, <1>9 DEF Inv

\* The steps that only move a task on within one index, or end it.
LEMMA SmallStepsInv ==
  ASSUME Inv, NEW t \in Tasks,
         Clear(t) \/ Count(t) \/ OpenCursor(t) \/ WriteBatch(t) \/ Die(t)
  PROVE  Inv'
<1>1. tasks[t].at \in Steps \cup {"clear"}
  <2>1. tasks[t].at \in Steps \cup {"none", "queued", "clear", "over", "dead"}
    BY DEF Inv, TypeInv, TaskType
  <2>2. QED
    BY <2>1 DEF Clear, Count, OpenCursor, WriteBatch, Die, Running, Steps
<1>2. /\ tasks[t] \in TaskType /\ tasks[t].kind # "none" /\ tasks[t].at # "queued"
      /\ tasks[t].order # <<>> /\ Index(t) \in Names
      /\ Sound(tasks[t], failed[t], swapped[t])
  BY <1>1, AtWork DEF Inv, TaskInv, Steps
<1>3. rowsOf[Index(t)] \in Nat /\ Batch \in Nat
  BY <1>2, JobsAssumption DEF Inv, TypeInv
<1>4. CASE Clear(t)
  <2> DEFINE next == [tasks[t] EXCEPT !.at = "over"]
  <2>1. tasks[t].kind \notin All
    BY <1>2, <1>4 DEF Clear, Sound, All
  <2>2. tasks' = [tasks EXCEPT ![t] = next] /\ UNCHANGED <<rowsOf, waiting, failed, swapped>>
    BY <1>4 DEF Clear, marks
  <2>3. next \in TaskType /\ next.kind = tasks[t].kind /\ next.order = tasks[t].order /\ next.at = "over"
    BY <1>2 DEF TaskType
  <2>4. Sound(next, failed[t], swapped[t])
    BY <1>2, <2>1, <2>3 DEF Sound, Steps
  <2> HIDE DEF next
  <2>5. QED
    BY <1>2, <2>2, <2>3, <2>4, Moved
<1>5. CASE Count(t)
  <2> DEFINE next == [tasks[t] EXCEPT !.total = rowsOf[Index(t)], !.done = 0, !.at = "lock"]
  <2>1. tasks' = [tasks EXCEPT ![t] = next] /\ UNCHANGED <<rowsOf, waiting, failed, swapped>>
    BY <1>5 DEF Count
  <2>2. /\ next \in TaskType /\ next.kind = tasks[t].kind /\ next.order = tasks[t].order
        /\ next.at = "lock" /\ next.pos = tasks[t].pos /\ next.result = tasks[t].result
    BY <1>2, <1>3 DEF TaskType, Steps
  <2>3. Sound(next, failed[t], swapped[t])
    BY <1>2, <1>5, <2>2 DEF Sound, Steps, Settled, Count
  <2> HIDE DEF next
  <2>4. QED
    BY <1>2, <2>1, <2>2, <2>3, Moved
<1>6. CASE OpenCursor(t)
  <2> DEFINE next == [tasks[t] EXCEPT !.left = rowsOf[Index(t)], !.at = "write"]
  <2>1. tasks' = [tasks EXCEPT ![t] = next] /\ UNCHANGED <<rowsOf, waiting, failed, swapped>>
    BY <1>6 DEF OpenCursor, marks
  <2>2. /\ next \in TaskType /\ next.kind = tasks[t].kind /\ next.order = tasks[t].order
        /\ next.at = "write" /\ next.pos = tasks[t].pos /\ next.result = tasks[t].result
    BY <1>2, <1>3 DEF TaskType, Steps
  <2>3. Sound(next, failed[t], swapped[t])
    BY <1>2, <1>6, <2>2 DEF Sound, Steps, Settled, OpenCursor
  <2> HIDE DEF next
  <2>4. QED
    BY <1>2, <2>1, <2>2, <2>3, Moved
<1>7. CASE WriteBatch(t)
  <2> DEFINE n == IF tasks[t].left < Batch THEN tasks[t].left ELSE Batch
             next == [tasks[t] EXCEPT !.left = @ - n, !.done = tasks[t].done + n]
  <2>1. tasks' = [tasks EXCEPT ![t] = next] /\ UNCHANGED <<rowsOf, waiting, failed, swapped>>
    BY <1>7 DEF WriteBatch, marks
  <2>2. tasks[t].left - n \in Nat /\ tasks[t].done + n \in Nat
    BY <1>2, <1>3 DEF TaskType
  <2> HIDE DEF n
  <2>3. /\ next \in TaskType /\ next.kind = tasks[t].kind /\ next.order = tasks[t].order
        /\ next.at = tasks[t].at /\ next.pos = tasks[t].pos /\ next.result = tasks[t].result
    BY <1>2, <2>2 DEF TaskType
  <2>4. Sound(next, failed[t], swapped[t])
    BY <1>2, <2>3 DEF Sound, Settled
  <2> HIDE DEF next
  <2>5. QED
    BY <1>2, <2>1, <2>3, <2>4, Moved
<1>8. CASE Die(t)
  <2> DEFINE next == [tasks[t] EXCEPT !.at = "dead"]
  <2>1. tasks' = [tasks EXCEPT ![t] = next] /\ UNCHANGED <<rowsOf, waiting, failed, swapped>>
    BY <1>8 DEF Die, marks
  <2>2. /\ next \in TaskType /\ next.kind = tasks[t].kind /\ next.order = tasks[t].order
        /\ next.at = "dead"
    BY <1>2 DEF TaskType
  <2>3. Sound(next, failed[t], swapped[t])
    BY <1>2, <2>2 DEF Sound, Steps
  <2> HIDE DEF next
  <2>4. QED
    BY <1>2, <2>1, <2>2, <2>3, Moved
<1>9. QED
  BY <1>4, <1>5, <1>6, <1>7, <1>8

\* An index that is locked counts as failed.
LEMMA LockStepInv ==
  ASSUME Inv, NEW t \in Tasks, Lock(t)
  PROVE  Inv'
<1>1. tasks[t].at = "lock" /\ tasks[t].at \in Steps /\ UNCHANGED <<rowsOf, waiting, swapped>>
  BY DEF Lock, Steps
<1>2. /\ tasks[t] \in TaskType /\ tasks[t].kind # "none" /\ tasks[t].at # "queued"
      /\ tasks[t].order # <<>> /\ Sound(tasks[t], failed[t], swapped[t])
  BY <1>1, AtWork DEF Inv, TaskInv
<1>3. CASE locks[Index(t)] = 0
  <2> DEFINE next == [tasks[t] EXCEPT !.at = "open"]
  <2>1. tasks' = [tasks EXCEPT ![t] = next] /\ UNCHANGED failed
    BY <1>3 DEF Lock
  <2>2. /\ next \in TaskType /\ next.kind = tasks[t].kind /\ next.order = tasks[t].order
        /\ next.at = "open" /\ next.pos = tasks[t].pos /\ next.result = tasks[t].result
    BY <1>2 DEF TaskType, Steps
  <2>3. Sound(next, failed[t], swapped[t])
    BY <1>1, <1>2, <2>2 DEF Sound, Steps, Settled
  <2> HIDE DEF next
  <2>4. QED
    BY <1>1, <1>2, <2>1, <2>2, <2>3, Moved
<1>4. CASE locks[Index(t)] # 0
  <2>1. failed' = [failed EXCEPT ![t] = @ \cup {Index(t)}] /\ Raised(t)
    BY <1>4 DEF Lock
  <2>2. QED
    BY <1>1, <2>1, RaisedInv
<1>5. QED
  BY <1>3, <1>4

\* The swap is what an answer stands for.
LEMMA SwapInv ==
  ASSUME Inv, NEW t \in Tasks, Swap(t)
  PROVE  Inv'
<1> DEFINE next == [tasks[t] EXCEPT !.at = "drop"]
           S == swapped[t] \cup {Index(t)}
<1>1. /\ tasks[t].at = "write" /\ tasks[t].at \in Steps
      /\ tasks' = [tasks EXCEPT ![t] = next]
      /\ swapped' = [swapped EXCEPT ![t] = S]
      /\ UNCHANGED <<rowsOf, waiting, failed>>
  BY DEF Swap, Steps
<1>2. /\ tasks[t] \in TaskType /\ tasks[t].kind # "none" /\ tasks[t].at # "queued"
      /\ tasks[t].order # <<>> /\ Index(t) \in Names
      /\ Sound(tasks[t], failed[t], swapped[t])
  BY <1>1, AtWork DEF Inv, TaskInv
<1>3. /\ S \in SUBSET Names /\ failed[t] \in SUBSET Names
      /\ failed' = [failed EXCEPT ![t] = failed[t]]
  BY <1>1, <1>2 DEF Inv, TypeInv
<1>4. /\ next \in TaskType /\ next.kind = tasks[t].kind /\ next.order = tasks[t].order
      /\ next.at = "drop" /\ next.pos = tasks[t].pos /\ next.result = tasks[t].result
  BY <1>2 DEF TaskType, Steps
<1>5. tasks[t].kind \in All => Indexes[tasks[t].pos] \in S
  BY <1>2 DEF Sound, Index
<1>6. Sound(next, failed[t], S)
  BY <1>1, <1>2, <1>4, <1>5 DEF Sound, Steps, Settled
<1> HIDE DEF next, S
<1>7. QED
  BY <1>1, <1>2, <1>3, <1>4, <1>6, Stepped

\* An answer for one more index.
LEMMA AnswerGrows ==
  ASSUME NEW task \in TaskType, NEW i \in Names
  PROVE  [j \in DOMAIN task.result \cup {i} |->
            IF j = i THEN task.done ELSE task.result[j]] \in Answers
<1> DEFINE answer == [j \in DOMAIN task.result \cup {i} |->
                        IF j = i THEN task.done ELSE task.result[j]]
<1>1. PICK D \in SUBSET Names : task.result \in [D -> Nat]
  BY DEF TaskType, Answers
<1>2. answer \in [D \cup {i} -> Nat]
  BY <1>1 DEF TaskType
<1>3. D \cup {i} \in SUBSET Names
  OBVIOUS
<1>4. QED
  BY <1>2, <1>3 DEF Answers

\* An index is done.
LEMMA DropBuildInv ==
  ASSUME Inv, NEW t \in Tasks, DropBuild(t)
  PROVE  Inv'
<1> DEFINE answer == [j \in DOMAIN tasks[t].result \cup {Index(t)} |->
                        IF j = Index(t) THEN tasks[t].done ELSE tasks[t].result[j]]
           task == [tasks[t] EXCEPT !.result = answer]
<1>1. /\ tasks[t].at = "drop" /\ tasks[t].at \in Steps
      /\ GoOn(t, task) /\ UNCHANGED <<rowsOf, waiting, failed, swapped>>
  BY DEF DropBuild, Steps, marks
<1>2. tasks[t] \in TaskType /\ Index(t) \in Names
  BY <1>1, AtWork
<1>3. answer \in Answers
  BY <1>2, AnswerGrows
<1>4. DOMAIN answer = DOMAIN tasks[t].result \cup {Index(t)}
  OBVIOUS
<1> HIDE DEF answer
<1>5. /\ task \in TaskType /\ task.kind = tasks[t].kind /\ task.order = tasks[t].order
      /\ task.pos = tasks[t].pos /\ task.result = answer
  BY <1>2, <1>3 DEF TaskType
<1>6. /\ failed[t] \in SUBSET Names /\ failed' = [failed EXCEPT ![t] = failed[t]]
      /\ swapped[t] \in SUBSET Names /\ swapped' = [swapped EXCEPT ![t] = swapped[t]]
  BY <1>1 DEF Inv, TypeInv
<1>7. task.kind \in All => Settled(task, failed[t], swapped[t], Before(task.pos + 1))
  <2> SUFFICES ASSUME tasks[t].kind \in All
               PROVE  Settled(task, failed[t], swapped[t], Before(tasks[t].pos + 1))
    BY <1>5
  <2>1. /\ Settled(tasks[t], failed[t], swapped[t], Before(tasks[t].pos))
        /\ Index(t) \in swapped[t] /\ Index(t) = Indexes[tasks[t].pos]
        /\ tasks[t].pos \in 1 .. Len(Indexes)
    BY <1>1, AtWork DEF Index
  <2>2. QED
    BY <1>4, <1>5, <2>1, BeforeFacts DEF Settled
<1> HIDE DEF task
<1>8. QED
  BY <1>1, <1>5, <1>6, <1>7, GoOnInv

\* A failure, before the swap or after it.
LEMMA RaiseInv ==
  ASSUME Inv, NEW t \in Tasks, Raise(t)
  PROVE  Inv'
BY RaisedInv DEF Raise, Steps

\* Rows and expiring locks concern no task's answer.
LEMMA RowsInv == Inv /\ (ChangeRows \/ Expire) => Inv'
<1> SUFFICES ASSUME Inv, ChangeRows \/ Expire PROVE Inv'
  OBVIOUS
<1>1. UNCHANGED <<tasks, waiting, failed, swapped>>
  BY DEF ChangeRows, Expire, marks
<1>2. rowsOf' \in [Names -> Nat]
  <2>1. CASE Expire
    BY <2>1 DEF Expire, Inv, TypeInv
  <2>2. CASE ChangeRows
    <3>1. PICK i \in DOMAIN rowsOf, more \in {1, -1} :
            rowsOf[i] + more >= 0 /\ rowsOf' = [rowsOf EXCEPT ![i] = @ + more]
      BY <2>2 DEF ChangeRows
    <3>2. rowsOf \in [Names -> Nat]
      BY DEF Inv, TypeInv
    <3>3. i \in Names /\ rowsOf[i] + more \in Nat
      BY <3>1, <3>2
    <3>4. QED
      BY <3>1, <3>2, <3>3
  <2>3. QED
    BY <2>1, <2>2
<1>3. TypeInv'
  BY <1>1, <1>2 DEF Inv, TypeInv
<1>4. FreeInv' /\ QueueInv' /\ TaskInv'
  BY <1>1 DEF Inv, FreeInv, Free, QueueInv, TaskInv
<1>5. QED
  BY <1>3, <1>4 DEF Inv

\* The invariant is inductive.
LEMMA NextInv == Inv /\ [JobsNext]_jobVars => Inv'
<1> SUFFICES ASSUME Inv, [JobsNext]_jobVars PROVE Inv'
  OBVIOUS
<1>1. CASE StartAction
  BY <1>1, StartActionInv
<1>2. CASE StartCommand
  BY <1>2, StartCommandInv
<1>3. CASE Take
  BY <1>3, TakeInv
<1>4. CASE Expire \/ ChangeRows
  BY <1>4, RowsInv
<1>5. ASSUME NEW t \in Tasks,
             \/ Clear(t) \/ Count(t) \/ Lock(t) \/ OpenCursor(t) \/ WriteBatch(t)
             \/ Swap(t) \/ DropBuild(t) \/ Raise(t) \/ Die(t)
      PROVE  Inv'
  BY <1>5, SmallStepsInv, LockStepInv, SwapInv, DropBuildInv, RaiseInv
<1>6. CASE UNCHANGED jobVars
  BY <1>6 DEF jobVars, Inv, TypeInv, FreeInv, Free, QueueInv, TaskInv
<1>7. QED
  BY <1>1, <1>2, <1>3, <1>4, <1>5, <1>6 DEF JobsNext

\* The invariant holds throughout.
LEMMA InvHolds == JobsSpec => []Inv
BY InitInv, NextInv, PTL DEF JobsSpec

\* Whatever fails or dies, a run over all indexes that ends has tried every one
\* of them, answers for those that were swapped in, and leaves out only those
\* that raised or were locked (clear_and_reindex_all, reindex_all).
THEOREM AllTried == JobsSpec => []OthersRebuilt
<1>1. Inv => OthersRebuilt
  BY DEF Inv, TaskInv, Sound, Settled, OthersRebuilt, Names
<1>2. QED
  BY <1>1, InvHolds, PTL

-----------------------------------------------------------------------------
(* Progress reports.                                                        *)

\* What the result backend has of a task, and what the task has counted: g
\* tells whether rows came after the count.
Told(task, s, g, rows) ==
  /\ DOMAIN s = DOMAIN Pending
  /\ task.kind = "none" \/ task.at \in {"queued", "clear"} => s = Pending
  /\ task.at \in Steps /\ task.kind # "sync_all" =>
       /\ s.state \in {"STARTED", "PROGRESS"}
       /\ s.current \in Nat /\ s.current <= task.pos /\ s.done \in Nat
       /\ s.current = task.pos => task.at \in {"write", "drop"} /\ s.done = task.done
  /\ task.at \in {"lock", "open"} =>
       task.done = 0 /\ (g \/ rows[task.order[task.pos]] <= task.total)
  /\ task.at = "write" => g \/ task.done + task.left <= task.total

ReportInv ==
  /\ status = [t \in Tasks |-> status[t]]
  /\ \A t \in Tasks : Told(tasks[t], status[t], t \in grown, rowsOf)

\* What ProgressHonest asks of a step.
Honest(t) ==
  LET old == status[t]
      new == status'[t]
  IN new # old =>
       /\ old.state \notin {"SUCCESS", "FAILURE"}
       /\ new.state = "PROGRESS" =>
            /\ old.current < new.current
               \/ (old.current = new.current /\ old.done < new.done)
            /\ new.segment = tasks[t].order[new.current]
            /\ new.done <= new.total \/ t \in grown
HonestStep == ReportInv' /\ \A t \in Tasks : Honest(t)

\* No task has reported at first.
LEMMA InitReport == JobsInit => ReportInv
BY UnstartedFacts DEF JobsInit, ReportInv, Told, Steps

\* A step that changes the record and the report of one task.
LEMMA ReportStep ==
  ASSUME Inv, ReportInv, NEW t \in Tasks,
         NEW task, tasks' = [tasks EXCEPT ![t] = task],
         NEW s, status' = [status EXCEPT ![t] = s],
         Told(task, s, t \in grown', rowsOf),
         \A u \in Tasks \ {t} : u \in grown' <=> u \in grown,
         UNCHANGED rowsOf,
         s # status[t] => Honest(t)
  PROVE  HonestStep
<1>1. tasks'[t] = task /\ \A u \in Tasks \ {t} : tasks'[u] = tasks[u]
  BY DEF Inv, TypeInv
<1>2. status'[t] = s /\ \A u \in Tasks \ {t} : status'[u] = status[u]
  BY DEF ReportInv
<1>3. ReportInv'
  <2>1. status' = [u \in Tasks |-> status'[u]]
    BY DEF ReportInv
  <2>2. Told(tasks'[t], status'[t], t \in grown', rowsOf')
    BY <1>1, <1>2
  <2>3. ASSUME NEW u \in Tasks \ {t} PROVE Told(tasks'[u], status'[u], u \in grown', rowsOf')
    <3>1. Told(tasks[u], status[u], u \in grown, rowsOf)
      BY DEF ReportInv
    <3>2. QED
      BY <1>1, <1>2, <3>1 DEF Told
  <2>4. QED
    BY <2>1, <2>2, <2>3 DEF ReportInv
<1>4. \A u \in Tasks : Honest(u)
  BY <1>2 DEF Honest
<1>5. QED
  BY <1>3, <1>4 DEF HonestStep

\* The same when the report stays as it is.
LEMMA SilentStep ==
  ASSUME Inv, ReportInv, NEW t \in Tasks,
         NEW task, tasks' = [tasks EXCEPT ![t] = task],
         Told(task, status[t], t \in grown', rowsOf),
         \A u \in Tasks \ {t} : u \in grown' <=> u \in grown,
         UNCHANGED <<rowsOf, status>>
  PROVE  HonestStep
<1>1. status' = [status EXCEPT ![t] = status[t]]
  BY DEF ReportInv
<1>2. QED
  BY <1>1, ReportStep

\* A task ends, and says so unless it is a command.
LEMMA ReportedEnd ==
  ASSUME Inv, ReportInv, NEW t \in Tasks, tasks[t].at \in Steps,
         NEW task \in TaskType, task.kind = tasks[t].kind, task.at = "over",
         tasks' = [tasks EXCEPT ![t] = task],
         NEW s, DOMAIN s = DOMAIN Pending, s.state \in {"SUCCESS", "FAILURE"},
         Report(t, s),
         UNCHANGED <<rowsOf, grown>>
  PROVE  HonestStep
<1>1. Told(tasks[t], status[t], t \in grown, rowsOf) /\ tasks[t].kind # "none"
  BY AtWork DEF ReportInv
<1>2. Told(task, status[t], t \in grown', rowsOf) /\ Told(task, s, t \in grown', rowsOf)
  BY <1>1 DEF Told, Steps
<1>3. CASE tasks[t].kind = "sync_all"
  <2>1. UNCHANGED status
    BY <1>3 DEF Report
  <2>2. QED
    BY <1>2, <2>1, SilentStep
<1>4. CASE tasks[t].kind # "sync_all"
  <2>1. status' = [status EXCEPT ![t] = s]
    BY <1>4 DEF Report
  <2>2. status'[t] = s
    BY <2>1 DEF ReportInv
  <2>3. status[t].state \in {"STARTED", "PROGRESS"}
    BY <1>1, <1>4 DEF Told
  <2>4. Honest(t)
    BY <2>2, <2>3 DEF Honest
  <2>5. QED
    BY <1>2, <2>1, <2>4, ReportStep
<1>5. QED
  BY <1>3, <1>4

\* Turning to the next index is silent, the end is reported.
LEMMA GoOnReport ==
  ASSUME Inv, ReportInv, NEW t \in Tasks, tasks[t].at \in Steps,
         NEW task \in TaskType, task.kind = tasks[t].kind, task.order = tasks[t].order,
         task.pos = tasks[t].pos,
         GoOn(t, task),
         UNCHANGED <<rowsOf, grown>>
  PROVE  HonestStep
<1>1. /\ Told(tasks[t], status[t], t \in grown, rowsOf)
      /\ tasks[t].kind # "none" /\ tasks[t].pos \in Nat
  BY AtWork DEF ReportInv, TaskType
<1>2. CASE task.kind \in All /\ task.pos < Len(task.order)
  <2> DEFINE next == [task EXCEPT !.pos = @ + 1, !.at = "count"]
  <2>1. tasks' = [tasks EXCEPT ![t] = next] /\ UNCHANGED status
    BY <1>2 DEF GoOn
  <2>2. next.kind = task.kind /\ next.pos = task.pos + 1 /\ next.at = "count"
    BY NextIndex
  <2> HIDE DEF next
  <2>3. Told(next, status[t], t \in grown', rowsOf)
    BY <1>1, <2>2 DEF Told, Steps
  <2>4. QED
    BY <2>1, <2>3, SilentStep
<1>3. CASE ~(task.kind \in All /\ task.pos < Len(task.order))
  <2> DEFINE next == [task EXCEPT !.at = "over"]
             sum == FoldFunction(+, 0, task.result)
             s == [status[t] EXCEPT !.state = "SUCCESS", !.indexed = sum]
  <2>1. tasks' = [tasks EXCEPT ![t] = next] /\ Report(t, s)
    BY <1>3 DEF GoOn, Finished
  <2>2. next \in TaskType /\ next.kind = task.kind /\ next.at = "over"
    BY DEF TaskType
  <2> HIDE DEF sum
  <2>3. DOMAIN s = DOMAIN Pending /\ s.state = "SUCCESS"
    BY <1>1 DEF Told, Pending
  <2> HIDE DEF next, s
  <2>4. QED
    BY <2>1, <2>2, <2>3, ReportedEnd
<1>4. QED
  BY <1>2, <1>3

\* A failure ends the report of a task for one index only.
LEMMA RaisedReport ==
  ASSUME Inv, ReportInv, NEW t \in Tasks, tasks[t].at \in Steps,
         Raised(t),
         UNCHANGED <<rowsOf, grown>>
  PROVE  HonestStep
<1>1. tasks[t] \in TaskType /\ DOMAIN status[t] = DOMAIN Pending
  BY AtWork DEF ReportInv, Told
<1>2. CASE tasks[t].kind \in All
  BY <1>1, <1>2, GoOnReport DEF Raised
<1>3. CASE tasks[t].kind \notin All
  <2> DEFINE next == [tasks[t] EXCEPT !.at = "over"]
             s == [status[t] EXCEPT !.state = "FAILURE"]
  <2>1. tasks' = [tasks EXCEPT ![t] = next] /\ Report(t, s)
    BY <1>3 DEF Raised
  <2>2. next \in TaskType /\ next.kind = tasks[t].kind /\ next.at = "over"
    BY <1>1 DEF TaskType
  <2>3. DOMAIN s = DOMAIN Pending /\ s.state = "FAILURE"
    BY <1>1 DEF Pending
  <2> HIDE DEF next, s
  <2>4. QED
    BY <2>1, <2>2, <2>3, ReportedEnd
<1>4. QED
  BY <1>2, <1>3

\* Every action keeps the reports honest.
LEMMA StartReport ==
  ASSUME Inv, ReportInv, StartAction \/ StartCommand
  PROVE  HonestStep
<1>1. /\ UNCHANGED <<rowsOf, status, grown>> /\ Free # {}
      /\ \A t \in Tasks :
           \/ tasks'[t] = tasks[t]
           \/ t \in Free /\ tasks'[t].at = "queued"
           \/ t \in Free /\ tasks'[t].at = "count" /\ tasks'[t].pos = 1 /\ tasks'[t].kind = "sync_all"
  <2>1. ASSUME NEW orders, NEW kind, Enqueue(orders, kind), Free # {}
        PROVE  /\ UNCHANGED <<rowsOf, status, grown>>
               /\ \A t \in Tasks : \/ tasks'[t] = tasks[t]
                                   \/ t \in Free /\ tasks'[t].at = "queued"
    <3> DEFINE first == Min(Free)
               new == first .. first + Len(orders) - 1
    <3>1. /\ UNCHANGED <<rowsOf, status, grown>>
          /\ tasks' = [t \in Tasks |-> IF t \in new THEN NewTask(kind, orders[t - first + 1])
                                       ELSE tasks[t]]
      BY <2>1 DEF Enqueue, marks
    <3>2. \A order : NewTask(kind, order).at = "queued"
      BY DEF NewTask, Unstarted
    <3>3. first \in Nat /\ Free = first .. Cardinality(Tasks)
      BY <2>1, FirstFree DEF Inv
    <3> HIDE DEF first
    <3>4. \A t \in Tasks : t \in new => t \in Free
      BY <3>3, TasksFacts
    <3> HIDE DEF new
    <3>5. QED
      BY <3>1, <3>2, <3>4
  <2>2. CASE StartAction
    BY <2>1, <2>2 DEF StartAction
  <2>3. CASE StartCommand
    <3> DEFINE t == Min(Free)
               task == [NewTask("sync_all", Indexes) EXCEPT !.at = "count", !.pos = 1]
    <3>1. /\ tasks' = [tasks EXCEPT ![t] = task] /\ UNCHANGED <<rowsOf, status, grown>>
          /\ Free # {}
      BY <2>3 DEF StartCommand, marks
    <3>2. /\ task.at = "count" /\ task.pos = 1 /\ task.kind = "sync_all"
      BY DEF NewTask, Unstarted
    <3>3. t \in Nat /\ Free = t .. Cardinality(Tasks)
      BY <3>1, FirstFree DEF Inv
    <3> HIDE DEF t, task
    <3>4. t \in Free /\ t \in Tasks
      <4>1. t \in Free
        BY <3>1, <3>3, TasksFacts
      <4>2. QED
        BY <4>1 DEF Free
    <3>5. QED
      BY <3>1, <3>2, <3>4 DEF Inv, TypeInv
  <2>4. QED
    BY <2>2, <2>3
<1>2. ASSUME NEW t \in Tasks PROVE Told(tasks'[t], status'[t], t \in grown', rowsOf')
  <2>1. Told(tasks[t], status[t], t \in grown, rowsOf)
    BY DEF ReportInv
  <2>2. t \in Free => tasks[t].kind = "none"
    BY DEF Free
  <2>3. QED
    BY <1>1, <2>1, <2>2 DEF Told, Steps
<1>3. QED
  BY <1>1, <1>2 DEF HonestStep, ReportInv, Honest

\* The first report of a task.
LEMMA TakeReport ==
  ASSUME Inv, ReportInv, Take
  PROVE  HonestStep
<1> DEFINE t == Head(waiting)
           clear == tasks[t].kind = "clear"
           task == [tasks[t] EXCEPT !.at = IF clear THEN "clear" ELSE "count", !.pos = 1]
           s == [Pending EXCEPT !.state = "STARTED"]
<1>1. /\ tasks' = [tasks EXCEPT ![t].at = IF clear THEN "clear" ELSE "count", ![t].pos = 1]
      /\ IF clear THEN UNCHANGED status ELSE Report(t, s)
      /\ waiting # <<>> /\ UNCHANGED <<rowsOf, grown>>
  BY DEF Take, marks
<1>2. t \in Tasks /\ tasks[t].at = "queued" /\ tasks[t] \in TaskType
  <2>1. waiting \in Seq(Tasks) /\ Len(waiting) \in Nat \ {0}
    BY <1>1, EmptySeq DEF Inv, TypeInv
  <2>2. t \in Tasks /\ t = waiting[1]
    BY <1>1, <2>1, HeadTailProperties
  <2>3. QED
    BY <2>1, <2>2 DEF Inv, TypeInv, QueueInv
<1>3. /\ tasks' = [tasks EXCEPT ![t] = task]
      /\ task.kind = tasks[t].kind /\ task.at = (IF clear THEN "clear" ELSE "count") /\ task.pos = 1
  BY <1>1, <1>2 DEF Inv, TypeInv, TaskType
<1>4. Told(tasks[t], status[t], t \in grown, rowsOf) /\ status[t] = Pending
  BY <1>2 DEF ReportInv, Told
<1>5. tasks[t].kind # "none"
  BY <1>2, UnstartedFacts DEF Inv, TaskInv, Sound
<1>6. s.state = "STARTED" /\ s.current = 0 /\ s.done = 0 /\ DOMAIN s = DOMAIN Pending
  BY DEF Pending
<1>7. Pending.state = "PENDING" /\ DOMAIN Pending = DOMAIN status[t]
  BY <1>4 DEF Pending
<1> HIDE DEF t, task, s
<1>8. CASE clear \/ tasks[t].kind = "sync_all"
  <2>1. UNCHANGED status
    BY <1>1, <1>8 DEF Report
  <2>2. Told(task, status[t], t \in grown', rowsOf)
    BY <1>3, <1>4, <1>5, <1>8 DEF Told, Steps
  <2>3. QED
    BY <1>1, <1>2, <1>3, <2>1, <2>2, SilentStep
<1>9. CASE ~clear /\ tasks[t].kind # "sync_all"
  <2>1. status' = [status EXCEPT ![t] = s]
    BY <1>1, <1>9 DEF Report
  <2>2. Told(task, s, t \in grown', rowsOf)
    BY <1>3, <1>5, <1>6, <1>9 DEF Told, Steps
  <2>3. Honest(t)
    BY <1>2, <1>4, <1>6, <1>7, <2>1 DEF Honest, ReportInv
  <2>4. QED
    BY <1>1, <1>2, <1>3, <2>1, <2>2, <2>3, ReportStep
<1>10. QED
  BY <1>8, <1>9

\* Steps without a report, and the end of a clear.
LEMMA SmallStepsReport ==
  ASSUME Inv, ReportInv, NEW t \in Tasks,
         Clear(t) \/ Count(t) \/ OpenCursor(t) \/ Swap(t) \/ Die(t)
  PROVE  HonestStep
<1>1. tasks[t].at \in Steps \cup {"clear"}
  <2>1. tasks[t].at \in Steps \cup {"none", "queued", "clear", "over", "dead"}
    BY DEF Inv, TypeInv, TaskType
  <2>2. QED
    BY <2>1 DEF Clear, Count, OpenCursor, Swap, Die, Running, Steps
<1>2. /\ tasks[t] \in TaskType /\ tasks[t].kind # "none" /\ Index(t) \in Names
      /\ Told(tasks[t], status[t], t \in grown, rowsOf)
  BY <1>1, AtWork DEF ReportInv
<1>3. rowsOf[Index(t)] \in Nat
  BY <1>2 DEF Inv, TypeInv
<1>4. CASE Clear(t)
  <2> DEFINE next == [tasks[t] EXCEPT !.at = "over"]
             s == [status[t] EXCEPT !.state = "SUCCESS"]
  <2>1. /\ tasks' = [tasks EXCEPT ![t] = next] /\ tasks[t].at = "clear"
        /\ UNCHANGED <<rowsOf, grown>>
    BY <1>4 DEF Clear, marks
  <2>2. status' = [status EXCEPT ![t] = s]
    BY <1>4 DEF Clear
  <2>3. next.kind = tasks[t].kind /\ next.at = "over"
    BY <1>2 DEF TaskType
  <2>4. /\ status[t] = Pending /\ status[t].state = "PENDING"
        /\ s.state = "SUCCESS" /\ DOMAIN s = DOMAIN Pending
    <3>1. status[t] = Pending
      BY <1>2, <2>1 DEF Told
    <3>2. s = [Pending EXCEPT !.state = "SUCCESS"]
      BY <3>1
    <3>3. Pending.state = "PENDING" /\ [Pending EXCEPT !.state = "SUCCESS"].state = "SUCCESS"
      BY DEF Pending
    <3>4. DOMAIN [Pending EXCEPT !.state = "SUCCESS"] = DOMAIN Pending
      BY DEF Pending
    <3> HIDE DEF s
    <3>5. QED
      BY <3>1, <3>2, <3>3, <3>4
  <2> HIDE DEF next, s
  <2>5. Told(next, s, t \in grown', rowsOf)
    BY <1>2, <2>3, <2>4 DEF Told, Steps
  <2>6. Honest(t)
    BY <2>2, <2>4 DEF Honest, ReportInv
  <2>7. QED
    BY <2>1, <2>2, <2>5, <2>6, ReportStep
<1>5. CASE Count(t)
  <2> DEFINE next == [tasks[t] EXCEPT !.total = rowsOf[Index(t)], !.done = 0, !.at = "lock"]
  <2>1. /\ tasks' = [tasks EXCEPT ![t] = next] /\ tasks[t].at = "count"
        /\ grown' = grown \ {t} /\ UNCHANGED <<rowsOf, status>>
    BY <1>5 DEF Count
  <2>2. /\ next.kind = tasks[t].kind /\ next.at = "lock" /\ next.pos = tasks[t].pos
        /\ next.done = 0 /\ next.total = rowsOf[next.order[next.pos]]
        /\ rowsOf[next.order[next.pos]] \in Nat
    BY <1>2, <1>3 DEF TaskType, Index
  <2> HIDE DEF next
  <2>3. Told(next, status[t], t \in grown', rowsOf)
    BY <1>2, <2>1, <2>2 DEF Told, Steps
  <2>4. QED
    BY <2>1, <2>3, SilentStep
<1>6. CASE OpenCursor(t)
  <2> DEFINE next == [tasks[t] EXCEPT !.left = rowsOf[Index(t)], !.at = "write"]
  <2>1. /\ tasks' = [tasks EXCEPT ![t] = next] /\ tasks[t].at = "open"
        /\ UNCHANGED <<rowsOf, status, grown>>
    BY <1>6 DEF OpenCursor, marks
  <2>2. /\ next.kind = tasks[t].kind /\ next.at = "write" /\ next.pos = tasks[t].pos
        /\ next.done = tasks[t].done /\ next.total = tasks[t].total
        /\ next.left = rowsOf[tasks[t].order[tasks[t].pos]] /\ next.left \in Nat
    BY <1>2, <1>3 DEF TaskType, Index
  <2> HIDE DEF next
  <2>3. Told(next, status[t], t \in grown', rowsOf)
    BY <1>2, <2>1, <2>2 DEF Told, Steps
  <2>4. QED
    BY <2>1, <2>3, SilentStep
<1>7. CASE Swap(t)
  <2> DEFINE next == [tasks[t] EXCEPT !.at = "drop"]
  <2>1. /\ tasks' = [tasks EXCEPT ![t] = next] /\ tasks[t].at = "write"
        /\ UNCHANGED <<rowsOf, status, grown>>
    BY <1>7 DEF Swap
  <2>2. /\ next.kind = tasks[t].kind /\ next.at = "drop" /\ next.pos = tasks[t].pos
        /\ next.done = tasks[t].done
    BY <1>2 DEF TaskType
  <2> HIDE DEF next
  <2>3. Told(next, status[t], t \in grown', rowsOf)
    BY <1>2, <2>1, <2>2 DEF Told, Steps
  <2>4. QED
    BY <2>1, <2>3, SilentStep
<1>8. CASE Die(t)
  <2> DEFINE next == [tasks[t] EXCEPT !.at = "dead"]
  <2>1. tasks' = [tasks EXCEPT ![t] = next] /\ UNCHANGED <<rowsOf, status, grown>>
    BY <1>8 DEF Die, marks
  <2>2. next.kind = tasks[t].kind /\ next.at = "dead"
    BY <1>2 DEF TaskType
  <2> HIDE DEF next
  <2>3. Told(next, status[t], t \in grown', rowsOf)
    BY <1>2, <2>1, <2>2 DEF Told, Steps
  <2>4. QED
    BY <2>1, <2>3, SilentStep
<1>9. QED
  BY <1>4, <1>5, <1>6, <1>7, <1>8

\* A batch is reported when it has been sent.
LEMMA WriteReport ==
  ASSUME Inv, ReportInv, NEW t \in Tasks, WriteBatch(t)
  PROVE  HonestStep
<1> DEFINE n == IF tasks[t].left < Batch THEN tasks[t].left ELSE Batch
           done == tasks[t].done + n
           next == [tasks[t] EXCEPT !.left = @ - n, !.done = done]
           s == [state |-> "PROGRESS", current |-> Position(t), segment |-> Index(t),
                 done |-> done, total |-> tasks[t].total, indexed |-> 0]
<1>1. /\ tasks[t].at = "write" /\ tasks[t].left > 0 /\ tasks[t].at \in Steps
      /\ tasks' = [tasks EXCEPT ![t] = next] /\ Report(t, s)
      /\ UNCHANGED <<rowsOf, grown>>
  BY DEF WriteBatch, Steps, marks
<1>2. /\ tasks[t] \in TaskType /\ tasks[t].kind # "none"
      /\ Told(tasks[t], status[t], t \in grown, rowsOf)
  BY <1>1, AtWork DEF ReportInv
<1>3. /\ tasks[t].left \in Nat /\ tasks[t].done \in Nat /\ tasks[t].total \in Nat
      /\ tasks[t].pos \in Nat
  BY <1>2 DEF TaskType
<1>4. n \in Nat /\ n > 0 /\ n <= tasks[t].left
  BY <1>1, <1>3, JobsAssumption
<1> HIDE DEF n
<1>5. /\ next.kind = tasks[t].kind /\ next.at = "write" /\ next.pos = tasks[t].pos
      /\ next.done = done /\ next.left = tasks[t].left - n /\ next.total = tasks[t].total
  BY <1>1, <1>2 DEF TaskType
<1>6. /\ s.state = "PROGRESS" /\ s.current = tasks[t].pos
      /\ s.segment = tasks[t].order[tasks[t].pos] /\ s.done = done /\ s.total = tasks[t].total
      /\ DOMAIN s = DOMAIN Pending
  BY DEF Position, Index, Pending
<1>7. done \in Nat /\ done > tasks[t].done /\ (t \in grown \/ done <= tasks[t].total)
      /\ (t \in grown \/ next.done + next.left <= next.total)
  BY <1>1, <1>2, <1>3, <1>4, <1>5 DEF Told
<1> HIDE DEF next, s, done
<1>8. CASE tasks[t].kind = "sync_all"
  <2>1. UNCHANGED status
    BY <1>1, <1>8 DEF Report
  <2>2. Told(next, status[t], t \in grown', rowsOf)
    BY <1>1, <1>2, <1>5, <1>7, <1>8 DEF Told, Steps
  <2>3. QED
    BY <1>1, <2>1, <2>2, SilentStep
<1>9. CASE tasks[t].kind # "sync_all"
  <2>1. status' = [status EXCEPT ![t] = s]
    BY <1>1, <1>9 DEF Report
  <2>2. status'[t] = s
    BY <2>1 DEF ReportInv
  <2>3. Told(next, s, t \in grown', rowsOf)
    BY <1>1, <1>2, <1>3, <1>5, <1>6, <1>7, <1>9 DEF Told, Steps
  <2>4. Honest(t)
    BY <1>1, <1>2, <1>3, <1>6, <1>7, <1>9, <2>2 DEF Told, Honest
  <2>5. QED
    BY <1>1, <2>1, <2>3, <2>4, ReportStep
<1>10. QED
  BY <1>8, <1>9

\* An index that is locked ends the report of a task for it alone.
LEMMA LockReport ==
  ASSUME Inv, ReportInv, NEW t \in Tasks, Lock(t)
  PROVE  HonestStep
<1>1. tasks[t].at = "lock" /\ tasks[t].at \in Steps /\ UNCHANGED <<rowsOf, grown>>
  BY DEF Lock, Steps
<1>2. CASE locks[Index(t)] = 0
  <2> DEFINE next == [tasks[t] EXCEPT !.at = "open"]
  <2>1. tasks' = [tasks EXCEPT ![t] = next] /\ UNCHANGED status
    BY <1>2 DEF Lock
  <2>2. tasks[t] \in TaskType /\ Told(tasks[t], status[t], t \in grown, rowsOf) /\ tasks[t].kind # "none"
    BY <1>1, AtWork DEF ReportInv
  <2>3. /\ next.kind = tasks[t].kind /\ next.at = "open" /\ next.pos = tasks[t].pos
        /\ next.order = tasks[t].order /\ next.done = tasks[t].done /\ next.total = tasks[t].total
    BY <2>2 DEF TaskType
  <2> HIDE DEF next
  <2>4. Told(next, status[t], t \in grown', rowsOf)
    BY <1>1, <2>2, <2>3 DEF Told, Steps
  <2>5. QED
    BY <1>1, <2>1, <2>4, SilentStep
<1>3. CASE locks[Index(t)] # 0
  <2>1. Raised(t)
    BY <1>3 DEF Lock
  <2>2. QED
    BY <1>1, <2>1, RaisedReport
<1>4. QED
  BY <1>2, <1>3

\* An index is done.
LEMMA DropBuildReport ==
  ASSUME Inv, ReportInv, NEW t \in Tasks, DropBuild(t)
  PROVE  HonestStep
<1> DEFINE answer == [j \in DOMAIN tasks[t].result \cup {Index(t)} |->
                        IF j = Index(t) THEN tasks[t].done ELSE tasks[t].result[j]]
           task == [tasks[t] EXCEPT !.result = answer]
<1>1. /\ tasks[t].at = "drop" /\ tasks[t].at \in Steps
      /\ GoOn(t, task) /\ UNCHANGED <<rowsOf, grown>>
  BY DEF DropBuild, Steps, marks
<1>2. tasks[t] \in TaskType /\ Index(t) \in Names
  BY <1>1, AtWork
<1>3. answer \in Answers
  BY <1>2, AnswerGrows
<1> HIDE DEF answer
<1>4. /\ task \in TaskType /\ task.kind = tasks[t].kind /\ task.order = tasks[t].order
      /\ task.pos = tasks[t].pos
  BY <1>2, <1>3 DEF TaskType
<1> HIDE DEF task
<1>5. QED
  BY <1>1, <1>4, GoOnReport

\* Rows that come after the count are noted in grown.
LEMMA RowsReport ==
  ASSUME Inv, ReportInv, ChangeRows \/ Expire
  PROVE  HonestStep
<1>1. UNCHANGED <<tasks, status>>
  BY DEF ChangeRows, Expire, marks
<1>2. ASSUME NEW t \in Tasks PROVE Told(tasks[t], status[t], t \in grown', rowsOf')
  <2>1. Told(tasks[t], status[t], t \in grown, rowsOf)
    BY DEF ReportInv
  <2>2. CASE Expire
    BY <2>1, <2>2 DEF Expire, marks
  <2>3. CASE ChangeRows
    <3>1. PICK i \in DOMAIN rowsOf, more \in {1, -1} :
            /\ rowsOf[i] + more >= 0
            /\ rowsOf' = [rowsOf EXCEPT ![i] = @ + more]
            /\ grown' = grown \cup
                 (IF more = 1 THEN {u \in Running : tasks[u].at \in {"lock", "open"} /\ Index(u) = i} ELSE {})
      BY <2>3 DEF ChangeRows
    <3>2. rowsOf \in [Names -> Nat] /\ i \in Names
      BY <3>1 DEF Inv, TypeInv
    <3>3. t \in grown => t \in grown'
      BY <3>1
    <3>4. tasks[t].at \in {"lock", "open"} =>
            t \in grown' \/ rowsOf'[Index(t)] <= tasks[t].total
      <4> SUFFICES ASSUME tasks[t].at \in {"lock", "open"}, t \notin grown'
                   PROVE  rowsOf'[Index(t)] <= tasks[t].total
        OBVIOUS
      <4>1. tasks[t].at \in Steps /\ t \in Running
        BY DEF Running, Steps
      <4>2. Index(t) \in Names /\ tasks[t].total \in Nat
        BY <4>1, AtWork DEF TaskType
      <4>3. rowsOf[Index(t)] <= tasks[t].total
        BY <2>1, <3>3 DEF Told, Index
      <4>4. Index(t) = i => more = -1
        BY <3>1, <4>1
      <4>5. QED
        BY <3>1, <3>2, <4>2, <4>3, <4>4
    <3>5. QED
      BY <2>1, <3>3, <3>4 DEF Told, Index
  <2>4. QED
    BY <2>2, <2>3
<1>3. QED
  BY <1>1, <1>2 DEF HonestStep, ReportInv, Honest

\* Every step is honest.
LEMMA NextReport == Inv /\ ReportInv /\ [JobsNext]_jobVars => HonestStep
<1> SUFFICES ASSUME Inv, ReportInv, [JobsNext]_jobVars PROVE HonestStep
  OBVIOUS
<1>1. CASE StartAction \/ StartCommand
  BY <1>1, StartReport
<1>2. CASE Take
  BY <1>2, TakeReport
<1>3. CASE Expire \/ ChangeRows
  BY <1>3, RowsReport
<1>4. ASSUME NEW t \in Tasks,
             \/ Clear(t) \/ Count(t) \/ Lock(t) \/ OpenCursor(t) \/ WriteBatch(t)
             \/ Swap(t) \/ DropBuild(t) \/ Raise(t) \/ Die(t)
      PROVE  HonestStep
  <2>1. CASE Raise(t)
    BY <2>1, RaisedReport DEF Raise, Steps
  <2>2. QED
    BY <1>4, <2>1, SmallStepsReport, WriteReport, LockReport, DropBuildReport
<1>5. CASE UNCHANGED jobVars
  BY <1>5 DEF jobVars, HonestStep, ReportInv, Honest
<1>6. QED
  BY <1>1, <1>2, <1>3, <1>4, <1>5 DEF JobsNext

\* Progress reports only move forward, name the index at work, are final once
\* they tell the end, and count no more than the total unless rows came after
\* the count (CeleryTaskReporter, IndexingService.reindex).
THEOREM ReportsHonest == JobsSpec => ProgressHonest
<1>1. JobsInit => ReportInv
  BY InitReport
<1>2. Inv /\ ReportInv /\ [JobsNext]_jobVars => ReportInv'
  BY NextReport DEF HonestStep
<1>3. Inv /\ ReportInv /\ [JobsNext]_jobVars =>
        [\A t \in Tasks :
           LET old == status[t]
               new == status'[t]
           IN new # old =>
                /\ old.state \notin {"SUCCESS", "FAILURE"}
                /\ new.state = "PROGRESS" =>
                     /\ old.current < new.current
                        \/ (old.current = new.current /\ old.done < new.done)
                     /\ new.segment = tasks[t].order[new.current]
                     /\ new.done <= new.total \/ t \in grown]_jobVars
  BY NextReport DEF HonestStep, Honest
<1>4. QED
  BY <1>1, <1>2, <1>3, InvHolds, PTL DEF JobsSpec, ProgressHonest
=============================================================================
