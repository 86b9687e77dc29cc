------------------------------- MODULE Batch --------------------------------
(***************************************************************************)
(* BatchCoordinator.execute: parallel workers of a batch take items from a *)
(* shared queue; for each they create a run, enqueue it in the WorkerPool  *)
(* and execute it.  Several batches may be under way.                      *)
(*                                                                         *)
(* A worker runs without interruption between its two awaits, createRun    *)
(* and executeRun (module Execution); here each of them resolves or        *)
(* rejects.  executeRun also resolves when the run has failed.             *)
(***************************************************************************)
EXTENDS Naturals, Sequences, FiniteSets

CONSTANTS
    Batches,       \* activations of execute
    Manifest,      \* batch -> [id, items, maxParallel]
    Concurrency    \* workerConcurrency of the pool

\* The loader refuses a manifest whose maxParallel is not a positive integer;
\* without one it is 4.
ASSUME ManifestAssumption ==
    /\ Concurrency \in Nat
    /\ \A b \in Batches :
         /\ Manifest[b].items \in Seq([priority : Nat, continueOnError : BOOLEAN])
         /\ Manifest[b].maxParallel \in Nat \ {0}

VARIABLES
    phase,         \* batch -> "new", "open", "returned"
    todo,          \* batch -> the local queue, as positions in the manifest
    worker,        \* batch -> worker -> the item it holds, 0 when it has ended
    created,       \* batch -> the items whose createRun has resolved
    progress,      \* batch -> BatchProgress: the three counters and runIds
    shown,         \* manifest id -> the batch getProgress(id) shows
    outcome,       \* batch -> item -> how it ended, for the properties
    queue,         \* the queue of the worker pool
    running        \* the slots of the worker pool

batchVars == <<phase, todo, worker, created, progress, shown, outcome, queue, running>>

Ids       == {Manifest[b].id : b \in Batches}
Item(b)   == 1..Len(Manifest[b].items)
Worker(b) == 1..Manifest[b].maxParallel

PoolItems == UNION {{b} \X Item(b) : b \in Batches}

Pool == INSTANCE WorkerPool WITH
    Items    <- PoolItems,
    Priority <- [x \in PoolItems |-> Manifest[x[1]].items[x[2]].priority]

NoProgress == [completed |-> 0, failed |-> 0, running |-> 0, runIds |-> << >>]

BatchInit ==
    /\ phase = [b \in Batches |-> "new"]
    /\ todo = [b \in Batches |-> << >>]
    /\ worker = [b \in Batches |-> [w \in Worker(b) |-> 0]]
    /\ created = [b \in Batches |-> {}]
    /\ progress = [b \in Batches |-> NoProgress]
    /\ shown = [d \in Ids |-> {}]
    /\ outcome = [b \in Batches |-> [i \in Item(b) |-> "none"]]
    /\ Pool!PoolInit

\* execute: the workers are started one after the other, each goes on to its
\* first await with the next item of the queue.
ExecuteBatch(b) ==
    LET n == Len(Manifest[b].items)
        k == IF n < Manifest[b].maxParallel THEN n ELSE Manifest[b].maxParallel
    IN  /\ phase[b] = "new"
        /\ phase' = [phase EXCEPT ![b] = "open"]
        /\ todo' = [todo EXCEPT ![b] = [i \in 1..(n - k) |-> k + i]]
        /\ worker' = [worker EXCEPT ![b] = [w \in Worker(b) |-> IF w <= k THEN w ELSE 0]]
        /\ progress' = [progress EXCEPT ![b].running = k]
        /\ shown' = [shown EXCEPT ![Manifest[b].id] = {b}]
        /\ UNCHANGED <<created, outcome, queue, running>>

\* createRun resolves: the run is noted and put in the pool, executeRun is called.
RunCreated(b, w) ==
    LET i == worker[b][w]
    IN  /\ i # 0 /\ i \notin created[b]
        /\ created' = [created EXCEPT ![b] = @ \cup {i}]
        /\ progress' = [progress EXCEPT ![b].runIds = Append(@, i)]
        /\ Pool!Enqueue(<<b, i>>)
        /\ UNCHANGED <<phase, todo, worker, shown, outcome>>

\* Faulty variant: the worker looks at its item again instead of the next one.
TakeAgain(b, w, rest) ==
    /\ worker' = [worker EXCEPT ![b][w] = IF rest = << >> THEN 0 ELSE @]
    /\ todo' = [todo EXCEPT ![b] = rest]

\* The head of a worker's loop, with `rest` in the queue: it takes the next item
\* or ends.
Take(b, w, rest) ==
    /\ worker' = [worker EXCEPT ![b][w] = IF rest = << >> THEN 0 ELSE Head(rest)]
    /\ todo' = [todo EXCEPT ![b] = IF rest = << >> THEN rest ELSE Tail(rest)]

\* Faulty variant: running is counted down only when the item went well.
CountFailedKeepingRunning(b, rest) ==
    progress' = [progress EXCEPT ![b].failed = @ + 1,
                                 ![b].running = IF rest = << >> THEN @ ELSE @ + 1]

\* catch and finally, then `running += 1` again if there is a next item.
CountFailed(b, rest) ==
    progress' = [progress EXCEPT ![b].failed = @ + 1,
                                 ![b].running = IF rest = << >> THEN @ - 1 ELSE @]

CountCompleted(b, rest) ==
    progress' = [progress EXCEPT ![b].completed = @ + 1,
                                 ![b].running = IF rest = << >> THEN @ - 1 ELSE @]

\* executeRun resolves.
ItemCompleted(b, w) ==
    LET i == worker[b][w]
    IN  /\ i \in created[b]
        /\ outcome' = [outcome EXCEPT ![b][i] = "completed"]
        /\ CountCompleted(b, todo[b])
        /\ Take(b, w, todo[b])
        /\ UNCHANGED <<phase, created, shown, queue, running>>

\* Faulty variant: the queue is never cleared.
RestNeverCleared(b, i) == todo[b]

\* What an item that failed leaves in the queue.
RestAfterFailure(b, i) ==
    IF Manifest[b].items[i].continueOnError THEN todo[b] ELSE << >>

\* createRun or executeRun rejects.
ItemFailed(b, w) ==
    LET i    == worker[b][w]
        rest == RestAfterFailure(b, i)
    IN  /\ i # 0
        /\ outcome' = [outcome EXCEPT ![b][i] = "failed"]
        /\ CountFailed(b, rest)
        /\ Take(b, w, rest)
        /\ UNCHANGED <<phase, created, shown, queue, running>>

\* Faulty variant: Promise.race in place of Promise.all.
ReturnEarly(b) ==
    /\ phase[b] = "open"
    /\ \E w \in Worker(b) : worker[b][w] = 0
    /\ phase' = [phase EXCEPT ![b] = "returned"]
    /\ UNCHANGED <<todo, worker, created, progress, shown, outcome, queue, running>>

\* Faulty variant: the batch waits for all items to be completed.
ReturnWhenCompleted(b) ==
    /\ phase[b] = "open"
    /\ progress[b].completed = Len(Manifest[b].items)
    /\ phase' = [phase EXCEPT ![b] = "returned"]
    /\ UNCHANGED <<todo, worker, created, progress, shown, outcome, queue, running>>

\* Promise.all: every worker has ended.
ReturnBatch(b) ==
    /\ phase[b] = "open"
    /\ \A w \in Worker(b) : worker[b][w] = 0
    /\ phase' = [phase EXCEPT ![b] = "returned"]
    /\ UNCHANGED <<todo, worker, created, progress, shown, outcome, queue, running>>

WorkerStep(b) ==
    \E w \in Worker(b) : RunCreated(b, w) \/ ItemCompleted(b, w) \/ ItemFailed(b, w)

\* start and complete of the pool, which the engine offers to its users.
PoolStep ==
    /\ Pool!Start \/ Pool!Complete
    /\ UNCHANGED <<phase, todo, worker, created, progress, shown, outcome>>

BatchNext ==
    \/ \E b \in Batches : ExecuteBatch(b) \/ WorkerStep(b) \/ ReturnBatch(b)
    \/ PoolStep

BatchSpec == BatchInit /\ [][BatchNext]_batchVars

\* createRun and executeRun come to an end (Execution!CallsReturn) and the event
\* loop resumes the worker then.
BatchFairSpec == BatchSpec /\ \A b \in Batches : WF_batchVars(WorkerStep(b) \/ ReturnBatch(b))

-----------------------------------------------------------------------------
(* Properties.                                                             *)

Held(b)        == {worker[b][w] : w \in Worker(b)} \ {0}
Waiting(b)     == {todo[b][k] : k \in 1..Len(todo[b])}
Ended(b, how)  == {i \in Item(b) : outcome[b][i] = how}
Aborted(b)     == \E i \in Ended(b, "failed") : ~ Manifest[b].items[i].continueOnError

\* The counters a client polls say what the workers are really doing, at every
\* moment: items under way, completed and failed, and one run id per run.  The
\* progress shown for a manifest is that of a batch that was really started, and
\* every batch is shown unless its manifest was executed again.
CountersAgree ==
    /\ \A d \in Ids :
         /\ \A b \in shown[d] : Manifest[b].id = d /\ phase[b] # "new"
         /\ shown[d] = {} => \A b \in Batches : Manifest[b].id = d => phase[b] = "new"
    /\ \A b \in Batches :
         /\ progress[b].running = Cardinality(Held(b))
         /\ progress[b].completed = Cardinality(Ended(b, "completed"))
         /\ progress[b].failed = Cardinality(Ended(b, "failed"))
         /\ Len(progress[b].runIds) = Cardinality(created[b])

\* The queue, the workers and the finished items never overlap: no two workers
\* get hold of the same item and no item is executed twice.  A batch that has
\* returned has dealt with every item, unless one that does not continue on error
\* failed; and nothing of it is still under way.
ItemsOnce ==
    \A b \in Batches :
        /\ \A v, w \in Worker(b) : worker[b][v] = worker[b][w] => v = w \/ worker[b][v] = 0
        /\ Held(b) \cap Waiting(b) = {}
        /\ \A i \in Held(b) \cup Waiting(b) : outcome[b][i] = "none"
        /\ Waiting(b) \cap created[b] = {}
        /\ phase[b] = "returned" =>
              /\ Held(b) = {} /\ Waiting(b) = {} /\ progress[b].running = 0
              /\ \/ progress[b].completed + progress[b].failed = Len(Manifest[b].items)
                 \/ Aborted(b)

\* After an item that does not continue on error has failed, whichever worker
\* had it, no worker starts another item.
StopsAfterFailure ==
    [][\A b \in Batches : Aborted(b)' => Waiting(b)' = {} /\ Held(b)' \subseteq Held(b)]_batchVars

\* The pool hands out by priority and, of the runs of one batch with equal priority, in
\* the order of enqueueing, also while another batch puts its runs between them; and
\* never to more slots than it has.
PoolOrdered ==
    /\ running <= Concurrency
    /\ \A m, n \in 1..Len(queue) :
           m < n => /\ ~ Pool!Before(queue[n], queue[m])
                    /\ queue[m][1] = queue[n][1] /\ ~ Pool!Before(queue[m], queue[n]) =>
                         LET ids == progress[queue[m][1]].runIds
                         IN  \E x, y \in 1..Len(ids) :
                                x < y /\ ids[x] = queue[m][2] /\ ids[y] = queue[n][2]

\* Every batch that was started returns to its client.
EveryBatchReturns == \A b \in Batches : phase[b] = "open" ~> phase[b] = "returned"
=============================================================================
