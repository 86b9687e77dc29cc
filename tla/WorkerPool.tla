---------------------------- MODULE WorkerPool ------------------------------
(***************************************************************************)
(* The priority queue of runs and the slots of WorkerPool.  Every method   *)
(* is synchronous, so each is one action.                                  *)
(***************************************************************************)
EXTENDS Naturals, Sequences, FiniteSets

CONSTANTS
    Items,         \* the QueuedRuns that may be enqueued
    Priority,      \* RunPriority of an item
    Concurrency    \* the number of slots

VARIABLES
    queue,         \* the waiting items
    running        \* occupied slots

poolVars == <<queue, running>>

PoolInit == queue = << >> /\ running = 0

\* comparePriority: the greater number comes first.
Before(x, y) == Priority[x] > Priority[y]

\* Faulty variant: the queue is not sorted.
Unsorted(p, s) == \A i, j \in DOMAIN s : i < j => p[i] < p[j]

\* Array.prototype.sort is stable.  s[p[1]], s[p[2]], ... is s sorted: an element
\* precedes another if it comes before it in the order, or if neither does and it
\* stood before it.
SortsStably(p, s) ==
    \A i, j \in DOMAIN s :
        i < j => \/ Before(s[p[i]], s[p[j]])
                 \/ ~ Before(s[p[j]], s[p[i]]) /\ p[i] < p[j]

Enqueue(item) ==
    LET s == Append(queue, item)
    IN  /\ \E p \in [DOMAIN s -> DOMAIN s] :
              SortsStably(p, s) /\ queue' = [k \in DOMAIN s |-> s[p[k]]]
        /\ UNCHANGED running

CanAccept == running < Concurrency

\* start hands out the first item; otherwise it returns undefined.
Start ==
    /\ CanAccept
    /\ queue # << >>
    /\ running' = running + 1
    /\ queue' = Tail(queue)

Complete ==
    /\ running' = IF running > 0 THEN running - 1 ELSE 0
    /\ UNCHANGED queue
=============================================================================
