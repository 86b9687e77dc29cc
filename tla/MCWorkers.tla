----------------------------- MODULE MCWorkers ------------------------------
(***************************************************************************)
(* Small instances of the five components that overlap or repeat work in   *)
(* one process: the circuit breaker, the batch coordinator with its pool,  *)
(* the saga coordinator, the parallel executor and the cron ticker.        *)
(*                                                                         *)
(* They share no state, so a behaviour of the five together is any         *)
(* interleaving of behaviours of each, and a property of one of them holds *)
(* of all if it holds of that one alone.  `part` says which of them this   *)
(* behaviour is about; the others stay in one of their initial states.     *)
(***************************************************************************)
EXTENDS CircuitBreaker, Batch, Saga, ParallelExecutor, MCCron

VARIABLE part    \* the component that is running

allVars == <<part, vars, batchVars, sagaVars, dagVars, cronVars>>

-----------------------------------------------------------------------------
(* One batch with more items than workers, where one item stops the batch  *)
(* when it fails, and one with more workers than items.  They have the     *)
(* same manifest id (the file was edited in between) and their runs meet   *)
(* in the pool.                                                            *)

Normal == [priority |-> 5,  continueOnError |-> TRUE]
Urgent == [priority |-> 10, continueOnError |-> FALSE]

TheItems == [wide |-> <<Normal, Urgent, Normal>>, narrow |-> <<Normal>>]

TheBatches  == DOMAIN TheItems
TheManifest == [m \in TheBatches |-> [id |-> "m", maxParallel |-> 2, items |-> TheItems[m]]]

(* All sagas of up to three steps, with every combination of missing and   *)
(* registered handlers.                                                    *)

TheDefinitions == UNION {[1..n -> SagaStep] : n \in 0..3}

(* All graphs of three tasks whose lists of dependencies have up to two    *)
(* entries, repeated ones included, or name a task that is not there.      *)
(* Every task has a TaskRun, or one was added to the list later.           *)

TheTasks == {"a", "b", "c"}

TheLists == UNION {[1..n -> TheTasks] : n \in 0..2} \cup {<<"gone">>}

TheWeight == [a |-> 2, b |-> 3, c |-> 4]

TheRunSets == {TheTasks, TheTasks \ {"a"}}

-----------------------------------------------------------------------------
\* A component that is not the one running waits in a fixed initial state.
MCInit ==
    /\ part \in {"breaker", "batch", "saga", "dag", "cron"}
    /\ part # "saga" => def = << >>
    /\ part # "dag" => dependsOn = [t \in TheTasks |-> << >>] /\ runs = TheTasks
    /\ Init /\ BatchInit /\ SagaInit /\ DagInit /\ CronInit

\* A plan that was executed or refused is the end of the planner's behaviour.
PlanEnded == part = "dag" /\ dagPc \in {"done", "rejected"} /\ UNCHANGED allVars

MCNext ==
    \/ part = "breaker" /\ Next      /\ UNCHANGED <<part, batchVars, sagaVars, dagVars, cronVars>>
    \/ part = "batch"   /\ BatchNext /\ UNCHANGED <<part, vars, sagaVars, dagVars, cronVars>>
    \/ part = "saga"    /\ SagaNext  /\ UNCHANGED <<part, vars, batchVars, dagVars, cronVars>>
    \/ part = "dag"     /\ DagNext   /\ UNCHANGED <<part, vars, batchVars, sagaVars, cronVars>>
    \/ part = "cron"    /\ CronNext  /\ UNCHANGED <<part, vars, batchVars, sagaVars, dagVars>>
    \/ PlanEnded

\* The fairness of CircuitBreaker, Batch and Cron, for the behaviours that are theirs.
MCFairness ==
    /\ WF_vars(part = "breaker" /\ TimePasses)
    /\ \A i \in Invocations :
         /\ WF_vars(part = "breaker" /\ Invoke(i))
         /\ WF_vars(part = "breaker" /\ (Succeed(i) \/ Fail(i)))
    /\ \A b \in Batches :
         WF_batchVars(part = "batch" /\ (WorkerStep(b) \/ ReturnBatch(b)))
    /\ WF_cronVars(part = "cron" /\ Tick)
    /\ WF_cronVars(part = "cron" /\ Trigger)

MCSpec == MCInit /\ [][MCNext]_allVars /\ MCFairness
=============================================================================
