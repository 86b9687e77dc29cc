----------------------------- MODULE Scheduling -----------------------------
(***************************************************************************)
(* Job definitions, and the pure decisions the executor takes from a       *)
(* definition and the statuses of a run's tasks: JobDefinitionValidator,   *)
(* TaskScheduler, RetryHandler and the dead-letter threshold.              *)
(*                                                                         *)
(* A definition is a record                                                *)
(*   tasks       the task ids in the order the definition lists them       *)
(*   dependsOn   the ids each task waits for                               *)
(*   optional    the tasks marked optional                                 *)
(*   maxAttempts retryPolicy.maxAttempts                                   *)
(*   blocks      whether some constraint of severity "block" can hold:     *)
(*               what it evaluates to depends on the context and outputs   *)
(***************************************************************************)
EXTENDS Workflow, FiniteSetsExt

Definition ==
    [tasks       : Seq(TaskIds),
     dependsOn   : [TaskIds -> SUBSET TaskIds],
     optional    : SUBSET TaskIds,
     maxAttempts : Nat,
     blocks      : BOOLEAN]

TasksOf(d) == {d.tasks[i] : i \in 1..Len(d.tasks)}

-----------------------------------------------------------------------------
(* JobDefinitionValidator: validate, validateTask and the depth-first      *)
(* search of validateDependencyOrder, which throws exactly when the tasks  *)
(* have a dependency cycle: when some non-empty set of tasks has no member *)
(* that is free of dependencies inside the set.                            *)

Acyclic(d) ==
    \A S \in SUBSET TasksOf(d) :
        S # {} => \E t \in S : d.dependsOn[t] \cap S = {}

\* Faulty variant: validateDependencyOrder is not called.
ValidWithoutOrder(d) ==
    /\ d.tasks # << >>
    /\ \A i, j \in 1..Len(d.tasks) : d.tasks[i] = d.tasks[j] => i = j
    /\ \A t \in TasksOf(d) : d.dependsOn[t] \subseteq TasksOf(d) \ {t}
    /\ d.maxAttempts >= 1

ValidDefinition(d) ==
    /\ d.tasks # << >>
    /\ \A i, j \in 1..Len(d.tasks) : d.tasks[i] = d.tasks[j] => i = j
    /\ \A t \in TasksOf(d) : d.dependsOn[t] \subseteq TasksOf(d) \ {t}
    /\ d.maxAttempts >= 1
    /\ Acyclic(d)

-----------------------------------------------------------------------------
(* TaskScheduler over the task runs of a workflow.                         *)

\* Faulty variant: a dependency that has not failed counts as met.
DependenciesNotFailed(d, t, tasks) == \A u \in d.dependsOn[t] : tasks[u].status # "failed"

DependenciesMet(d, t, tasks) == \A u \in d.dependsOn[t] : IsDone(tasks[u].status)

\* Faulty variant: finished tasks are not skipped.
RunnableWithFinished(d, tasks) ==
    {i \in 1..Len(d.tasks) :
        /\ tasks[d.tasks[i]].status \notin {"running", "retrying"}
        /\ DependenciesMet(d, d.tasks[i], tasks)}

\* Faulty variant: failed tasks are skipped.
RunnableNotFailed(d, tasks) ==
    {i \in 1..Len(d.tasks) :
        /\ ~ IsDone(tasks[d.tasks[i]].status)
        /\ tasks[d.tasks[i]].status \notin {"running", "retrying", "failed"}
        /\ DependenciesMet(d, d.tasks[i], tasks)}

\* The positions of the definition's list that nextRunnable could return.
Runnable(d, tasks) ==
    {i \in 1..Len(d.tasks) :
        /\ ~ IsDone(tasks[d.tasks[i]].status)
        /\ tasks[d.tasks[i]].status \notin {"running", "retrying"}
        /\ DependenciesMet(d, d.tasks[i], tasks)}

\* nextRunnable returns the first of them in list order.
IsNextRunnable(i, d, tasks) ==
    i \in Runnable(d, tasks) /\ \A j \in Runnable(d, tasks) : i <= j

AllDone(d, tasks) == \A t \in TasksOf(d) \ d.optional : IsDone(tasks[t].status)

-----------------------------------------------------------------------------
(* RetryHandler.decide over shouldRetry, for a task whose attempt counter  *)
(* already includes the attempt that failed.                               *)

ShouldRetry(d, attempt) == attempt < d.maxAttempts

RetryDecision(d, taskRun) == ShouldRetry(d, taskRun.attempt + 1)

TotalAttempts(tasks) == MapThenSumSet(LAMBDA t : tasks[t].attempt, TaskIds)

\* The test before the dead_letter transition.
BudgetSpent(d, tasks) == TotalAttempts(tasks) >= d.maxAttempts * Len(d.tasks)
=============================================================================
