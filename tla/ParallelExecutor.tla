-------------------------- MODULE ParallelExecutor --------------------------
(***************************************************************************)
(* DagPlanner and ParallelTaskExecutor: the tasks are sorted into levels,  *)
(* and the tasks of a level are executed by parallel workers before the    *)
(* next level is begun, whatever their outcome.                            *)
(*                                                                         *)
(* The order inside a level is left open: workers take any task that is    *)
(* left.  A worker runs without interruption between two tasks.            *)
(***************************************************************************)
EXTENDS Naturals, Sequences, FiniteSets, FiniteSetsExt, Functions

CONSTANTS
    Tasks,             \* the task ids of the list that is planned
    Weight,            \* task -> timeoutMs, positive
    DependencyLists,   \* what dependsOn may be; it may name other ids, and one twice
    RunSets,           \* the tasks that have a TaskRun
    MaxConcurrency     \* options.maxConcurrency

ASSUME DagAssumption ==
    /\ IsFiniteSet(Tasks)
    /\ DependencyLists \subseteq Seq(STRING)
    /\ RunSets \subseteq SUBSET Tasks
    /\ MaxConcurrency \in Nat \ {0}

VARIABLES
    dependsOn,   \* task -> list of ids
    runs,        \* the tasks that have a TaskRun
    dagPc,       \* "plan", "run", "done", "rejected"
    levels,      \* DagPlan.levels, as far as they are found
    level,       \* number of the level under way
    batch,       \* tasks of the level no worker has taken yet
    executing,   \* tasks the workers are executing
    result       \* task -> status of the TaskRun returned

dagVars == <<dependsOn, runs, dagPc, levels, level, batch, executing, result>>

-----------------------------------------------------------------------------
(* DagPlanner.                                                             *)

Needs(t) == Range(dependsOn[t])

\* assertAcyclic throws when some tasks wait for one another.
Acyclic == \A S \in SUBSET Tasks : S # {} => \E t \in S : Needs(t) \cap S = {}

\* Faulty variant: a task is ready when one of its dependencies is planned.
ReadySoon(placed) == {t \in Tasks : dependsOn[t] = << >> \/ Needs(t) \cap placed # {}}

\* The tasks whose in-degree is down to zero once `placed` are planned.  It starts
\* as the length of the list and is counted down once per planned task.
Ready(placed) == {t \in Tasks : Len(dependsOn[t]) = Cardinality(Needs(t) \cap placed)}

\* The tasks of the levels found so far, and those of the next one.
Placed    == UNION Range(levels)
NextLevel == Ready(Placed) \ Placed

\* Faulty variant: a task is added to the first of its dependencies.
LongestFromFirst[t \in Tasks] ==
    IF Needs(t) \cap Tasks = {} THEN Weight[t]
    ELSE Weight[t] + LongestFromFirst[CHOOSE u \in Needs(t) \cap Tasks : TRUE]

\* longestFrom: cost of the heaviest chain that ends in t.
LongestFrom[t \in Tasks] ==
    Weight[t] + Max({0} \cup {LongestFrom[u] : u \in Needs(t) \cap Tasks})

\* Faulty variant: chains are followed by their first dependency only.
EstimateFirst == Max({0} \cup {LongestFromFirst[t] : t \in Tasks})

EstimatedMs == Max({0} \cup {LongestFrom[t] : t \in Tasks})

-----------------------------------------------------------------------------
(* ParallelTaskExecutor.                                                   *)

DagInit ==
    /\ dependsOn \in [Tasks -> DependencyLists]
    /\ runs \in RunSets
    /\ dagPc = "plan" /\ levels = << >> /\ level = 0
    /\ batch = {} /\ executing = {}
    /\ result = [t \in Tasks |-> "none"]

\* buildGraph throws.
RejectPlan ==
    /\ dagPc = "plan"
    /\ ~ Acyclic
    /\ dagPc' = "rejected"
    /\ UNCHANGED <<dependsOn, runs, levels, level, batch, executing, result>>

\* One turn of the loop in topologicalLevels.
PlanLevel ==
    /\ dagPc = "plan"
    /\ Acyclic
    /\ NextLevel # {}
    /\ levels' = Append(levels, NextLevel)
    /\ UNCHANGED <<dependsOn, runs, dagPc, level, batch, executing, result>>

\* Faulty variant: a level without a TaskRun ends the loop.
BeginLevelOrStop(n) ==
    IF n > Len(levels) \/ levels[n] \cap runs = {}
    THEN dagPc' = "done" /\ UNCHANGED <<level, batch, executing>>
    ELSE /\ dagPc' = "run" /\ level' = n
         /\ LET todo == levels[n] \cap runs
            IN  \E first \in kSubset(Min({MaxConcurrency, Cardinality(todo)}), todo) :
                   executing' = first /\ batch' = todo \ first

\* The head of the loop over the levels: tasks without a TaskRun are left out of
\* the level, and runBatch starts its workers, each with a task.
BeginLevel(n) ==
    IF n > Len(levels)
    THEN dagPc' = "done" /\ UNCHANGED <<level, batch, executing>>
    ELSE /\ dagPc' = "run" /\ level' = n
         /\ LET todo == levels[n] \cap runs
            IN  \E first \in kSubset(Min({MaxConcurrency, Cardinality(todo)}), todo) :
                   executing' = first /\ batch' = todo \ first

\* The plan is complete.
BeginRun ==
    /\ dagPc = "plan"
    /\ Acyclic
    /\ NextLevel = {}
    /\ BeginLevel(1)
    /\ UNCHANGED <<dependsOn, runs, levels, result>>

\* The worker that had t takes another task or ends.
WorkerDone(t) ==
    \/ /\ batch = {}
       /\ executing' = executing \ {t}
       /\ UNCHANGED batch
    \/ \E next \in batch :
          /\ executing' = (executing \ {t}) \cup {next}
          /\ batch' = batch \ {next}

\* TaskExecutor.run resolves with the new TaskRun, whichever way the task ended.
TaskEnds(t, status) ==
    /\ t \in executing
    /\ result' = [result EXCEPT ![t] = status]
    /\ WorkerDone(t)
    /\ UNCHANGED <<dependsOn, runs, dagPc, levels, level>>

ExecuteTask == \E t \in Tasks, status \in {"succeeded", "failed", "retrying"} : TaskEnds(t, status)

\* Faulty variant: the next level is begun when every task of this one was taken.
LevelEndsEarly ==
    /\ dagPc = "run"
    /\ batch = {} /\ (executing = {} \/ level < Len(levels))
    /\ BeginLevel(level + 1)
    /\ UNCHANGED <<dependsOn, runs, levels, result>>

\* Promise.all in runBatch: every worker has ended.
LevelEnds ==
    /\ dagPc = "run"
    /\ executing = {}
    /\ BeginLevel(level + 1)
    /\ UNCHANGED <<dependsOn, runs, levels, result>>

DagNext == RejectPlan \/ PlanLevel \/ BeginRun \/ ExecuteTask \/ LevelEnds

DagSpec == DagInit /\ [][DagNext]_dagVars

-----------------------------------------------------------------------------
(* Properties.                                                             *)

\* The chains of tasks in which each waits for the one before it.
Chains ==
    {c \in UNION {[1..n -> Tasks] : n \in 1..Cardinality(Tasks)} :
        \A i \in 1..(Len(c) - 1) : c[i] \in Needs(c[i + 1])}

ChainsTo(t) == {c \in Chains : c[Len(c)] = t}

\* Tasks whose own list, or that of a task they wait for, names an id that is not
\* planned or one twice: the planner has no level for them.
Unplannable ==
    {t \in Tasks : \E c \in ChainsTo(t) :
        \/ ~ Needs(c[1]) \subseteq Tasks
        \/ Len(dependsOn[c[1]]) # Cardinality(Needs(c[1]))}

\* A task is planned for the level that is the length of the longest chain to it:
\* after all it waits for, and not later than necessary.
LevelsAreRight ==
    \A t \in Tasks \ Unplannable :
        LET n == Max({Len(c) : c \in ChainsTo(t)})
        IN  n \in DOMAIN levels /\ t \in levels[n]

\* A plan that is executed has the right levels, and its estimated time is the
\* weight of the heaviest chain.
PlanIsRight ==
    dagPc \in {"run", "done"} =>
        /\ LevelsAreRight
        /\ EstimatedMs = Max({SumFunction([i \in DOMAIN c |-> Weight[c[i]]]) : c \in Chains})

\* A task is begun once, and only when every task it waits for has been executed,
\* however the workers of the level overlap; at most MaxConcurrency are under way.
BegunAfterNeeds ==
    /\ Cardinality(executing) <= MaxConcurrency
    /\ \A t \in executing :
         result[t] = "none" /\ \A u \in Needs(t) \cap runs : result[u] # "none"

\* When it is done all tasks that can be planned and have a TaskRun were executed,
\* and no others.
DoneMeansExecuted ==
    dagPc = "done" => {t \in Tasks : result[t] # "none"} = runs \ Unplannable
=============================================================================
