----------------------------- MODULE Execution ------------------------------
(***************************************************************************)
(* The execution core of the engine: WorkflowService.createRun,            *)
(* ExecutionService.executeRun, WorkflowOrchestrator.applyTransition,      *)
(* TaskExecutor.run, the two run locks and the in-memory stores.           *)
(*                                                                         *)
(* The process is single threaded and asynchronous.  A call (an element of *)
(* Calls) is one activation of createRun/executeRun on behalf of a route,  *)
(* the cron ticker or a batch.  Code between two awaits runs without       *)
(* interruption and is one action; at every await any other call may go    *)
(* on.  The stores hand out references, and the code replaces workflows    *)
(* instead of changing them, so a call works on the copy it has read or    *)
(* last saved: that is workflow[c], next to workflowStore[r].              *)
(*                                                                         *)
(* A rejected executeRun is answered with an error where it is awaited     *)
(* (/runs/:id/execute, replay, the batch coordinator).  Where the caller   *)
(* dropped the promise (`void execution.executeRun`, after a POST to       *)
(* /jobs/:id/runs) nobody handles the rejection and Node ends the process: *)
(* every store is in memory and is lost with it.                           *)
(***************************************************************************)
EXTENDS Scheduling

CONSTANTS
    Runs,          \* the run ids newRunId may draw
    Jobs,          \* the job ids
    Calls,         \* activations that can be open at the same time
    Candidates,    \* the definitions clients post to be registered
    None           \* undefined: no such definition, run, job or task

ASSUME CandidatesAssumption == Candidates \subseteq Definition

ASSUME NoneAssumption ==
    None \notin Candidates /\ None \notin Runs /\ None \notin Jobs /\ None \notin TaskIds

VARIABLES
    jobStore,      \* job id -> definition
    workflowStore, \* run id -> workflow instance
    runStore,      \* run id -> the JobRun's job, status and finishedAt
    deadLetters,   \* the entries of the dead-letter store, oldest first
    localLocks,    \* ExecutionService.localLocks
    runLocks,      \* RunLockRegistry: run id -> owner
    crashed,       \* an unhandled rejection has ended the process
    pc,            \* where each call is waiting
    mode,          \* whether anybody awaits the call
    callJob,       \* the job a creating call was given
    callRun,       \* the run a call works on
    definition,    \* the call's local `definition`
    workflow,      \* the call's local `workflow`
    current        \* the task whose handler the call is waiting for

stores == <<jobStore, workflowStore, runStore, deadLetters>>
locks  == <<localLocks, runLocks>>
locals == <<mode, callJob, callRun, definition, workflow, current>>
vars   == <<stores, locks, crashed, pc, locals>>

-----------------------------------------------------------------------------
Owner   == "execution-service"
NoOwner == "nobody"

\* "void": the promise is dropped.  "await": a rejection is caught.
Modes == {"void", "await"}

Creating  == {"create", "saveWorkflow", "saveRun"}
\* Inside the try block of executeRun, the locks held.
Executing == {"readRun", "readDefinition", "readWorkflow", "start", "loop",
              "task", "backoff", "fail", "mirror", "settle", "push"}
\* After `workflow` was read.
Working   == Executing \ {"readRun", "readDefinition", "readWorkflow"}

Locations == {"idle", "enter"} \cup Creating \cup Executing

JobRun == [job : Jobs \cup {None}, status : States \cup {Absent}, finished : BOOLEAN]

NoRun == [job |-> None, status |-> Absent, finished |-> FALSE]

Init ==
    /\ jobStore = [j \in Jobs |-> None]
    /\ workflowStore = [r \in Runs |-> NoWorkflow]
    /\ runStore = [r \in Runs |-> NoRun]
    /\ deadLetters = << >>
    /\ localLocks = {}
    /\ runLocks = [r \in Runs |-> NoOwner]
    /\ crashed = FALSE
    /\ pc = [c \in Calls |-> "idle"]
    /\ mode = [c \in Calls |-> "await"]
    /\ callJob = [c \in Calls |-> None]
    /\ callRun = [c \in Calls |-> None]
    /\ definition = [c \in Calls |-> None]
    /\ workflow = [c \in Calls |-> NoWorkflow]
    /\ current = [c \in Calls |-> None]

-----------------------------------------------------------------------------
(* Ways in which a call goes on.                                           *)

GoTo(c, l) == pc' = [pc EXCEPT ![c] = l]

\* The frame of a finished call is gone.
Leave(c) ==
    /\ GoTo(c, "idle")
    /\ mode' = [mode EXCEPT ![c] = "await"]
    /\ callJob' = [callJob EXCEPT ![c] = None]
    /\ callRun' = [callRun EXCEPT ![c] = None]
    /\ definition' = [definition EXCEPT ![c] = None]
    /\ workflow' = [workflow EXCEPT ![c] = NoWorkflow]
    /\ current' = [current EXCEPT ![c] = None]

\* The finally block of executeRun.
ReleaseLocks(c) ==
    /\ localLocks' = localLocks \ {callRun[c]}
    /\ runLocks' = IF runLocks[callRun[c]] = Owner
                   THEN [runLocks EXCEPT ![callRun[c]] = NoOwner]
                   ELSE runLocks

\* executeRun resolves, or rejects; either way finally has run.
Return(c) == Leave(c) /\ ReleaseLocks(c) /\ UNCHANGED crashed

\* Faulty variant: no finally block, an exception leaves the locks taken.
ThrowKeepingLocks(c) == Leave(c) /\ crashed' = (mode[c] = "void") /\ UNCHANGED locks

Throw(c) == Leave(c) /\ ReleaseLocks(c) /\ crashed' = (mode[c] = "void")

\* orchestrator.applyTransition up to its first await: the guard and the state
\* machine, then the workflow is saved.  The run follows in Mirror.
ApplyTransition(c, event, target) ==
    LET next == Transition(workflow[c], event, target)
    IN  IF TransitionAllowed(workflow[c], event, target)
        THEN /\ workflow' = [workflow EXCEPT ![c] = next]
             /\ workflowStore' = [workflowStore EXCEPT ![callRun[c]] = next]
             /\ GoTo(c, "mirror")
             /\ UNCHANGED <<locks, crashed, mode, callJob, callRun, definition, current>>
        ELSE Throw(c) /\ UNCHANGED workflowStore

\* Faulty variant: the caller goes on with the workflow from before the save.
UpdateTaskNotKept(c, t, taskRun) ==
    /\ workflowStore' = [workflowStore EXCEPT
                            ![callRun[c]] = [workflow[c] EXCEPT !.tasks[t] = taskRun]]
    /\ UNCHANGED workflow

\* updateTask: the workflow with one task replaced is saved and kept.
UpdateTask(c, t, taskRun) ==
    LET updated == [workflow[c] EXCEPT !.tasks[t] = taskRun]
    IN  /\ workflow' = [workflow EXCEPT ![c] = updated]
        /\ workflowStore' = [workflowStore EXCEPT ![callRun[c]] = updated]

-----------------------------------------------------------------------------
(* Clients.                                                                *)

\* POST /jobs: JobService.register validates and overwrites by id.
Register(j, d) ==
    /\ ValidDefinition(d)
    /\ jobStore' = [jobStore EXCEPT ![j] = d]
    /\ UNCHANGED <<workflowStore, runStore, deadLetters, locks, crashed, pc, locals>>

\* Run ids are random: nobody else has or asks for an id when it is drawn.
FreshRun(r) ==
    /\ workflowStore[r].state = Absent
    /\ \A c \in Calls : callRun[c] # r

\* POST /jobs/:id/runs (mode "void"), or a batch item (mode "await").  The id
\* createRun will draw is fixed here; nothing sees it before SaveWorkflow.
RequestRun(c, j, r, m) ==
    /\ pc[c] = "idle"
    /\ FreshRun(r)
    /\ GoTo(c, "create")
    /\ mode' = [mode EXCEPT ![c] = m]
    /\ callJob' = [callJob EXCEPT ![c] = j]
    /\ callRun' = [callRun EXCEPT ![c] = r]
    /\ UNCHANGED <<stores, locks, crashed, definition, workflow, current>>

\* POST /runs/:id/execute or /v2/runs/:id/replay, of a known or an unknown run.
RequestExecute(c, r) ==
    /\ pc[c] = "idle"
    /\ runStore[r].status # Absent \/ FreshRun(r)
    /\ GoTo(c, "enter")
    /\ callRun' = [callRun EXCEPT ![c] = r]
    /\ UNCHANGED <<stores, locks, crashed, mode, callJob, definition, workflow, current>>

-----------------------------------------------------------------------------
(* WorkflowService.createRun.                                              *)

\* The definition is read; NotFoundError answers the request when there is none.
\* Otherwise the workflow is built from it.
Create(c) ==
    /\ pc[c] = "create"
    /\ \/ /\ jobStore[callJob[c]] = None
          /\ Leave(c)
       \/ /\ jobStore[callJob[c]] # None
          /\ workflow' = [workflow EXCEPT ![c] = NewWorkflow(TasksOf(jobStore[callJob[c]]))]
          /\ GoTo(c, "saveWorkflow")
          /\ UNCHANGED <<mode, callJob, callRun, definition, current>>
    /\ UNCHANGED <<stores, locks, crashed>>

SaveWorkflow(c) ==
    /\ pc[c] = "saveWorkflow"
    /\ workflowStore' = [workflowStore EXCEPT ![callRun[c]] = workflow[c]]
    /\ GoTo(c, "saveRun")
    /\ UNCHANGED <<jobStore, runStore, deadLetters, locks, crashed, locals>>

\* The run is saved and the caller goes on to executeRun.
SaveRun(c) ==
    /\ pc[c] = "saveRun"
    /\ runStore' = [runStore EXCEPT ![callRun[c]] =
                       [job |-> callJob[c], status |-> "pending", finished |-> FALSE]]
    /\ workflow' = [workflow EXCEPT ![c] = NoWorkflow]
    /\ GoTo(c, "enter")
    /\ UNCHANGED <<jobStore, workflowStore, deadLetters, locks, crashed,
                   mode, callJob, callRun, definition, current>>

-----------------------------------------------------------------------------
(* ExecutionService.executeRun.                                            *)

\* Faulty variant: the call waits for the lock instead of returning.
WaitForExecutor(c) ==
    /\ pc[c] = "enter"
    /\ callRun[c] \in localLocks
    /\ UNCHANGED vars

\* Lines 36-39: the run is being executed in this process already.
AlreadyExecuting(c) ==
    /\ pc[c] = "enter"
    /\ callRun[c] \in localLocks
    /\ Leave(c)
    /\ UNCHANGED <<stores, locks, crashed>>

\* Faulty variant: only the re-entrant registry guards the run.
AcquireRegistryOnly(c) ==
    /\ pc[c] = "enter"
    /\ localLocks' = localLocks \cup {callRun[c]}
    /\ runLocks' = [runLocks EXCEPT ![callRun[c]] = Owner]
    /\ GoTo(c, "readRun")
    /\ UNCHANGED <<stores, locals, crashed>>

\* Lines 40-42.  acquire is re-entrant for its owner; it would throw for
\* another one, outside the try block, leaving the local lock taken.
AcquireLocks(c) ==
    /\ pc[c] = "enter"
    /\ callRun[c] \notin localLocks
    /\ localLocks' = localLocks \cup {callRun[c]}
    /\ IF runLocks[callRun[c]] \in {NoOwner, Owner}
       THEN /\ runLocks' = [runLocks EXCEPT ![callRun[c]] = Owner]
            /\ GoTo(c, "readRun")
            /\ UNCHANGED <<locals, crashed>>
       ELSE /\ Leave(c)
            /\ crashed' = (mode[c] = "void")
            /\ UNCHANGED runLocks
    /\ UNCHANGED stores

ReadRun(c) ==
    /\ pc[c] = "readRun"
    /\ \/ /\ runStore[callRun[c]].status = Absent
          /\ Throw(c)
       \/ /\ runStore[callRun[c]].status # Absent
          /\ GoTo(c, "readDefinition")
          /\ UNCHANGED <<locks, crashed, locals>>
    /\ UNCHANGED stores

ReadDefinition(c) ==
    /\ pc[c] = "readDefinition"
    /\ LET d == jobStore[runStore[callRun[c]].job]
       IN  IF d = None
           THEN Throw(c)
           ELSE /\ definition' = [definition EXCEPT ![c] = d]
                /\ GoTo(c, "readWorkflow")
                /\ UNCHANGED <<locks, crashed, mode, callJob, callRun, workflow, current>>
    /\ UNCHANGED stores

ReadWorkflow(c) ==
    /\ pc[c] = "readWorkflow"
    /\ LET wf == workflowStore[callRun[c]]
       IN  IF wf.state = Absent
           THEN Throw(c)
           ELSE /\ workflow' = [workflow EXCEPT ![c] = wf]
                /\ GoTo(c, "start")
                /\ UNCHANGED <<locks, crashed, mode, callJob, callRun, definition, current>>
    /\ UNCHANGED stores

\* orchestrator.startRun: only a pending workflow is started.
Start(c) ==
    /\ pc[c] = "start"
    /\ \/ /\ workflow[c].state = "pending"
          /\ ApplyTransition(c, "start", "running")
       \/ /\ workflow[c].state # "pending"
          /\ GoTo(c, "loop")
          /\ UNCHANGED <<workflowStore, locks, crashed, locals>>
    /\ UNCHANGED <<jobStore, runStore, deadLetters>>

\* Faulty variant: the run is written only when it finishes.
MirrorTerminalOnly(c) ==
    LET target == workflow[c].state
    IN  /\ pc[c] = "mirror"
        /\ runStore' = IF IsTerminal(target)
                       THEN [runStore EXCEPT ![callRun[c]].status = target,
                                             ![callRun[c]].finished = TRUE]
                       ELSE runStore
        /\ GoTo(c, CASE target = "running"       -> "loop"
                     [] target = "dead_lettered" -> "push"
                     [] OTHER                    -> "settle")
        /\ UNCHANGED <<jobStore, workflowStore, deadLetters, locks, crashed, locals>>

\* The rest of applyTransition: the stored JobRun follows the workflow.  What
\* executeRun does next depends on the state it asked for.
Mirror(c) ==
    LET target == workflow[c].state
    IN  /\ pc[c] = "mirror"
        /\ runStore' = [runStore EXCEPT ![callRun[c]].status = target,
                                        ![callRun[c]].finished = @ \/ IsTerminal(target)]
        /\ GoTo(c, CASE target = "running"       -> "loop"
                     [] target = "dead_lettered" -> "push"
                     [] OTHER                    -> "settle")
        /\ UNCHANGED <<jobStore, workflowStore, deadLetters, locks, crashed, locals>>

\* Faulty variant: the started task is not remembered.
DispatchForgetful(c) ==
    /\ pc[c] = "loop"
    /\ workflow[c].state = "running"
    /\ Runnable(definition[c], workflow[c].tasks) # {}
    /\ GoTo(c, "task")
    /\ UNCHANGED <<stores, locks, crashed, locals>>

\* Faulty variant: the loop is entered in every state of the workflow.
DispatchInAnyState(c) ==
    /\ pc[c] = "loop"
    /\ \E i \in Runnable(definition[c], workflow[c].tasks) :
          /\ IsNextRunnable(i, definition[c], workflow[c].tasks)
          /\ current' = [current EXCEPT ![c] = definition[c].tasks[i]]
    /\ GoTo(c, "task")
    /\ UNCHANGED <<stores, locks, crashed, mode, callJob, callRun, definition, workflow>>

\* The head of the while loop, a task to run: its handler is started.  A task
\* that a later registration added has no TaskRun in this workflow, and reading
\* its attempt counter throws.
Dispatch(c) ==
    /\ pc[c] = "loop"
    /\ workflow[c].state = "running"
    /\ \E i \in Runnable(definition[c], workflow[c].tasks) :
          /\ IsNextRunnable(i, definition[c], workflow[c].tasks)
          /\ LET t == definition[c].tasks[i]
             IN  \/ /\ workflow[c].tasks[t].status = Absent
                    /\ Throw(c)
                 \/ /\ workflow[c].tasks[t].status # Absent
                    /\ current' = [current EXCEPT ![c] = t]
                    /\ GoTo(c, "task")
                    /\ UNCHANGED <<locks, crashed, mode, callJob, callRun, definition, workflow>>
    /\ UNCHANGED stores

\* The head of the while loop, nothing to run: the constraints are applied and
\* the run is completed when the required tasks are done; otherwise it waits.
Conclude(c) ==
    /\ pc[c] = "loop"
    /\ workflow[c].state = "running"
    /\ Runnable(definition[c], workflow[c].tasks) = {}
    /\ LET done == AllDone(definition[c], workflow[c].tasks)
       IN  \/ /\ done /\ definition[c].blocks
              /\ Throw(c) /\ UNCHANGED workflowStore
           \/ ApplyTransition(c, IF done THEN "complete" ELSE "await",
                                 IF done THEN "completed" ELSE "waiting")
    /\ UNCHANGED <<jobStore, runStore, deadLetters>>

\* The workflow is not (or no longer) running: the loop is not entered.
SkipLoop(c) ==
    /\ pc[c] = "loop"
    /\ workflow[c].state # "running"
    /\ GoTo(c, "settle")
    /\ UNCHANGED <<stores, locks, crashed, locals>>

\* TaskExecutor.run resolves and updateTask saves the outcome.  The handler's
\* result is up to the handler.
TaskSucceeds(c) ==
    /\ pc[c] = "task"
    /\ UpdateTask(c, current[c], [status  |-> "succeeded",
                                  attempt |-> workflow[c].tasks[current[c]].attempt + 1])
    /\ current' = [current EXCEPT ![c] = None]
    /\ GoTo(c, "loop")
    /\ UNCHANGED <<jobStore, runStore, deadLetters, locks, crashed,
                   mode, callJob, callRun, definition>>

\* Faulty variant: the run is not failed after the last attempt.
TaskFailsUnnoticed(c) ==
    /\ pc[c] = "task"
    /\ UpdateTask(c, current[c], [status  |-> "failed",
                                  attempt |-> workflow[c].tasks[current[c]].attempt + 1])
    /\ GoTo(c, "loop")
    /\ UNCHANGED <<jobStore, runStore, deadLetters, locks, crashed,
                   mode, callJob, callRun, definition, current>>

\* handleFailure: the retry decision sees the attempt that just failed.
TaskFails(c) ==
    /\ pc[c] = "task"
    /\ LET attempt == workflow[c].tasks[current[c]].attempt + 1
           retry   == RetryDecision(definition[c], [status |-> "failed", attempt |-> attempt])
       IN  /\ UpdateTask(c, current[c],
                         [status |-> IF retry THEN "retrying" ELSE "failed", attempt |-> attempt])
           /\ GoTo(c, IF retry THEN "backoff" ELSE "fail")
    /\ UNCHANGED <<jobStore, runStore, deadLetters, locks, crashed,
                   mode, callJob, callRun, definition, current>>

\* Faulty variant: the task keeps the status "retrying".
RequeueNothing(c) ==
    /\ pc[c] = "backoff"
    /\ current' = [current EXCEPT ![c] = None]
    /\ GoTo(c, "loop")
    /\ UNCHANGED <<stores, locks, crashed, mode, callJob, callRun, definition, workflow>>

\* The backoff timer fires: the task is queued again.
Requeue(c) ==
    /\ pc[c] = "backoff"
    /\ UpdateTask(c, current[c], [workflow[c].tasks[current[c]] EXCEPT !.status = "queued"])
    /\ current' = [current EXCEPT ![c] = None]
    /\ GoTo(c, "loop")
    /\ UNCHANGED <<jobStore, runStore, deadLetters, locks, crashed,
                   mode, callJob, callRun, definition>>

FailRun(c) ==
    /\ pc[c] = "fail"
    /\ ApplyTransition(c, "fail", "failed")
    /\ UNCHANGED <<jobStore, runStore, deadLetters>>

\* Faulty variant: the payload is stored without the dead_letter transition.
SettleWithoutTransition(c) ==
    /\ pc[c] = "settle"
    /\ LET exhausted == /\ workflow[c].state = "failed"
                        /\ BudgetSpent(definition[c], workflow[c].tasks)
       IN  \/ /\ exhausted /\ GoTo(c, "push")
              /\ UNCHANGED <<workflowStore, locks, crashed, locals>>
           \/ ~ exhausted /\ Return(c) /\ UNCHANGED workflowStore
    /\ UNCHANGED <<jobStore, runStore, deadLetters>>

\* Lines 117-131: a failed run that has spent its budget is dead-lettered.
Settle(c) ==
    /\ pc[c] = "settle"
    /\ LET exhausted == /\ workflow[c].state = "failed"
                        /\ BudgetSpent(definition[c], workflow[c].tasks)
       IN  \/ exhausted /\ ApplyTransition(c, "dead_letter", "dead_lettered")
           \/ ~ exhausted /\ Return(c) /\ UNCHANGED workflowStore
    /\ UNCHANGED <<jobStore, runStore, deadLetters>>

Push(c) ==
    /\ pc[c] = "push"
    /\ deadLetters' = Append(deadLetters, callRun[c])
    /\ Return(c)
    /\ UNCHANGED <<jobStore, workflowStore, runStore>>

-----------------------------------------------------------------------------
\* The process is started again after an unhandled rejection ended it.
Restart ==
    /\ crashed
    /\ jobStore' = [j \in Jobs |-> None]
    /\ workflowStore' = [r \in Runs |-> NoWorkflow]
    /\ runStore' = [r \in Runs |-> NoRun]
    /\ deadLetters' = << >>
    /\ localLocks' = {}
    /\ runLocks' = [r \in Runs |-> NoOwner]
    /\ crashed' = FALSE
    /\ pc' = [c \in Calls |-> "idle"]
    /\ mode' = [c \in Calls |-> "await"]
    /\ callJob' = [c \in Calls |-> None]
    /\ callRun' = [c \in Calls |-> None]
    /\ definition' = [c \in Calls |-> None]
    /\ workflow' = [c \in Calls |-> NoWorkflow]
    /\ current' = [c \in Calls |-> None]

\* What the event loop and the timers do for a call that was accepted.
CallStep(c) ==
    \/ Create(c) \/ SaveWorkflow(c) \/ SaveRun(c)
    \/ AlreadyExecuting(c) \/ AcquireLocks(c)
    \/ ReadRun(c) \/ ReadDefinition(c) \/ ReadWorkflow(c)
    \/ Start(c) \/ Mirror(c)
    \/ Dispatch(c) \/ Conclude(c) \/ SkipLoop(c)
    \/ TaskSucceeds(c) \/ TaskFails(c) \/ Requeue(c)
    \/ FailRun(c) \/ Settle(c) \/ Push(c)

Request ==
    \/ \E j \in Jobs, d \in Candidates : Register(j, d)
    \/ \E c \in Calls, j \in Jobs, r \in Runs, m \in Modes : RequestRun(c, j, r, m)
    \/ \E c \in Calls, r \in Runs : RequestExecute(c, r)

Next ==
    \/ ~ crashed /\ Request
    \/ ~ crashed /\ \E c \in Calls : CallStep(c)
    \/ Restart

Fairness == \A c \in Calls : WF_vars(~ crashed /\ CallStep(c))

Spec == Init /\ [][Next]_vars

FairSpec == Spec /\ Fairness
-----------------------------------------------------------------------------
(* Properties.                                                             *)

\* Every variable holds a value of the kind the code gives it; in particular a
\* call that works on a run has a definition, and one with a running handler
\* a task of the workflow.
TypeOK ==
    /\ jobStore \in [Jobs -> Candidates \cup {None}]
    /\ workflowStore \in [Runs -> WorkflowInstance]
    /\ runStore \in [Runs -> JobRun]
    /\ deadLetters \in Seq(Runs)
    /\ localLocks \subseteq Runs
    /\ runLocks \in [Runs -> {Owner, NoOwner}]
    /\ crashed \in BOOLEAN
    /\ pc \in [Calls -> Locations]
    /\ mode \in [Calls -> Modes]
    /\ callJob \in [Calls -> Jobs \cup {None}]
    /\ callRun \in [Calls -> Runs \cup {None}]
    /\ definition \in [Calls -> Candidates \cup {None}]
    /\ workflow \in [Calls -> WorkflowInstance]
    /\ current \in [Calls -> TaskIds \cup {None}]
    /\ \A c \in Calls :
         /\ pc[c] # "idle" => callRun[c] \in Runs
         /\ pc[c] \in Creating => callJob[c] \in Jobs
         /\ pc[c] \in Working \cup {"readWorkflow"} => definition[c] \in Candidates
         /\ pc[c] \in {"task", "backoff"} => current[c] \in TaskIds

\* Two overlapping executeRun calls never work on the same run: the second one
\* finds the local lock, whatever the order of their awaits.
OneExecutorPerRun ==
    \A c1, c2 \in Calls :
        /\ c1 # c2
        /\ pc[c1] \in Executing /\ pc[c2] \in Executing
        => callRun[c1] # callRun[c2]

\* Both locks are held exactly while some executeRun is inside its try block, so
\* no return, throw or early exit leaks a lock and makes a run unexecutable.
LocksMatchExecutors ==
    /\ localLocks = {callRun[c] : c \in {d \in Calls : pc[d] \in Executing}}
    /\ \A r \in Runs : runLocks[r] = Owner <=> r \in localLocks

\* The local lock and the lock registry together: a run is locked exactly while
\* one executeRun, and only one, works on it.
RunsAreLocked == OneExecutorPerRun /\ LocksMatchExecutors

\* The copy of the workflow an executing call carries across its awaits is what
\* the store holds: saving it again never undoes somebody else's update.
NoLostUpdate ==
    \A c \in Calls : pc[c] \in Working => workflowStore[callRun[c]] = workflow[c]

\* A handler runs only after every task it depends on has been recorded, in the
\* store, as succeeded or skipped.
DependenciesFirst ==
    \A c \in Calls :
        pc[c] = "task" =>
            \A u \in definition[c].dependsOn[current[c]] :
                IsDone(workflowStore[callRun[c]].tasks[u].status)

\* The JobRun that the API lists shows the state of the workflow, except while
\* applyTransition is between its two saves, and it has a finish time exactly
\* when its status is terminal; and a failed task ends its run: past the fail
\* transition no workflow with a failed task is still running or completed.
StatusFollowsWorkflow ==
    \A r \in Runs :
        runStore[r].status # Absent =>
            /\ \/ runStore[r].status = workflowStore[r].state
               \/ \E c \in Calls : pc[c] = "mirror" /\ callRun[c] = r
            /\ runStore[r].finished <=> IsTerminal(runStore[r].status)
            /\ (\E t \in TaskIds : workflowStore[r].tasks[t].status = "failed") =>
                  \/ workflowStore[r].state \in {"failed", "dead_lettered"}
                  \/ \E c \in Calls : pc[c] = "fail" /\ callRun[c] = r

\* A completed run has no task left undone, even when the job was registered
\* again with other tasks while the run was under way.
CompletedMeansDone ==
    \A r \in Runs :
        workflowStore[r].state = "completed" =>
            \A t \in TaskIds : \/ workflowStore[r].tasks[t].status = Absent
                               \/ IsDone(workflowStore[r].tasks[t].status)

\* The validator keeps runs from stalling: with an acyclic definition there is a
\* task to run until all are done, so no run is parked in "waiting", which
\* nothing in the engine ever resumes.
NeverStalls == \A r \in Runs : workflowStore[r].state # "waiting"

\* Work that was done stays done: a succeeded task is never run or changed
\* again, and no attempt is forgotten.
ProgressIsKept ==
    [][\A r \in Runs, t \in TaskIds :
          LET old == workflowStore[r].tasks[t]
              new == workflowStore'[r].tasks[t]
          IN  ~ crashed => /\ new.attempt >= old.attempt
                           /\ old.status = "succeeded" => new = old]_vars

Lifecycle == INSTANCE RunLifecycle WITH
    state    <- [r \in Runs |-> workflowStore[r].state],
    reported <- [r \in Runs |-> runStore[r].status],
    filed    <- deadLetters

\* The execution service implements the documented life of a run: the two stores
\* and the dead-letter list change only as RunLifecycle allows.
RefinesLifecycle == Lifecycle!Spec

\* Every accepted call comes to its end and gives up its locks, unless the
\* process dies.
CallsReturn == \A c \in Calls : pc[c] # "idle" ~> pc[c] = "idle" \/ crashed

\* Every run that was created is executed to an outcome.
EveryRunSettles ==
    \A r \in Runs :
        runStore[r].status # Absent
            ~> runStore[r].status \in {"completed", "failed", "dead_lettered"} \/ crashed

\* Failed runs whose retries are exhausted are in the dead-letter store once no
\* call works on them.
FailedRunsAreDeadLettered ==
    \A r \in Runs :
        workflowStore[r].state = "failed" /\ (\A c \in Calls : callRun[c] # r)
            => \E i \in 1..Len(deadLetters) : deadLetters[i] = r
=============================================================================
