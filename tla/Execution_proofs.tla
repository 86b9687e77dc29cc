-------------------------- MODULE Execution_proofs --------------------------
(***************************************************************************)
(* Proofs about Execution, for every set of runs, jobs, calls, tasks and   *)
(* candidate definitions.                                                  *)
(***************************************************************************)
EXTENDS Execution, TLAPS

-----------------------------------------------------------------------------
(* The operators of Workflow keep the type of a workflow.                  *)

\* Nothing stored is a workflow, too.
LEMMA NoWorkflowType == NoWorkflow \in WorkflowInstance
BY DEF NoWorkflow, WorkflowInstance, NoTaskRun, TaskRun, Absent

\* Nothing stored is a run, too.
LEMMA NoRunType == NoRun \in JobRun
BY DEF NoRun, JobRun, Absent

\* createRun builds a workflow.
LEMMA NewWorkflowType ==
    ASSUME NEW T PROVE NewWorkflow(T) \in WorkflowInstance
BY DEF NewWorkflow, WorkflowInstance, NoTaskRun, TaskRun, TaskStatus, States

\* A rule leads from a state to a state.
LEMMA RuleType ==
    ASSUME NEW from, NEW to, NEW event, CanTransition(from, to, event)
    PROVE  Rule(from, event, to) \in Entry
<1>1. DefaultTransitionRules \subseteq Entry
  BY DEF DefaultTransitionRules, Rule, Entry, States, Events
<1> QED
  BY <1>1 DEF CanTransition

\* The state machine's result is a workflow in the state asked for.
LEMMA TransitionType ==
    ASSUME NEW wf \in WorkflowInstance, NEW event, NEW target,
           TransitionAllowed(wf, event, target)
    PROVE  /\ Transition(wf, event, target) \in WorkflowInstance
           /\ Transition(wf, event, target).state = target
           /\ Transition(wf, event, target).tasks = wf.tasks
<1>1. Rule(wf.state, event, target) \in Entry
  BY RuleType DEF TransitionAllowed
<1>2. target \in States
  BY <1>1 DEF Rule, Entry
<1>3. Append(wf.history, Rule(wf.state, event, target)) \in Seq(Entry)
  BY <1>1 DEF WorkflowInstance
<1>4. wf.tasks \in [TaskIds -> TaskRun] /\ wf.version + 1 \in Nat
  BY DEF WorkflowInstance
<1> QED
  BY <1>2, <1>3, <1>4 DEF Transition, WorkflowInstance

\* Replacing a task run of a workflow.
LEMMA UpdateType ==
    ASSUME NEW wf \in WorkflowInstance, NEW t \in TaskIds, NEW run \in TaskRun
    PROVE  [wf EXCEPT !.tasks[t] = run] \in WorkflowInstance
BY DEF WorkflowInstance
-----------------------------------------------------------------------------
(* Type correctness.  TypeOK alone is not inductive: that a call reads a   *)
(* definition of a known job, and mirrors a real state, follows from what  *)
(* it has checked before.                                                  *)

CallOK(c) ==
    /\ pc[c] \in Executing \ {"readRun"} => runStore[callRun[c]].status # Absent
    /\ pc[c] \in Working => workflow[c].state # Absent

TypeInv ==
    /\ TypeOK
    /\ \A r \in Runs : runStore[r].status # Absent => runStore[r].job \in Jobs
    /\ \A c \in Calls : CallOK(c)

USE DEF Locations, Executing, Working, Creating, Modes

\* A call that leaves executeRun, or createRun, has an empty frame.
LEMMA LeaveType ==
    ASSUME TypeInv, NEW c \in Calls, Leave(c), UNCHANGED stores,
           localLocks' \subseteq Runs, runLocks' \in [Runs -> {Owner, NoOwner}],
           crashed' \in BOOLEAN
    PROVE  TypeInv'
BY NoWorkflowType DEF TypeInv, TypeOK, CallOK, Leave, GoTo, stores

\* ReleaseLocks keeps the types of the locks.
LEMMA ReleaseType ==
    ASSUME TypeOK, NEW c \in Calls, callRun[c] \in Runs, ReleaseLocks(c)
    PROVE  localLocks' \subseteq Runs /\ runLocks' \in [Runs -> {Owner, NoOwner}]
BY DEF TypeOK, ReleaseLocks

\* The outcome of mode[c] = "void" is a Boolean.
LEMMA ThrowType ==
    ASSUME TypeInv, NEW c \in Calls, callRun[c] \in Runs, Throw(c), UNCHANGED stores
    PROVE  TypeInv'
<1>1. crashed' \in BOOLEAN
  BY DEF Throw
<1> QED
  BY <1>1, ReleaseType, LeaveType DEF Throw, TypeInv

\* executeRun resolves.
LEMMA ReturnType ==
    ASSUME TypeInv, NEW c \in Calls, callRun[c] \in Runs, Return(c), UNCHANGED stores
    PROVE  TypeInv'
<1>1. crashed' \in BOOLEAN
  BY DEF Return, TypeInv, TypeOK
<1> QED
  BY <1>1, ReleaseType, LeaveType DEF Return, TypeInv

\* applyTransition saves a workflow in the target state, or throws.
LEMMA ApplyTransitionType ==
    ASSUME TypeInv, NEW c \in Calls, pc[c] \in Working, NEW event, NEW target,
           ApplyTransition(c, event, target),
           UNCHANGED <<jobStore, runStore, deadLetters>>
    PROVE  TypeInv'
<1>0. callRun[c] \in Runs /\ workflow[c] \in WorkflowInstance
  BY DEF TypeInv, TypeOK
<1>1. CASE TransitionAllowed(workflow[c], event, target)
  <2> DEFINE next == Transition(workflow[c], event, target)
  <2>1. next \in WorkflowInstance /\ next.state # Absent
    <3>1. target # Absent
      BY <1>1, RuleType DEF TransitionAllowed, Rule, Entry, States, Absent
    <3> QED BY <1>0, <1>1, <3>1, TransitionType
  <2>2. /\ workflow' = [workflow EXCEPT ![c] = next]
        /\ workflowStore' = [workflowStore EXCEPT ![callRun[c]] = next]
        /\ pc' = [pc EXCEPT ![c] = "mirror"]
        /\ UNCHANGED <<locks, crashed, mode, callJob, callRun, definition, current>>
    BY <1>1 DEF ApplyTransition, GoTo
  <2> HIDE DEF next
  <2> QED BY <1>0, <2>1, <2>2 DEF TypeInv, TypeOK, CallOK, locks
<1>2. CASE ~ TransitionAllowed(workflow[c], event, target)
  BY <1>0, <1>2, ThrowType DEF ApplyTransition, stores
<1> QED BY <1>1, <1>2

\* updateTask saves and keeps a workflow.
LEMMA UpdateTaskType ==
    ASSUME TypeInv, NEW c \in Calls, pc[c] \in Working,
           NEW t \in TaskIds, NEW run \in TaskRun, UpdateTask(c, t, run),
           NEW l \in {"loop", "backoff", "fail"}, GoTo(c, l),
           current' \in [Calls -> TaskIds \cup {None}],
           \A d \in Calls : d # c \/ l = "backoff" => current'[d] = current[d],
           l = "backoff" => current[c] \in TaskIds,
           UNCHANGED <<jobStore, runStore, deadLetters, locks, crashed,
                       mode, callJob, callRun, definition>>
    PROVE  TypeInv'
<1> DEFINE updated == [workflow[c] EXCEPT !.tasks[t] = run]
<1>0. callRun[c] \in Runs /\ workflow[c] \in WorkflowInstance
  BY DEF TypeInv, TypeOK
<1>1. updated \in WorkflowInstance /\ updated.state = workflow[c].state
  BY <1>0, UpdateType DEF WorkflowInstance
<1>2. /\ workflow' = [workflow EXCEPT ![c] = updated]
      /\ workflowStore' = [workflowStore EXCEPT ![callRun[c]] = updated]
  BY DEF UpdateTask
<1> HIDE DEF updated
<1> QED BY <1>0, <1>1, <1>2 DEF TypeInv, TypeOK, CallOK, locks, GoTo
\* The initial state is well typed.
LEMMA TypeInit == Init => TypeInv
<1> SUFFICES ASSUME Init PROVE TypeInv
  OBVIOUS
<1> USE NoneAssumption DEF Init
<1>1. workflowStore \in [Runs -> WorkflowInstance] /\ workflow \in [Calls -> WorkflowInstance]
  BY NoWorkflowType
<1>2. runStore \in [Runs -> JobRun] /\ \A r \in Runs : runStore[r].status = Absent
  BY NoRunType DEF NoRun
<1>3. deadLetters \in Seq(Runs)
  OBVIOUS
<1>4. /\ jobStore \in [Jobs -> Candidates \cup {None}]
      /\ localLocks \subseteq Runs
      /\ runLocks \in [Runs -> {Owner, NoOwner}]
      /\ crashed \in BOOLEAN
  OBVIOUS
<1>5. /\ pc \in [Calls -> Locations]
      /\ mode \in [Calls -> Modes]
      /\ callJob \in [Calls -> Jobs \cup {None}]
      /\ callRun \in [Calls -> Runs \cup {None}]
      /\ definition \in [Calls -> Candidates \cup {None}]
      /\ current \in [Calls -> TaskIds \cup {None}]
      /\ \A c \in Calls : pc[c] = "idle"
  OBVIOUS
<1> QED BY <1>1, <1>2, <1>3, <1>4, <1>5 DEF TypeInv, TypeOK, CallOK

\* ... and so is the state in which a restarted process begins.
LEMMA TypeInitAgain == Init' => TypeInv'
BY TypeInit, PTL

\* Every step of a call, a client or a restart keeps the types.
LEMMA TypeStep == TypeInv /\ [Next]_vars => TypeInv'
<1> SUFFICES ASSUME TypeInv, [Next]_vars PROVE TypeInv'
  OBVIOUS
<1> USE NoneAssumption
<1>1. ASSUME NEW j \in Jobs, NEW d \in Candidates, Register(j, d) PROVE TypeInv'
  BY <1>1 DEF Register, TypeInv, TypeOK, CallOK, locks, locals
<1>2. ASSUME NEW c \in Calls, NEW j \in Jobs, NEW r \in Runs, NEW m \in Modes,
             RequestRun(c, j, r, m)
      PROVE  TypeInv'
  BY <1>2 DEF RequestRun, TypeInv, TypeOK, CallOK, GoTo, stores, locks
<1>3. ASSUME NEW c \in Calls, NEW r \in Runs, RequestExecute(c, r) PROVE TypeInv'
  BY <1>3 DEF RequestExecute, TypeInv, TypeOK, CallOK, GoTo, stores, locks
<1>4. ASSUME NEW c \in Calls, Create(c) PROVE TypeInv'
  <2>1. CASE jobStore[callJob[c]] = None
    BY <1>4, <2>1, LeaveType DEF Create, TypeInv, TypeOK, locks
  <2>2. CASE jobStore[callJob[c]] # None
    <3> DEFINE new == NewWorkflow(TasksOf(jobStore[callJob[c]]))
    <3>1. new \in WorkflowInstance
      BY NewWorkflowType
    <3>2. workflow' = [workflow EXCEPT ![c] = new] /\ pc[c] = "create" /\ GoTo(c, "saveWorkflow")
          /\ UNCHANGED <<mode, callJob, callRun, definition, current, stores, locks, crashed>>
      BY <1>4, <2>2 DEF Create
    <3> HIDE DEF new
    <3> QED BY <3>1, <3>2 DEF TypeInv, TypeOK, CallOK, GoTo, stores, locks
  <2> QED BY <2>1, <2>2
<1>5. ASSUME NEW c \in Calls, SaveWorkflow(c) PROVE TypeInv'
  BY <1>5 DEF SaveWorkflow, TypeInv, TypeOK, CallOK, GoTo, locks, locals
<1>6. ASSUME NEW c \in Calls, SaveRun(c) PROVE TypeInv'
  BY <1>6, NoWorkflowType DEF SaveRun, TypeInv, TypeOK, CallOK, GoTo, locks, JobRun, States, Absent
<1>7. ASSUME NEW c \in Calls, AlreadyExecuting(c) PROVE TypeInv'
  BY <1>7, LeaveType DEF AlreadyExecuting, TypeInv, TypeOK, locks
<1>8. ASSUME NEW c \in Calls, AcquireLocks(c) PROVE TypeInv'
  <2>1. pc[c] = "enter" /\ callRun[c] \in Runs /\ runLocks[callRun[c]] \in {NoOwner, Owner}
    BY <1>8 DEF AcquireLocks, TypeInv, TypeOK
  <2>2. /\ localLocks' = localLocks \cup {callRun[c]}
        /\ runLocks' = [runLocks EXCEPT ![callRun[c]] = Owner]
        /\ GoTo(c, "readRun")
        /\ UNCHANGED <<locals, crashed, stores>>
    BY <1>8, <2>1 DEF AcquireLocks
  <2> QED BY <2>1, <2>2 DEF TypeInv, TypeOK, CallOK, GoTo, stores, locals
<1>9. ASSUME NEW c \in Calls, ReadRun(c) PROVE TypeInv'
  <2>1. CASE runStore[callRun[c]].status = Absent
    BY <1>9, <2>1, ThrowType DEF ReadRun, TypeInv, TypeOK
  <2>2. CASE runStore[callRun[c]].status # Absent
    BY <1>9, <2>2 DEF ReadRun, TypeInv, TypeOK, CallOK, GoTo, stores, locks, locals
  <2> QED BY <2>1, <2>2
<1>10. ASSUME NEW c \in Calls, ReadDefinition(c) PROVE TypeInv'
  <2> DEFINE d == jobStore[runStore[callRun[c]].job]
  <2>1. CASE d = None
    BY <1>10, <2>1, ThrowType DEF ReadDefinition, TypeInv, TypeOK
  <2>2. CASE d # None
    <3>1. d \in Candidates
      BY <1>10, <2>2 DEF ReadDefinition, TypeInv, TypeOK, CallOK
    <3> QED
      BY <1>10, <2>2, <3>1 DEF ReadDefinition, TypeInv, TypeOK, CallOK, GoTo, stores, locks
  <2> QED BY <2>1, <2>2
<1>11. ASSUME NEW c \in Calls, ReadWorkflow(c) PROVE TypeInv'
  <2>1. CASE workflowStore[callRun[c]].state = Absent
    BY <1>11, <2>1, ThrowType DEF ReadWorkflow, TypeInv, TypeOK
  <2>2. CASE workflowStore[callRun[c]].state # Absent
    BY <1>11, <2>2 DEF ReadWorkflow, TypeInv, TypeOK, CallOK, GoTo, stores, locks
  <2> QED BY <2>1, <2>2
<1>12. ASSUME NEW c \in Calls, Start(c) PROVE TypeInv'
  <2>1. CASE workflow[c].state = "pending"
    BY <1>12, <2>1, ApplyTransitionType DEF Start
  <2>2. CASE workflow[c].state # "pending"
    BY <1>12, <2>2 DEF Start, TypeInv, TypeOK, CallOK, GoTo, locks, locals
  <2> QED BY <2>1, <2>2
<1>13. ASSUME NEW c \in Calls, Mirror(c) PROVE TypeInv'
  <2> DEFINE l == CASE workflow[c].state = "running"       -> "loop"
                    [] workflow[c].state = "dead_lettered" -> "push"
                    [] OTHER                               -> "settle"
  <2>1. l \in {"loop", "push", "settle"}
    OBVIOUS
  <2>2. /\ pc[c] = "mirror"
        /\ runStore' = [runStore EXCEPT
              ![callRun[c]].status = workflow[c].state,
              ![callRun[c]].finished = @ \/ IsTerminal(workflow[c].state)]
        /\ GoTo(c, l)
        /\ UNCHANGED <<jobStore, workflowStore, deadLetters, locks, crashed, locals>>
    BY <1>13 DEF Mirror
  <2>3. callRun[c] \in Runs /\ workflow[c].state \in States /\ runStore[callRun[c]] \in JobRun
    BY <2>2 DEF TypeInv, TypeOK, CallOK, WorkflowInstance
  <2>4. runStore' \in [Runs -> JobRun]
    BY <2>2, <2>3 DEF TypeInv, TypeOK, JobRun, IsTerminal
  <2>5. \A r \in Runs : /\ runStore'[r].job = runStore[r].job
                        /\ r # callRun[c] => runStore'[r] = runStore[r]
                        /\ r = callRun[c] => runStore'[r].status # Absent
    BY <2>2, <2>3 DEF TypeInv, TypeOK, JobRun, States, Absent
  <2> HIDE DEF l
  <2> QED BY <2>1, <2>2, <2>3, <2>4, <2>5 DEF TypeInv, TypeOK, CallOK, GoTo, locks, locals
<1>14. ASSUME NEW c \in Calls, Dispatch(c) PROVE TypeInv'
  <2>1. PICK i \in Runnable(definition[c], workflow[c].tasks) :
             LET t == definition[c].tasks[i]
             IN  \/ /\ workflow[c].tasks[t].status = Absent
                    /\ Throw(c)
                 \/ /\ workflow[c].tasks[t].status # Absent
                    /\ current' = [current EXCEPT ![c] = t]
                    /\ GoTo(c, "task")
                    /\ UNCHANGED <<locks, crashed, mode, callJob, callRun, definition, workflow>>
    BY <1>14 DEF Dispatch
  <2>2. definition[c].tasks[i] \in TaskIds
    BY <1>14, CandidatesAssumption DEF Dispatch, TypeInv, TypeOK, Runnable, Definition
  <2>3. pc[c] = "loop" /\ UNCHANGED stores
    BY <1>14 DEF Dispatch
  <2>4. CASE Throw(c)
    BY <2>3, <2>4, ThrowType DEF TypeInv, TypeOK
  <2>5. CASE ~ Throw(c)
    BY <2>1, <2>2, <2>3, <2>5 DEF TypeInv, TypeOK, CallOK, GoTo, stores, locks
  <2> QED BY <2>4, <2>5
<1>15. ASSUME NEW c \in Calls, Conclude(c) PROVE TypeInv'
  <2>1. CASE Throw(c) /\ UNCHANGED workflowStore
    BY <1>15, <2>1, ThrowType DEF Conclude, TypeInv, TypeOK, stores
  <2>2. CASE ~ (Throw(c) /\ UNCHANGED workflowStore)
    BY <1>15, <2>2, ApplyTransitionType DEF Conclude
  <2> QED BY <2>1, <2>2
<1>16. ASSUME NEW c \in Calls, SkipLoop(c) PROVE TypeInv'
  BY <1>16 DEF SkipLoop, TypeInv, TypeOK, CallOK, GoTo, stores, locks, locals
<1>17. ASSUME NEW c \in Calls, TaskSucceeds(c) PROVE TypeInv'
  <2> DEFINE run == [status |-> "succeeded", attempt |-> workflow[c].tasks[current[c]].attempt + 1]
  <2>1. run \in TaskRun
    BY <1>17 DEF TaskSucceeds, TypeInv, TypeOK, WorkflowInstance, TaskRun, TaskStatus
  <2>2. current' \in [Calls -> TaskIds \cup {None}] /\ \A d \in Calls : d # c => current'[d] = current[d]
    BY <1>17 DEF TaskSucceeds, TypeInv, TypeOK
  <2> QED BY <1>17, <2>1, <2>2, UpdateTaskType DEF TaskSucceeds, TypeInv, TypeOK
<1>18. ASSUME NEW c \in Calls, TaskFails(c) PROVE TypeInv'
  <2> DEFINE attempt == workflow[c].tasks[current[c]].attempt + 1
             retry   == RetryDecision(definition[c], [status |-> "failed", attempt |-> attempt])
             run     == [status |-> IF retry THEN "retrying" ELSE "failed", attempt |-> attempt]
  <2>1. run \in TaskRun
    BY <1>18 DEF TaskFails, TypeInv, TypeOK, WorkflowInstance, TaskRun, TaskStatus
  <2>2. PICK l \in {"backoff", "fail"} : GoTo(c, l)
    BY <1>18 DEF TaskFails
  <2>3. UpdateTask(c, current[c], run)
    BY <1>18 DEF TaskFails
  <2> HIDE DEF run
  <2> QED BY <1>18, <2>1, <2>2, <2>3, UpdateTaskType DEF TaskFails, TypeInv, TypeOK
<1>19. ASSUME NEW c \in Calls, Requeue(c) PROVE TypeInv'
  <2> DEFINE run == [workflow[c].tasks[current[c]] EXCEPT !.status = "queued"]
  <2>1. run \in TaskRun
    <3>1. workflow[c].tasks[current[c]] \in TaskRun
      BY <1>19 DEF Requeue, TypeInv, TypeOK, WorkflowInstance
    <3> QED BY <3>1 DEF TaskRun, TaskStatus
  <2>2. current' \in [Calls -> TaskIds \cup {None}] /\ \A d \in Calls : d # c => current'[d] = current[d]
    BY <1>19 DEF Requeue, TypeInv, TypeOK
  <2> QED BY <1>19, <2>1, <2>2, UpdateTaskType DEF Requeue, TypeInv, TypeOK
<1>20. ASSUME NEW c \in Calls, FailRun(c) PROVE TypeInv'
  BY <1>20, ApplyTransitionType DEF FailRun
<1>21. ASSUME NEW c \in Calls, Settle(c) PROVE TypeInv'
  <2>1. CASE Return(c) /\ UNCHANGED workflowStore
    BY <1>21, <2>1, ReturnType DEF Settle, TypeInv, TypeOK, stores
  <2>2. CASE ~ (Return(c) /\ UNCHANGED workflowStore)
    BY <1>21, <2>2, ApplyTransitionType DEF Settle
  <2> QED BY <2>1, <2>2
<1>22. ASSUME NEW c \in Calls, Push(c) PROVE TypeInv'
  BY <1>22, NoWorkflowType, ReleaseType
  DEF Push, Return, Leave, GoTo, TypeInv, TypeOK, CallOK
<1>23. ASSUME Restart PROVE TypeInv'
  BY <1>23, TypeInitAgain DEF Restart, Init
<1>24. CASE UNCHANGED vars
  BY <1>24 DEF vars, TypeInv, TypeOK, CallOK, stores, locks, locals
<1> QED
  BY <1>1, <1>2, <1>3, <1>4, <1>5, <1>6, <1>7, <1>8, <1>9, <1>10, <1>11, <1>12, <1>13,
     <1>14, <1>15, <1>16, <1>17, <1>18, <1>19, <1>20, <1>21, <1>22, <1>23, <1>24
  DEF Next, Request, CallStep

\* In every reachable state every variable has its type, for any number of runs,
\* calls, jobs and tasks.
THEOREM TypeCorrect == Spec => []TypeOK
<1>1. TypeInv => TypeOK
  BY DEF TypeInv
<1> QED BY <1>1, TypeInit, TypeStep, PTL DEF Spec
-----------------------------------------------------------------------------
(* Mutual exclusion, locks and the absence of lost updates.  They depend   *)
(* on each other: a call's copy stays current because nobody else saves    *)
(* that workflow, which is so because executors exclude one another and a  *)
(* creating call is the only one that knows its run.                       *)

OwnInv ==
    /\ \A c \in Calls : pc[c] = "idle" => callRun[c] = None
    /\ \A c, d \in Calls : c # d /\ pc[c] \in Creating => callRun[c] # callRun[d]
    /\ \A c \in Calls :
         /\ pc[c] \in Creating => runStore[callRun[c]].status = Absent
         /\ pc[c] = "saveWorkflow" => workflow[c].state # Absent
         /\ pc[c] = "saveRun" => workflowStore[callRun[c]].state # Absent
    /\ \A r \in Runs : runStore[r].status # Absent => workflowStore[r].state # Absent

LockInv ==
    /\ OneExecutorPerRun
    /\ \A r \in Runs : r \in localLocks <=> \E c \in Calls : pc[c] \in Executing /\ callRun[c] = r
    /\ \A r \in Runs : runLocks[r] = Owner <=> r \in localLocks

\* Who owns a run, whatever the executors' copies are worth: this part needs nobody
\* to leave the workflow store alone.
ExclusionInv == OwnInv /\ LockInv

SafeInv == OwnInv /\ LockInv /\ NoLostUpdate

\* What a step owes to both.
StepsSafely == ExclusionInv' /\ (NoLostUpdate => NoLostUpdate')

\* A step of c that takes no lock and neither enters nor leaves executeRun.
LEMMA LocksStay ==
    ASSUME LockInv, NEW c \in Calls, UNCHANGED locks,
           \A d \in Calls : d # c => pc'[d] = pc[d] /\ callRun'[d] = callRun[d],
           pc'[c] \in Executing <=> pc[c] \in Executing,
           pc[c] \in Executing => callRun'[c] = callRun[c]
    PROVE  LockInv'
<1>1. \A d \in Calls : /\ pc'[d] \in Executing <=> pc[d] \in Executing
                       /\ pc[d] \in Executing => callRun'[d] = callRun[d]
  OBVIOUS
<1>2. OneExecutorPerRun'
  BY <1>1 DEF LockInv, OneExecutorPerRun
<1>3. ASSUME NEW r \in Runs
      PROVE  /\ r \in localLocks' <=> \E d \in Calls : pc'[d] \in Executing /\ callRun'[d] = r
             /\ runLocks'[r] = Owner <=> r \in localLocks'
  BY <1>1 DEF LockInv, locks
<1> QED BY <1>2, <1>3 DEF LockInv

\* A call saves a workflow and keeps what it saved.
LEMMA SaveKeeps ==
    ASSUME TypeInv, ExclusionInv, NEW c \in Calls, NEW next, NEW l,
           pc[c] \in Working, l \in Working, GoTo(c, l), next.state # Absent,
           workflow' = [workflow EXCEPT ![c] = next],
           workflowStore' = [workflowStore EXCEPT ![callRun[c]] = next],
           UNCHANGED <<runStore, locks, callRun>>
    PROVE  StepsSafely
<1>1. callRun[c] \in Runs
  BY DEF TypeInv, TypeOK
<1>2. OwnInv'
  BY <1>1 DEF TypeInv, TypeOK, ExclusionInv, OwnInv, GoTo
<1>3. LockInv'
  BY LocksStay DEF TypeInv, TypeOK, ExclusionInv, GoTo, Working
<1>4. NoLostUpdate => NoLostUpdate'
  BY <1>1 DEF TypeInv, TypeOK, ExclusionInv, LockInv, OneExecutorPerRun, NoLostUpdate, GoTo
<1> QED BY <1>2, <1>3, <1>4 DEF ExclusionInv, StepsSafely

\* A call goes on inside executeRun without touching a workflow.
LEMMA MoveKeeps ==
    ASSUME TypeInv, ExclusionInv, NEW c \in Calls, NEW l,
           pc[c] \in Executing, l \in Executing, GoTo(c, l),
           l \in Working => pc[c] \in Working,
           \A r \in Runs : runStore'[r].status = Absent <=> runStore[r].status = Absent,
           UNCHANGED <<workflowStore, workflow, locks, callRun>>
    PROVE  StepsSafely
<1>1. OwnInv'
  BY DEF TypeInv, TypeOK, ExclusionInv, OwnInv, GoTo
<1>2. LockInv'
  BY LocksStay DEF TypeInv, TypeOK, ExclusionInv, GoTo
<1>3. NoLostUpdate => NoLostUpdate'
  BY DEF TypeInv, TypeOK, ExclusionInv, NoLostUpdate, GoTo
<1> QED BY <1>1, <1>2, <1>3 DEF ExclusionInv, StepsSafely

\* A call leaves executeRun through its finally block.
LEMMA LeaveKeeps ==
    ASSUME TypeInv, ExclusionInv, NEW c \in Calls, pc[c] \in Executing,
           Leave(c), ReleaseLocks(c), UNCHANGED <<workflowStore, runStore>>
    PROVE  StepsSafely
<1>1. callRun[c] \in Runs
  BY DEF TypeInv, TypeOK
<1>2. OwnInv'
  BY NoneAssumption DEF TypeInv, TypeOK, ExclusionInv, OwnInv, Leave, GoTo
<1>3. \A d \in Calls : d # c => pc'[d] = pc[d] /\ callRun'[d] = callRun[d]
  BY DEF TypeInv, TypeOK, Leave, GoTo
<1>4. pc'[c] = "idle"
  BY DEF TypeInv, TypeOK, Leave, GoTo
<1>5. LockInv'
  <2>1. OneExecutorPerRun'
    BY <1>3, <1>4 DEF ExclusionInv, LockInv, OneExecutorPerRun
  <2>2. ASSUME NEW r \in Runs
        PROVE  /\ r \in localLocks' <=> \E d \in Calls : pc'[d] \in Executing /\ callRun'[d] = r
               /\ runLocks'[r] = Owner <=> r \in localLocks'
    <3>1. CASE r = callRun[c]
      <4>1. r \notin localLocks' /\ runLocks'[r] # Owner
        BY <1>1, <3>1 DEF TypeInv, TypeOK, ReleaseLocks, Owner, NoOwner
      <4>2. \A d \in Calls : ~ (pc'[d] \in Executing /\ callRun'[d] = r)
        BY <1>3, <1>4, <3>1 DEF ExclusionInv, LockInv, OneExecutorPerRun
      <4> QED BY <4>1, <4>2
    <3>2. CASE r # callRun[c]
      <4>1. (r \in localLocks' <=> r \in localLocks) /\ runLocks'[r] = runLocks[r]
        BY <1>1, <3>2 DEF TypeInv, TypeOK, ReleaseLocks
      <4>2. \A d \in Calls : (pc'[d] \in Executing /\ callRun'[d] = r)
                            <=> (pc[d] \in Executing /\ callRun[d] = r)
        BY <1>3, <1>4, <3>2
      <4> QED BY <4>1, <4>2 DEF ExclusionInv, LockInv
    <3> QED BY <3>1, <3>2
  <2> QED BY <2>1, <2>2 DEF LockInv
<1>6. NoLostUpdate => NoLostUpdate'
  BY <1>3, <1>4 DEF TypeInv, TypeOK, ExclusionInv, NoLostUpdate, Leave
<1> QED BY <1>2, <1>5, <1>6 DEF ExclusionInv, StepsSafely

\* applyTransition either saves or throws.
LEMMA ApplyTransitionKeeps ==
    ASSUME TypeInv, ExclusionInv, NEW c \in Calls, pc[c] \in Working, NEW event, NEW target,
           ApplyTransition(c, event, target), UNCHANGED runStore
    PROVE  StepsSafely
<1>1. CASE TransitionAllowed(workflow[c], event, target)
  <2> DEFINE next == Transition(workflow[c], event, target)
  <2>1. next.state # Absent
    <3>1. target # Absent
      BY <1>1, RuleType DEF TransitionAllowed, Rule, Entry, States, Absent
    <3> QED BY <1>1, <3>1, TransitionType DEF TypeInv, TypeOK
  <2> QED BY <1>1, <2>1, SaveKeeps DEF ApplyTransition
<1>2. CASE ~ TransitionAllowed(workflow[c], event, target)
  BY <1>2, LeaveKeeps DEF ApplyTransition, Throw
<1> QED BY <1>1, <1>2

\* updateTask saves and keeps.
LEMMA UpdateTaskKeeps ==
    ASSUME TypeInv, ExclusionInv, NEW c \in Calls, pc[c] \in Working, NEW t \in TaskIds, NEW run,
           UpdateTask(c, t, run), NEW l, l \in Working, GoTo(c, l),
           UNCHANGED <<runStore, locks, callRun>>
    PROVE  StepsSafely
<1> DEFINE updated == [workflow[c] EXCEPT !.tasks[t] = run]
<1>1. updated.state # Absent
  BY DEF TypeInv, TypeOK, CallOK, WorkflowInstance
<1> QED BY <1>1, SaveKeeps DEF UpdateTask

\* Every step keeps exclusion, the locks and the executors' copies.
LEMMA SafelyStep == TypeInv /\ ExclusionInv /\ [Next]_vars => StepsSafely
<1> SUFFICES ASSUME TypeInv, ExclusionInv, [Next]_vars PROVE StepsSafely
  OBVIOUS
<1> USE NoneAssumption
<1>1. ASSUME NEW j \in Jobs, NEW d \in Candidates, Register(j, d) PROVE StepsSafely
  BY <1>1 DEF Register, ExclusionInv, StepsSafely, OwnInv, LockInv, OneExecutorPerRun, NoLostUpdate, locks, locals
<1>2. ASSUME NEW c \in Calls, NEW j \in Jobs, NEW r \in Runs, NEW m \in Modes,
             RequestRun(c, j, r, m)
      PROVE  StepsSafely
  <2> USE <1>2 DEF RequestRun, GoTo, stores, locks, TypeInv, TypeOK, ExclusionInv, StepsSafely
  <2>1. OwnInv'
    BY DEF FreshRun, OwnInv
  <2>2. LockInv'
    BY LocksStay DEF Executing, Creating
  <2>3. NoLostUpdate => NoLostUpdate'
    BY DEF NoLostUpdate
  <2> QED BY <2>1, <2>2, <2>3
<1>3. ASSUME NEW c \in Calls, NEW r \in Runs, RequestExecute(c, r) PROVE StepsSafely
  <2> USE <1>3 DEF RequestExecute, GoTo, stores, locks, TypeInv, TypeOK, ExclusionInv, StepsSafely
  <2>1. OwnInv'
    BY DEF FreshRun, OwnInv
  <2>2. LockInv'
    BY LocksStay DEF Executing, Creating
  <2>3. NoLostUpdate => NoLostUpdate'
    BY DEF NoLostUpdate
  <2> QED BY <2>1, <2>2, <2>3
<1>4. ASSUME NEW c \in Calls, Create(c) PROVE StepsSafely
  <2> USE <1>4 DEF Create, Leave, GoTo, stores, locks, TypeInv, TypeOK, ExclusionInv, StepsSafely
  <2>1. OwnInv'
    <3>1. CASE jobStore[callJob[c]] = None
      <4>1. /\ pc' = [pc EXCEPT ![c] = "idle"]
            /\ callRun' = [callRun EXCEPT ![c] = None]
            /\ workflow' = [workflow EXCEPT ![c] = NoWorkflow]
            /\ UNCHANGED <<workflowStore, runStore>>
        BY <3>1
      <4>2. \A d \in Calls : d # c => /\ pc'[d] = pc[d] /\ callRun'[d] = callRun[d]
                                      /\ workflow'[d] = workflow[d]
        BY <4>1
      <4>3. pc'[c] = "idle" /\ callRun'[c] = None
        BY <4>1
      <4> QED BY <4>1, <4>2, <4>3 DEF OwnInv
    <3>2. CASE jobStore[callJob[c]] # None
      <4>1. NewWorkflow(TasksOf(jobStore[callJob[c]])).state # Absent
        BY DEF NewWorkflow, Absent
      <4> QED BY <3>2, <4>1 DEF OwnInv
    <3> QED BY <3>1, <3>2
  <2>2. LockInv'
    BY LocksStay DEF Executing, Creating
  <2>3. NoLostUpdate => NoLostUpdate'
    BY DEF NoLostUpdate
  <2> QED BY <2>1, <2>2, <2>3
<1>5. ASSUME NEW c \in Calls, SaveWorkflow(c) PROVE StepsSafely
  <2> USE <1>5 DEF SaveWorkflow, GoTo, locks, locals, TypeInv, TypeOK, ExclusionInv, StepsSafely
  <2>1. OwnInv'
    BY DEF OwnInv
  <2>2. LockInv'
    BY LocksStay DEF Executing, Creating
  <2>3. NoLostUpdate => NoLostUpdate'
    BY DEF NoLostUpdate, OwnInv
  <2> QED BY <2>1, <2>2, <2>3
<1>6. ASSUME NEW c \in Calls, SaveRun(c) PROVE StepsSafely
  <2> USE <1>6 DEF SaveRun, GoTo, locks, TypeInv, TypeOK, ExclusionInv, StepsSafely
  <2>1. OwnInv'
    BY DEF OwnInv
  <2>2. LockInv'
    BY LocksStay DEF Executing, Creating
  <2>3. NoLostUpdate => NoLostUpdate'
    BY DEF NoLostUpdate
  <2> QED BY <2>1, <2>2, <2>3
<1>7. ASSUME NEW c \in Calls, AlreadyExecuting(c) PROVE StepsSafely
  <2> USE <1>7 DEF AlreadyExecuting, Leave, GoTo, stores, locks, TypeInv, TypeOK, ExclusionInv, StepsSafely
  <2>1. OwnInv'
    BY DEF OwnInv
  <2>2. LockInv'
    BY LocksStay DEF Executing, Creating
  <2>3. NoLostUpdate => NoLostUpdate'
    BY DEF NoLostUpdate
  <2> QED BY <2>1, <2>2, <2>3
<1>8. ASSUME NEW c \in Calls, AcquireLocks(c) PROVE StepsSafely
  <2>1. /\ pc[c] = "enter" /\ callRun[c] \in Runs /\ callRun[c] \notin localLocks
        /\ runLocks[callRun[c]] \in {NoOwner, Owner}
    BY <1>8 DEF AcquireLocks, TypeInv, TypeOK
  <2>2. /\ localLocks' = localLocks \cup {callRun[c]}
        /\ runLocks' = [runLocks EXCEPT ![callRun[c]] = Owner]
        /\ GoTo(c, "readRun")
        /\ UNCHANGED <<locals, stores>>
    BY <1>8, <2>1 DEF AcquireLocks
  <2> USE <2>1, <2>2 DEF GoTo, stores, locals, TypeInv, TypeOK, ExclusionInv, StepsSafely
  <2>3. OwnInv'
    BY DEF OwnInv
  <2>4. LockInv'
    BY DEF LockInv, OneExecutorPerRun
  <2>5. NoLostUpdate => NoLostUpdate'
    BY DEF NoLostUpdate
  <2> QED BY <2>3, <2>4, <2>5
<1>9. ASSUME NEW c \in Calls, ReadRun(c) PROVE StepsSafely
  <2>1. CASE runStore[callRun[c]].status = Absent
    BY <1>9, <2>1, LeaveKeeps DEF ReadRun, Throw, stores
  <2>2. CASE runStore[callRun[c]].status # Absent
    BY <1>9, <2>2, MoveKeeps DEF ReadRun, stores, locals
  <2> QED BY <2>1, <2>2
<1>10. ASSUME NEW c \in Calls, ReadDefinition(c) PROVE StepsSafely
  <2>1. CASE jobStore[runStore[callRun[c]].job] = None
    BY <1>10, <2>1, LeaveKeeps DEF ReadDefinition, Throw, stores
  <2>2. CASE jobStore[runStore[callRun[c]].job] # None
    BY <1>10, <2>2, MoveKeeps DEF ReadDefinition, stores
  <2> QED BY <2>1, <2>2
<1>11. ASSUME NEW c \in Calls, ReadWorkflow(c) PROVE StepsSafely
  <2>1. CASE workflowStore[callRun[c]].state = Absent
    BY <1>11, <2>1, LeaveKeeps DEF ReadWorkflow, Throw, stores
  <2>2. CASE workflowStore[callRun[c]].state # Absent
    <3> USE <1>11, <2>2 DEF ReadWorkflow, GoTo, stores, locks, TypeInv, TypeOK, ExclusionInv, StepsSafely
    <3>1. OwnInv'
      BY DEF OwnInv
    <3>2. LockInv'
      BY LocksStay DEF Executing
    <3>3. NoLostUpdate => NoLostUpdate'
      BY DEF NoLostUpdate
    <3> QED BY <3>1, <3>2, <3>3
  <2> QED BY <2>1, <2>2
<1>12. ASSUME NEW c \in Calls, Start(c) PROVE StepsSafely
  <2>1. CASE workflow[c].state = "pending"
    BY <1>12, <2>1, ApplyTransitionKeeps DEF Start
  <2>2. CASE workflow[c].state # "pending"
    BY <1>12, <2>2, MoveKeeps DEF Start, locals
  <2> QED BY <2>1, <2>2
<1>13. ASSUME NEW c \in Calls, Mirror(c) PROVE StepsSafely
  <2> DEFINE l == CASE workflow[c].state = "running"       -> "loop"
                    [] workflow[c].state = "dead_lettered" -> "push"
                    [] OTHER                               -> "settle"
  <2>1. l \in Working
    OBVIOUS
  <2>2. pc[c] = "mirror" /\ GoTo(c, l)
        /\ UNCHANGED <<workflowStore, workflow, locks, callRun>>
    BY <1>13 DEF Mirror, locals
  <2>3. \A r \in Runs : runStore'[r].status = Absent <=> runStore[r].status = Absent
    BY <1>13 DEF Mirror, TypeInv, TypeOK, CallOK, JobRun
  <2> HIDE DEF l
  <2> QED BY <2>1, <2>2, <2>3, MoveKeeps
<1>14. ASSUME NEW c \in Calls, Dispatch(c) PROVE StepsSafely
  <2>1. pc[c] = "loop" /\ UNCHANGED stores
    BY <1>14 DEF Dispatch
  <2>2. CASE Throw(c)
    BY <2>1, <2>2, LeaveKeeps DEF Throw, stores
  <2>3. CASE ~ Throw(c)
    BY <1>14, <2>1, <2>3, MoveKeeps DEF Dispatch, stores
  <2> QED BY <2>2, <2>3
<1>15. ASSUME NEW c \in Calls, Conclude(c) PROVE StepsSafely
  <2>1. CASE Throw(c) /\ UNCHANGED workflowStore
    BY <1>15, <2>1, LeaveKeeps DEF Conclude, Throw
  <2>2. CASE ~ (Throw(c) /\ UNCHANGED workflowStore)
    BY <1>15, <2>2, ApplyTransitionKeeps DEF Conclude
  <2> QED BY <2>1, <2>2
<1>16. ASSUME NEW c \in Calls, SkipLoop(c) PROVE StepsSafely
  BY <1>16, MoveKeeps DEF SkipLoop, stores, locals
<1>17. ASSUME NEW c \in Calls, TaskSucceeds(c) PROVE StepsSafely
  BY <1>17, UpdateTaskKeeps DEF TaskSucceeds, TypeInv, TypeOK
<1>18. ASSUME NEW c \in Calls, TaskFails(c) PROVE StepsSafely
  <2>1. PICK l \in {"backoff", "fail"} : GoTo(c, l)
    BY <1>18 DEF TaskFails
  <2> QED BY <1>18, <2>1, UpdateTaskKeeps DEF TaskFails, TypeInv, TypeOK
<1>19. ASSUME NEW c \in Calls, Requeue(c) PROVE StepsSafely
  BY <1>19, UpdateTaskKeeps DEF Requeue, TypeInv, TypeOK
<1>20. ASSUME NEW c \in Calls, FailRun(c) PROVE StepsSafely
  BY <1>20, ApplyTransitionKeeps DEF FailRun
<1>21. ASSUME NEW c \in Calls, Settle(c) PROVE StepsSafely
  <2>1. CASE Return(c) /\ UNCHANGED workflowStore
    BY <1>21, <2>1, LeaveKeeps DEF Settle, Return
  <2>2. CASE ~ (Return(c) /\ UNCHANGED workflowStore)
    BY <1>21, <2>2, ApplyTransitionKeeps DEF Settle
  <2> QED BY <2>1, <2>2
<1>22. ASSUME NEW c \in Calls, Push(c) PROVE StepsSafely
  BY <1>22, LeaveKeeps DEF Push, Return
<1>23. ASSUME Restart PROVE StepsSafely
  BY <1>23 DEF Restart, StepsSafely, ExclusionInv, OwnInv, LockInv, OneExecutorPerRun, NoLostUpdate, NoRun,
     Owner, NoOwner
<1>24. CASE UNCHANGED vars
  BY <1>24 DEF vars, stores, locks, locals, StepsSafely, ExclusionInv, OwnInv, LockInv, OneExecutorPerRun,
     NoLostUpdate
<1> QED
  BY <1>1, <1>2, <1>3, <1>4, <1>5, <1>6, <1>7, <1>8, <1>9, <1>10, <1>11, <1>12, <1>13,
     <1>14, <1>15, <1>16, <1>17, <1>18, <1>19, <1>20, <1>21, <1>22, <1>23, <1>24
  DEF Next, Request, CallStep

\* Ownership and locks are kept without a look at the copies ...
LEMMA ExclusionStep == TypeInv /\ ExclusionInv /\ [Next]_vars => ExclusionInv'
BY SafelyStep DEF StepsSafely

\* ... and with them the copies are.
LEMMA SafeStep == TypeInv /\ SafeInv /\ [Next]_vars => SafeInv'
BY SafelyStep DEF StepsSafely, SafeInv, ExclusionInv

\* Initially no lock is held and nobody works.
LEMMA SafeInit == Init => SafeInv
BY NoneAssumption DEF Init, SafeInv, OwnInv, LockInv, OneExecutorPerRun, NoLostUpdate, NoRun,
   Owner, NoOwner

\* No two executeRun calls are ever inside the engine for the same run: however
\* many calls overlap and wherever their awaits fall, the local lock, taken before
\* the first await and given up in the finally block, keeps them apart.
THEOREM MutualExclusion == Spec => []OneExecutorPerRun
<1>1. TypeInv /\ SafeInv => OneExecutorPerRun
  BY DEF SafeInv, LockInv
<1> QED BY <1>1, TypeInit, TypeStep, SafeInit, SafeStep, PTL DEF Spec

\* Both locks are held exactly for the runs that are being executed, so every way
\* out of executeRun gives them up.
THEOREM LocksAreExact == Spec => []LocksMatchExecutors
<1>1. TypeInv /\ SafeInv => LocksMatchExecutors
  BY DEF TypeInv, TypeOK, SafeInv, LockInv, LocksMatchExecutors
<1> QED BY <1>1, TypeInit, TypeStep, SafeInit, SafeStep, PTL DEF Spec

\* Together: the locks of a run are held exactly while one call works on it.
THEOREM RunLocking == Spec => []RunsAreLocked
<1>1. OneExecutorPerRun /\ LocksMatchExecutors => RunsAreLocked
  BY DEF RunsAreLocked
<1> QED BY <1>1, MutualExclusion, LocksAreExact, PTL

\* The workflow an executing call carries across its awaits is the stored one:
\* no save of executeRun overwrites an update it has not seen.
THEOREM CopiesAreCurrent == Spec => []NoLostUpdate
<1>1. TypeInv /\ SafeInv => NoLostUpdate
  BY DEF SafeInv
<1> QED BY <1>1, TypeInit, TypeStep, SafeInit, SafeStep, PTL DEF Spec
-----------------------------------------------------------------------------
(* Stored tasks and outcomes.  A stored task is "retrying" only while its  *)
(* executor sits in the backoff, so an executor at the head of the loop    *)
(* sees none; with a valid definition it then finds a task to run until    *)
(* all are done, and never parks a run in "waiting".                       *)

\* The scheduler on an acyclic definition: with no task in the way and none
\* runnable, every task is done.
LEMMA NothingRunnable ==
    ASSUME NEW d \in Definition, ValidDefinition(d), NEW tasks \in [TaskIds -> TaskRun],
           \A t \in TaskIds : tasks[t].status \notin {"running", "retrying"},
           Runnable(d, tasks) = {}
    PROVE  AllDone(d, tasks)
<1> DEFINE S == {t \in TasksOf(d) : ~ IsDone(tasks[t].status)}
<1>1. SUFFICES ASSUME S # {} PROVE FALSE
  BY <1>1 DEF AllDone
<1>2. PICK t \in S : d.dependsOn[t] \cap S = {}
  BY <1>1 DEF ValidDefinition, Acyclic
<1>3. d.dependsOn[t] \subseteq TasksOf(d)
  BY <1>2 DEF ValidDefinition
<1>4. DependenciesMet(d, t, tasks)
  BY <1>2, <1>3 DEF DependenciesMet
<1>5. PICK i \in 1..Len(d.tasks) : t = d.tasks[i]
  BY <1>2 DEF TasksOf
<1>6. t \in TaskIds
  BY <1>5 DEF Definition
<1>7. i \in Runnable(d, tasks)
  BY <1>2, <1>4, <1>5, <1>6 DEF Runnable
<1> QED BY <1>7

\* The statuses a workflow may be stored with while the calls are where they are.
TaskSettled(r, t) ==
    LET s == workflowStore[r].tasks[t].status
    IN  /\ s # "running"
        /\ s = "retrying" =>
             \E c \in Calls : pc[c] = "backoff" /\ callRun[c] = r /\ current[c] = t

DefinitionsValid ==
    /\ \A j \in Jobs : jobStore[j] # None => ValidDefinition(jobStore[j])
    /\ \A c \in Calls : definition[c] # None => ValidDefinition(definition[c])

TaskInv ==
    /\ \A c \in Calls :
         /\ pc[c] \in {"task", "backoff", "fail"} => workflow[c].state = "running"
         /\ pc[c] = "saveWorkflow" =>
              /\ workflow[c].state = "pending"
              /\ \A t \in TaskIds : workflow[c].tasks[t].status \in {"queued", Absent}
    /\ \A r \in Runs, t \in TaskIds : TaskSettled(r, t)
    /\ CompletedMeansDone
    /\ NeverStalls

\* Only registration and the end of the process change the definitions known.
LEMMA ValidStep == TypeInv /\ DefinitionsValid /\ [Next]_vars => DefinitionsValid'
<1> SUFFICES ASSUME TypeInv, DefinitionsValid, [Next]_vars PROVE DefinitionsValid'
  OBVIOUS
<1>1. CASE UNCHANGED <<jobStore, definition>>
  BY <1>1 DEF DefinitionsValid
<1>2. ASSUME NEW j \in Jobs, NEW d \in Candidates, Register(j, d) PROVE DefinitionsValid'
  BY <1>2 DEF Register, DefinitionsValid, TypeInv, TypeOK, locals
<1>3. ASSUME NEW c \in Calls, UNCHANGED jobStore, definition' = [definition EXCEPT ![c] = None]
      PROVE  DefinitionsValid'
  BY <1>3 DEF DefinitionsValid, TypeInv, TypeOK
<1>4. ASSUME NEW c \in Calls, ReadDefinition(c) PROVE DefinitionsValid'
  <2> DEFINE d == jobStore[runStore[callRun[c]].job]
  <2>1. CASE d = None
    BY <1>3, <1>4, <2>1 DEF ReadDefinition, Throw, Leave, stores
  <2>2. CASE d # None
    <3>1. runStore[callRun[c]].job \in Jobs
      BY <1>4 DEF ReadDefinition, TypeInv, TypeOK, CallOK
    <3> QED BY <1>4, <2>2, <3>1 DEF ReadDefinition, DefinitionsValid, TypeInv, TypeOK, stores
  <2> QED BY <2>1, <2>2
<1>5. CASE Restart
  BY <1>5 DEF Restart, DefinitionsValid
<1>6. CASE UNCHANGED vars
  BY <1>1, <1>6 DEF vars, stores, locals
<1>7. ASSUME NEW c \in Calls, CallStep(c), ~ ReadDefinition(c),
             ~ (UNCHANGED jobStore /\ definition' = [definition EXCEPT ![c] = None])
      PROVE  UNCHANGED <<jobStore, definition>>
  BY <1>7 DEF CallStep, Create, SaveWorkflow, SaveRun, AlreadyExecuting, AcquireLocks, ReadRun,
     ReadWorkflow, Start, Mirror, Dispatch, Conclude, SkipLoop, TaskSucceeds,
     TaskFails, Requeue, FailRun, Settle, Push, ApplyTransition, Return, Throw, Leave, stores, locals
<1>8. ASSUME NEW c \in Calls, CallStep(c) PROVE DefinitionsValid'
  BY <1>1, <1>3, <1>4, <1>7, <1>8
<1>9. ASSUME Request PROVE DefinitionsValid'
  <2>1. CASE \E j \in Jobs, d \in Candidates : Register(j, d)
    BY <1>2, <2>1
  <2>2. CASE ~ \E j \in Jobs, d \in Candidates : Register(j, d)
    BY <1>1, <1>9, <2>2 DEF Request, RequestRun, RequestExecute, stores
  <2> QED BY <2>1, <2>2
<1> QED BY <1>5, <1>6, <1>8, <1>9 DEF Next
\* What the other calls see of a step of c.
OthersStay(c) ==
    \A d \in Calls : d # c => /\ pc'[d] = pc[d] /\ callRun'[d] = callRun[d]
                              /\ current'[d] = current[d] /\ workflow'[d] = workflow[d]

\* Where c may go with the workflow it has then.
StaysSound(c) ==
    /\ pc'[c] \in {"task", "backoff", "fail"} => workflow'[c].state = "running"
    /\ pc'[c] = "saveWorkflow" =>
         /\ workflow'[c].state = "pending"
         /\ \A t \in TaskIds : workflow'[c].tasks[t].status \in {"queued", Absent}

\* A step that saves no workflow, of a call that is in no backoff.
LEMMA TaskQuiet ==
    ASSUME TaskInv, NEW c \in Calls, pc[c] # "backoff",
           UNCHANGED workflowStore, OthersStay(c), StaysSound(c)
    PROVE  TaskInv'
<1>1. ASSUME NEW r \in Runs, NEW t \in TaskIds PROVE TaskSettled(r, t)'
  BY DEF TaskInv, TaskSettled, OthersStay
<1>2. CompletedMeansDone' /\ NeverStalls'
  BY DEF TaskInv, CompletedMeansDone, NeverStalls
<1> QED BY <1>1, <1>2 DEF TaskInv, OthersStay, StaysSound

\* A step that saves a workflow of the run c works on.
LEMMA TaskSave ==
    ASSUME TypeInv, TaskInv, NEW c \in Calls, pc[c] # "idle", NEW next,
           workflowStore' = [workflowStore EXCEPT ![callRun[c]] = next],
           \A t \in TaskIds :
               /\ next.tasks[t].status # "running"
               /\ next.tasks[t].status = "retrying" =>
                    pc'[c] = "backoff" /\ callRun'[c] = callRun[c] /\ current'[c] = t,
           next.state = "completed" =>
               \A t \in TaskIds : next.tasks[t].status = Absent \/ IsDone(next.tasks[t].status),
           next.state # "waiting",
           OthersStay(c), StaysSound(c)
    PROVE  TaskInv'
<1>0. callRun[c] \in Runs
  BY DEF TypeInv, TypeOK
<1>1. /\ workflowStore'[callRun[c]] = next
      /\ \A r \in Runs : r # callRun[c] => workflowStore'[r] = workflowStore[r]
  BY <1>0 DEF TypeInv, TypeOK
<1>2. ASSUME NEW r \in Runs, NEW t \in TaskIds PROVE TaskSettled(r, t)'
  <2>1. CASE r = callRun[c]
    BY <1>0, <1>1, <2>1 DEF TaskSettled
  <2>2. CASE r # callRun[c]
    BY <1>1, <2>2 DEF TaskInv, TaskSettled, OthersStay
  <2> QED BY <2>1, <2>2
<1>3. CompletedMeansDone'
  BY <1>1 DEF TaskInv, CompletedMeansDone
<1>4. NeverStalls'
  BY <1>1 DEF TaskInv, NeverStalls
<1> QED BY <1>2, <1>3, <1>4 DEF TaskInv, OthersStay, StaysSound

\* A call at the head of the loop, or about to transition, has no retrying task.
LEMMA NoneRetrying ==
    ASSUME TypeInv, SafeInv, TaskInv, NEW c \in Calls, pc[c] \in Working, pc[c] # "backoff"
    PROVE  \A t \in TaskIds : workflow[c].tasks[t].status \notin {"running", "retrying"}
<1>1. callRun[c] \in Runs /\ workflowStore[callRun[c]] = workflow[c]
  BY DEF TypeInv, TypeOK, SafeInv, NoLostUpdate
<1>2. \A d \in Calls : pc[d] = "backoff" => callRun[d] # callRun[c]
  BY DEF SafeInv, LockInv, OneExecutorPerRun
<1> QED BY <1>1, <1>2 DEF TaskInv, TaskSettled

\* The end of a call changes no other one.
LEMMA LeaveOthers ==
    ASSUME TypeInv, NEW c \in Calls, Leave(c)
    PROVE  OthersStay(c) /\ StaysSound(c)
BY DEF TypeInv, TypeOK, Leave, GoTo, OthersStay, StaysSound

\* applyTransition to any state but "waiting".
LEMMA TransitionTasks ==
    ASSUME TypeInv, SafeInv, TaskInv, NEW c \in Calls, pc[c] \in Working, pc[c] # "backoff",
           NEW event, NEW target, ApplyTransition(c, event, target),
           target # "waiting", target = "completed" => event = "complete"
    PROVE  TaskInv'
<1>1. CASE TransitionAllowed(workflow[c], event, target)
  <2> DEFINE next == Transition(workflow[c], event, target)
  <2>1. next.state = target /\ next.tasks = workflow[c].tasks
    BY DEF Transition
  <2>2. next.state = "completed" =>
          \A t \in TaskIds : next.tasks[t].status = Absent \/ IsDone(next.tasks[t].status)
    BY <1>1, <2>1 DEF TransitionAllowed, GuardAllows
  <2>3. /\ workflow' = [workflow EXCEPT ![c] = next]
        /\ workflowStore' = [workflowStore EXCEPT ![callRun[c]] = next]
        /\ pc' = [pc EXCEPT ![c] = "mirror"]
        /\ UNCHANGED <<callRun, current>>
    BY <1>1 DEF ApplyTransition, GoTo
  <2> HIDE DEF next
  <2>4. OthersStay(c) /\ StaysSound(c)
    BY <2>3 DEF TypeInv, TypeOK, OthersStay, StaysSound
  <2>5. \A t \in TaskIds : next.tasks[t].status \notin {"running", "retrying"}
    BY <2>1, NoneRetrying
  <2>6. next.state # "waiting" /\ pc[c] # "idle"
    BY <2>1 DEF Working, Executing
  <2> QED BY <2>2, <2>3, <2>4, <2>5, <2>6, TaskSave
<1>2. CASE ~ TransitionAllowed(workflow[c], event, target)
  BY <1>2, LeaveOthers, TaskQuiet DEF ApplyTransition, Throw
<1> QED BY <1>1, <1>2

\* updateTask at the end of an attempt or of a backoff.
LEMMA UpdateTasks ==
    ASSUME TypeInv, SafeInv, TaskInv, NEW c \in Calls, pc[c] \in {"task", "backoff"},
           NEW t \in TaskIds, NEW run, UpdateTask(c, t, run), run.status # "running",
           NEW l \in {"loop", "backoff", "fail"}, GoTo(c, l), UNCHANGED callRun,
           run.status = "retrying" => l = "backoff" /\ current'[c] = t,
           pc[c] = "backoff" => t = current[c],
           \A d \in Calls : d # c => current'[d] = current[d]
    PROVE  TaskInv'
<1> DEFINE next == [workflow[c] EXCEPT !.tasks[t] = run]
<1>0. workflow[c] \in WorkflowInstance /\ workflow[c].state = "running"
  BY DEF TypeInv, TypeOK, TaskInv
<1>1. /\ next.state = "running" /\ next.tasks[t] = run
      /\ \A u \in TaskIds : u # t => next.tasks[u] = workflow[c].tasks[u]
  BY <1>0 DEF WorkflowInstance
<1>2. \A u \in TaskIds : u # t => workflow[c].tasks[u].status \notin {"running", "retrying"}
  <2>1. callRun[c] \in Runs /\ workflowStore[callRun[c]] = workflow[c]
    BY DEF TypeInv, TypeOK, SafeInv, NoLostUpdate
  <2>2. \A d \in Calls : d # c /\ pc[d] = "backoff" => callRun[d] # callRun[c]
    BY DEF SafeInv, LockInv, OneExecutorPerRun
  <2>3. ASSUME NEW u \in TaskIds, u # t
        PROVE  workflow[c].tasks[u].status \notin {"running", "retrying"}
    <3>1. TaskSettled(callRun[c], u)
      BY <2>1 DEF TaskInv
    <3>2. ~ \E d \in Calls : pc[d] = "backoff" /\ callRun[d] = callRun[c] /\ current[d] = u
      BY <2>2, <2>3
    <3> QED BY <2>1, <3>1, <3>2 DEF TaskSettled
  <2> QED BY <2>3
<1>3. /\ workflow' = [workflow EXCEPT ![c] = next]
      /\ workflowStore' = [workflowStore EXCEPT ![callRun[c]] = next]
  BY DEF UpdateTask
<1> HIDE DEF next
<1>4. OthersStay(c) /\ StaysSound(c)
  BY <1>1, <1>3 DEF TypeInv, TypeOK, OthersStay, StaysSound, GoTo
<1>5. \A u \in TaskIds :
          /\ next.tasks[u].status # "running"
          /\ next.tasks[u].status = "retrying" =>
               pc'[c] = "backoff" /\ callRun'[c] = callRun[c] /\ current'[c] = u
  BY <1>1, <1>2 DEF TypeInv, TypeOK, GoTo
<1> QED BY <1>1, <1>3, <1>4, <1>5, TaskSave

\* Every step keeps the stored tasks and outcomes sound.
LEMMA TaskStep ==
    TypeInv /\ SafeInv /\ DefinitionsValid /\ TaskInv /\ [Next]_vars => TaskInv'
<1> SUFFICES ASSUME TypeInv, SafeInv, DefinitionsValid, TaskInv, [Next]_vars PROVE TaskInv'
  OBVIOUS
<1>1. ASSUME NEW j \in Jobs, NEW d \in Candidates, Register(j, d) PROVE TaskInv'
  BY <1>1 DEF Register, TaskInv, TaskSettled, CompletedMeansDone, NeverStalls, locals
<1>2. ASSUME NEW c \in Calls, NEW j \in Jobs, NEW r \in Runs, NEW m \in Modes,
             RequestRun(c, j, r, m)
      PROVE  TaskInv'
  BY <1>2, TaskQuiet DEF RequestRun, GoTo, stores, TypeInv, TypeOK, OthersStay, StaysSound
<1>3. ASSUME NEW c \in Calls, NEW r \in Runs, RequestExecute(c, r) PROVE TaskInv'
  BY <1>3, TaskQuiet DEF RequestExecute, GoTo, stores, TypeInv, TypeOK, OthersStay, StaysSound
<1>4. ASSUME NEW c \in Calls, Create(c) PROVE TaskInv'
  <2>1. pc[c] = "create" /\ UNCHANGED workflowStore
    BY <1>4 DEF Create, stores
  <2>2. CASE Leave(c)
    BY <2>1, <2>2, LeaveOthers, TaskQuiet
  <2>3. CASE ~ Leave(c)
    <3> DEFINE new == NewWorkflow(TasksOf(jobStore[callJob[c]]))
    <3>1. /\ workflow' = [workflow EXCEPT ![c] = new]
          /\ GoTo(c, "saveWorkflow")
          /\ UNCHANGED <<callRun, current>>
      BY <1>4, <2>3 DEF Create
    <3>2. new.state = "pending" /\ \A t \in TaskIds : new.tasks[t].status \in {"queued", Absent}
      BY DEF NewWorkflow, NoTaskRun
    <3> HIDE DEF new
    <3>3. OthersStay(c) /\ StaysSound(c)
      BY <3>1, <3>2 DEF TypeInv, TypeOK, OthersStay, StaysSound, GoTo
    <3> QED BY <2>1, <3>3, TaskQuiet
  <2> QED BY <2>2, <2>3
<1>5. ASSUME NEW c \in Calls, SaveWorkflow(c) PROVE TaskInv'
  <2>1. /\ pc[c] = "saveWorkflow"
        /\ workflowStore' = [workflowStore EXCEPT ![callRun[c]] = workflow[c]]
        /\ OthersStay(c) /\ StaysSound(c)
    BY <1>5 DEF SaveWorkflow, GoTo, locals, TypeInv, TypeOK, OthersStay, StaysSound
  <2>2. /\ workflow[c].state = "pending"
        /\ \A t \in TaskIds : workflow[c].tasks[t].status \notin {"running", "retrying"}
    BY <2>1 DEF TaskInv, Absent
  <2> QED BY <2>1, <2>2, TaskSave
<1>6. ASSUME NEW c \in Calls, SaveRun(c) PROVE TaskInv'
  BY <1>6, TaskQuiet DEF SaveRun, GoTo, TypeInv, TypeOK, OthersStay, StaysSound
<1>7. ASSUME NEW c \in Calls, AlreadyExecuting(c) PROVE TaskInv'
  BY <1>7, LeaveOthers, TaskQuiet DEF AlreadyExecuting, stores
<1>8. ASSUME NEW c \in Calls, AcquireLocks(c) PROVE TaskInv'
  <2>1. pc[c] = "enter" /\ UNCHANGED workflowStore
    BY <1>8 DEF AcquireLocks, stores
  <2>2. CASE Leave(c)
    BY <2>1, <2>2, LeaveOthers, TaskQuiet
  <2>3. CASE ~ Leave(c)
    <3>1. GoTo(c, "readRun") /\ UNCHANGED locals
      BY <1>8, <2>3 DEF AcquireLocks
    <3> QED
      BY <2>1, <3>1, TaskQuiet DEF GoTo, locals, TypeInv, TypeOK, OthersStay, StaysSound
  <2> QED BY <2>2, <2>3
<1>9. ASSUME NEW c \in Calls, ReadRun(c) PROVE TaskInv'
  <2>1. CASE Throw(c)
    BY <1>9, <2>1, LeaveOthers, TaskQuiet DEF ReadRun, Throw, stores
  <2>2. CASE ~ Throw(c)
    BY <1>9, <2>2, TaskQuiet
    DEF ReadRun, GoTo, stores, locals, TypeInv, TypeOK, OthersStay, StaysSound
  <2> QED BY <2>1, <2>2
<1>10. ASSUME NEW c \in Calls, ReadDefinition(c) PROVE TaskInv'
  <2>1. CASE Throw(c)
    BY <1>10, <2>1, LeaveOthers, TaskQuiet DEF ReadDefinition, Throw, stores
  <2>2. CASE ~ Throw(c)
    <3>1. /\ pc[c] = "readDefinition" /\ GoTo(c, "readWorkflow")
          /\ UNCHANGED <<callRun, workflow, current, workflowStore>>
      BY <1>10, <2>2 DEF ReadDefinition, stores
    <3> QED BY <3>1, TaskQuiet DEF GoTo, TypeInv, TypeOK, OthersStay, StaysSound
  <2> QED BY <2>1, <2>2
<1>11. ASSUME NEW c \in Calls, ReadWorkflow(c) PROVE TaskInv'
  <2>1. CASE Throw(c)
    BY <1>11, <2>1, LeaveOthers, TaskQuiet DEF ReadWorkflow, Throw, stores
  <2>2. CASE ~ Throw(c)
    <3>1. /\ pc[c] = "readWorkflow" /\ GoTo(c, "start")
          /\ workflow' = [workflow EXCEPT ![c] = workflowStore[callRun[c]]]
          /\ UNCHANGED <<callRun, current, workflowStore>>
      BY <1>11, <2>2 DEF ReadWorkflow, stores
    <3> QED BY <3>1, TaskQuiet DEF GoTo, TypeInv, TypeOK, OthersStay, StaysSound
  <2> QED BY <2>1, <2>2
<1>12. ASSUME NEW c \in Calls, Start(c) PROVE TaskInv'
  <2>1. CASE workflow[c].state = "pending"
    BY <1>12, <2>1, TransitionTasks DEF Start
  <2>2. CASE workflow[c].state # "pending"
    BY <1>12, <2>2, TaskQuiet
    DEF Start, GoTo, locals, TypeInv, TypeOK, OthersStay, StaysSound
  <2> QED BY <2>1, <2>2
<1>13. ASSUME NEW c \in Calls, Mirror(c) PROVE TaskInv'
  <2> DEFINE l == CASE workflow[c].state = "running"       -> "loop"
                    [] workflow[c].state = "dead_lettered" -> "push"
                    [] OTHER                               -> "settle"
  <2>1. l \in {"loop", "push", "settle"}
    OBVIOUS
  <2>2. pc[c] = "mirror" /\ GoTo(c, l) /\ UNCHANGED <<workflowStore, locals>>
    BY <1>13 DEF Mirror
  <2> HIDE DEF l
  <2> QED BY <2>1, <2>2, TaskQuiet DEF GoTo, locals, TypeInv, TypeOK, OthersStay, StaysSound
<1>14. ASSUME NEW c \in Calls, Dispatch(c) PROVE TaskInv'
  <2>1. pc[c] = "loop" /\ workflow[c].state = "running" /\ UNCHANGED workflowStore
    BY <1>14 DEF Dispatch, stores
  <2>2. CASE Throw(c)
    BY <2>1, <2>2, LeaveOthers, TaskQuiet DEF Throw
  <2>3. CASE ~ Throw(c)
    <3>1. PICK t : /\ current' = [current EXCEPT ![c] = t]
                   /\ GoTo(c, "task")
                   /\ UNCHANGED <<callRun, workflow>>
      BY <1>14, <2>3 DEF Dispatch
    <3> QED BY <2>1, <3>1, TaskQuiet DEF GoTo, TypeInv, TypeOK, OthersStay, StaysSound
  <2> QED BY <2>2, <2>3
<1>15. ASSUME NEW c \in Calls, Conclude(c) PROVE TaskInv'
  <2>1. pc[c] = "loop" /\ Runnable(definition[c], workflow[c].tasks) = {}
    BY <1>15 DEF Conclude
  <2>2. AllDone(definition[c], workflow[c].tasks)
    <3>1. definition[c] \in Definition /\ ValidDefinition(definition[c])
      BY <2>1, CandidatesAssumption, NoneAssumption DEF TypeInv, TypeOK, DefinitionsValid
    <3>2. workflow[c].tasks \in [TaskIds -> TaskRun]
      BY DEF TypeInv, TypeOK, WorkflowInstance
    <3> QED BY <2>1, <3>1, <3>2, NoneRetrying, NothingRunnable
  <2>3. CASE Throw(c) /\ UNCHANGED workflowStore
    BY <2>1, <2>3, LeaveOthers, TaskQuiet DEF Throw
  <2>4. CASE ~ (Throw(c) /\ UNCHANGED workflowStore)
    BY <1>15, <2>1, <2>2, <2>4, TransitionTasks DEF Conclude
  <2> QED BY <2>3, <2>4
<1>16. ASSUME NEW c \in Calls, SkipLoop(c) PROVE TaskInv'
  BY <1>16, TaskQuiet DEF SkipLoop, GoTo, stores, locals, TypeInv, TypeOK, OthersStay, StaysSound
<1>17. ASSUME NEW c \in Calls, TaskSucceeds(c) PROVE TaskInv'
  BY <1>17, UpdateTasks DEF TaskSucceeds, TypeInv, TypeOK
<1>18. ASSUME NEW c \in Calls, TaskFails(c) PROVE TaskInv'
  <2> DEFINE attempt == workflow[c].tasks[current[c]].attempt + 1
             retry   == RetryDecision(definition[c], [status |-> "failed", attempt |-> attempt])
             run     == [status |-> IF retry THEN "retrying" ELSE "failed", attempt |-> attempt]
             l       == IF retry THEN "backoff" ELSE "fail"
  <2>1. /\ l \in {"backoff", "fail"}
        /\ run.status # "running" /\ (run.status = "retrying" => l = "backoff")
    OBVIOUS
  <2>2. /\ pc[c] = "task" /\ UpdateTask(c, current[c], run) /\ GoTo(c, l)
        /\ UNCHANGED <<callRun, current>>
    BY <1>18 DEF TaskFails
  <2> HIDE DEF run, l
  <2> QED BY <2>1, <2>2, UpdateTasks DEF TypeInv, TypeOK
<1>19. ASSUME NEW c \in Calls, Requeue(c) PROVE TaskInv'
  <2> DEFINE run == [workflow[c].tasks[current[c]] EXCEPT !.status = "queued"]
  <2>1. run.status = "queued"
    BY <1>19 DEF Requeue, TypeInv, TypeOK, WorkflowInstance, TaskRun
  <2>2. pc[c] = "backoff" /\ UpdateTask(c, current[c], run)
    BY <1>19 DEF Requeue
  <2> HIDE DEF run
  <2> QED BY <1>19, <2>1, <2>2, UpdateTasks DEF Requeue, TypeInv, TypeOK
<1>20. ASSUME NEW c \in Calls, FailRun(c) PROVE TaskInv'
  BY <1>20, TransitionTasks DEF FailRun
<1>21. ASSUME NEW c \in Calls, Settle(c) PROVE TaskInv'
  <2>1. CASE Return(c) /\ UNCHANGED workflowStore
    BY <1>21, <2>1, LeaveOthers, TaskQuiet DEF Settle, Return
  <2>2. CASE ~ (Return(c) /\ UNCHANGED workflowStore)
    BY <1>21, <2>2, TransitionTasks DEF Settle
  <2> QED BY <2>1, <2>2
<1>22. ASSUME NEW c \in Calls, Push(c) PROVE TaskInv'
  BY <1>22, LeaveOthers, TaskQuiet DEF Push, Return
<1>23. ASSUME Restart PROVE TaskInv'
  BY <1>23 DEF Restart, TaskInv, TaskSettled, CompletedMeansDone, NeverStalls, NoWorkflow,
     NoTaskRun, Absent
<1>24. CASE UNCHANGED vars
  BY <1>24 DEF vars, stores, locks, locals, TaskInv, TaskSettled, CompletedMeansDone, NeverStalls
<1> QED
  BY <1>1, <1>2, <1>3, <1>4, <1>5, <1>6, <1>7, <1>8, <1>9, <1>10, <1>11, <1>12, <1>13,
     <1>14, <1>15, <1>16, <1>17, <1>18, <1>19, <1>20, <1>21, <1>22, <1>23, <1>24
  DEF Next, Request, CallStep

\* Initially there are no workflows and no definitions.
LEMMA TaskInit == Init => DefinitionsValid /\ TaskInv
BY DEF Init, DefinitionsValid, TaskInv, TaskSettled, CompletedMeansDone, NeverStalls, NoWorkflow,
   NoTaskRun, Absent

\* No run is ever left in "waiting": for every set of definitions that pass the
\* validator, and however often a job is registered again under a run's feet.
THEOREM RunsNeverStall == Spec => []NeverStalls
<1>1. TaskInv => NeverStalls
  BY DEF TaskInv
<1> QED
  BY <1>1, TypeInit, TypeStep, SafeInit, SafeStep, TaskInit, ValidStep, TaskStep, PTL DEF Spec

\* A completed run has done all its tasks, whatever definition it was completed
\* under.
THEOREM CompletionIsSound == Spec => []CompletedMeansDone
<1>1. TaskInv => CompletedMeansDone
  BY DEF TaskInv
<1> QED
  BY <1>1, TypeInit, TypeStep, SafeInit, SafeStep, TaskInit, ValidStep, TaskStep, PTL DEF Spec
-----------------------------------------------------------------------------
(* The two stores and the dead letters.  StatusFollowsWorkflow depends on  *)
(* where the calls are: a run lags behind its workflow only while its one  *)
(* executor is between the two saves of applyTransition, and holds a       *)
(* failed task only until that executor has failed the run.                *)

\* What the stores say about a run.
RunInv(r) ==
    LET wf == workflowStore[r]
    IN  /\ wf.state = Absent => wf = NoWorkflow
        /\ runStore[r].status # Absent =>
             /\ \/ runStore[r].status = wf.state
                \/ \E c \in Calls : pc[c] = "mirror" /\ callRun[c] = r
             /\ runStore[r].finished <=> IsTerminal(runStore[r].status)
             /\ (\E t \in TaskIds : wf.tasks[t].status = "failed") =>
                  \/ wf.state \in {"failed", "dead_lettered"}
                  \/ \E c \in Calls : pc[c] = "fail" /\ callRun[c] = r

\* What a call has established by the time it is at a location.
StepInv(c) ==
    LET stored == workflowStore[callRun[c]]
        task   == workflow[c].tasks[current[c]]
    IN  /\ pc[c] \in {"create", "saveWorkflow"} => stored.state = Absent
        /\ pc[c] = "saveRun" =>
             /\ stored.state = "pending"
             /\ \A t \in TaskIds : stored.tasks[t].status \in {"queued", Absent}
        /\ pc[c] = "mirror" => ~ IsTerminal(runStore[callRun[c]].status)
        /\ pc[c] = "push" => workflow[c].state = "dead_lettered"
        /\ pc[c] = "task" =>
             /\ DependenciesMet(definition[c], current[c], workflow[c].tasks)
             /\ ~ IsDone(task.status)
        /\ pc[c] = "backoff" => task.status = "retrying"

\* A filed run has reached its end and nobody is about to file it.
FiledInv ==
    \A i \in 1..Len(deadLetters) :
        /\ workflowStore[deadLetters[i]].state = "dead_lettered"
        /\ \A c \in Calls : pc[c] \in {"mirror", "push"} => callRun[c] # deadLetters[i]

StatusInv ==
    /\ \A r \in Runs : RunInv(r)
    /\ \A c \in Calls : StepInv(c)
    /\ FiledInv

\* The other calls keep their frames.
FramesStay(c) ==
    \A d \in Calls : d # c => /\ pc'[d] = pc[d] /\ callRun'[d] = callRun[d]
                              /\ current'[d] = current[d] /\ workflow'[d] = workflow[d]
                              /\ definition'[d] = definition[d]

\* An executor that is not between the two saves of applyTransition finds the
\* stored run in the state of its workflow.
LEMMA Reported ==
    ASSUME TypeInv, SafeInv, StatusInv, NEW c \in Calls, pc[c] \in Working, pc[c] # "mirror"
    PROVE  /\ callRun[c] \in Runs
           /\ workflowStore[callRun[c]] = workflow[c]
           /\ runStore[callRun[c]].status = workflow[c].state
           /\ runStore[callRun[c]].status # Absent
<1>1. callRun[c] \in Runs /\ workflowStore[callRun[c]] = workflow[c]
  BY DEF TypeInv, TypeOK, SafeInv, NoLostUpdate
<1>2. runStore[callRun[c]].status # Absent
  BY DEF TypeInv, CallOK
<1>3. \A d \in Calls : pc[d] = "mirror" => callRun[d] # callRun[c]
  BY DEF SafeInv, LockInv, OneExecutorPerRun
<1> QED BY <1>1, <1>2, <1>3 DEF StatusInv, RunInv

\* A step that writes no store, of a call nobody waits for.
LEMMA StatusQuiet ==
    ASSUME StatusInv, NEW c \in Calls, pc[c] \notin {"mirror", "fail"},
           UNCHANGED <<workflowStore, runStore, deadLetters>>, FramesStay(c),
           pc'[c] \notin {"mirror", "push"}, StepInv(c)'
    PROVE  StatusInv'
<1>1. ASSUME NEW r \in Runs PROVE RunInv(r)'
  <2>1. RunInv(r)
    BY DEF StatusInv
  <2>2. \A d \in Calls : pc[d] \in {"mirror", "fail"} => pc'[d] = pc[d] /\ callRun'[d] = callRun[d]
    BY DEF FramesStay
  <2> QED BY <2>1, <2>2 DEF RunInv
<1>2. ASSUME NEW d \in Calls PROVE StepInv(d)'
  BY DEF StatusInv, StepInv, FramesStay
<1>3. FiledInv'
  BY DEF StatusInv, FiledInv, FramesStay
<1> QED BY <1>1, <1>2, <1>3 DEF StatusInv

\* A step that saves the workflow of the run c works on.
LEMMA StatusSave ==
    ASSUME TypeInv, SafeInv, StatusInv, NEW c \in Calls,
           pc[c] \in Working \cup {"saveWorkflow"}, pc[c] # "mirror", NEW next,
           workflowStore' = [workflowStore EXCEPT ![callRun[c]] = next],
           workflowStore[callRun[c]].state # "dead_lettered",
           UNCHANGED <<runStore, deadLetters, callRun>>, FramesStay(c),
           StepInv(c)', RunInv(callRun[c])'
    PROVE  StatusInv'
<1>0. callRun[c] \in Runs
  BY DEF TypeInv, TypeOK
<1>1. /\ workflowStore'[callRun[c]] = next
      /\ \A r \in Runs : r # callRun[c] => workflowStore'[r] = workflowStore[r]
  BY <1>0 DEF TypeInv, TypeOK
<1>2. ASSUME NEW r \in Runs PROVE RunInv(r)'
  <2>1. CASE r = callRun[c]
    BY <2>1
  <2>2. CASE r # callRun[c]
    <3>1. RunInv(r) /\ workflowStore'[r] = workflowStore[r] /\ runStore'[r] = runStore[r]
      BY <1>1, <2>2 DEF StatusInv
    <3>2. \A d \in Calls : callRun[d] = r => pc'[d] = pc[d] /\ callRun'[d] = r
      BY <2>2 DEF FramesStay
    <3> QED BY <3>1, <3>2 DEF RunInv
  <2> QED BY <2>1, <2>2
<1>3. ASSUME NEW d \in Calls PROVE StepInv(d)'
  <2>1. CASE d # c /\ pc[d] \in Creating
    <3>1. callRun[d] # callRun[c] /\ callRun[d] \in Runs
      BY <2>1 DEF SafeInv, OwnInv, TypeInv, TypeOK
    <3> QED BY <1>1, <2>1, <3>1 DEF StatusInv, StepInv, FramesStay
  <2>2. CASE d # c /\ pc[d] \notin Creating
    BY <2>2 DEF StatusInv, StepInv, FramesStay
  <2> QED BY <2>1, <2>2
<1>4. FiledInv'
  <2>1. ASSUME NEW i \in 1..Len(deadLetters)
        PROVE  /\ deadLetters[i] # callRun[c] /\ deadLetters[i] \in Runs
               /\ workflowStore'[deadLetters[i]].state = "dead_lettered"
               /\ \A d \in Calls : pc'[d] \in {"mirror", "push"} => callRun'[d] # deadLetters[i]
    <3>1. deadLetters[i] # callRun[c] /\ deadLetters[i] \in Runs
      BY DEF StatusInv, FiledInv, TypeInv, TypeOK
    <3> QED BY <1>1, <3>1 DEF StatusInv, FiledInv, FramesStay
  <2> QED BY <2>1 DEF FiledInv
<1> QED BY <1>2, <1>3, <1>4 DEF StatusInv

\* The end of a call.
LEMMA LeaveFrames ==
    ASSUME TypeInv, NEW c \in Calls, Leave(c)
    PROVE  FramesStay(c) /\ pc'[c] = "idle" /\ StepInv(c)'
<1>1. FramesStay(c) /\ pc'[c] = "idle"
  BY DEF TypeInv, TypeOK, Leave, GoTo, FramesStay
<1> QED BY <1>1 DEF StepInv

\* The transitions executeRun asks for.
Asked == {<<"start", "running">>, <<"complete", "completed">>, <<"fail", "failed">>,
          <<"dead_letter", "dead_lettered">>}

\* The rules leave one state to start from for each event the engine raises.
LEMMA TakenFrom ==
    ASSUME NEW from, NEW event, NEW target, CanTransition(from, target, event),
           <<event, target>> \in Asked
    PROVE  /\ event = "start" => from = "pending" /\ target = "running"
           /\ event = "complete" => from = "running" /\ target = "completed"
           /\ event = "fail" => from \in {"running", "waiting"} /\ target = "failed"
           /\ event = "dead_letter" => from = "failed" /\ target = "dead_lettered"
           /\ event \in {"start", "complete", "fail", "dead_letter"}
BY DEF Asked, CanTransition, DefaultTransitionRules, Rule

\* applyTransition, when it is allowed, leaves the run to be mirrored.
LEMMA TransitionStatus ==
    ASSUME TypeInv, SafeInv, TaskInv, StatusInv, NEW c \in Calls,
           pc[c] \in {"start", "loop", "fail", "settle"}, NEW event, NEW target,
           <<event, target>> \in Asked,
           event = "fail" <=> pc[c] = "fail",
           ApplyTransition(c, event, target), UNCHANGED <<jobStore, runStore, deadLetters>>
    PROVE  StatusInv'
<1>0. /\ callRun[c] \in Runs /\ workflow[c] \in WorkflowInstance
      /\ workflowStore[callRun[c]] = workflow[c]
      /\ runStore[callRun[c]].status = workflow[c].state
      /\ runStore[callRun[c]].status # Absent
  BY Reported DEF TypeInv, TypeOK
<1>1. CASE TransitionAllowed(workflow[c], event, target)
  <2> DEFINE next == Transition(workflow[c], event, target)
  <2>1. /\ next.state = target /\ next.tasks = workflow[c].tasks
        /\ event = "start" => workflow[c].state = "pending" /\ target = "running"
        /\ event = "complete" => workflow[c].state = "running" /\ target = "completed"
        /\ event = "fail" => workflow[c].state \in {"running", "waiting"} /\ target = "failed"
        /\ event = "dead_letter" => workflow[c].state = "failed" /\ target = "dead_lettered"
        /\ event \in {"start", "complete", "fail", "dead_letter"}
    BY <1>1, TakenFrom DEF Transition, TransitionAllowed
  <2>2. /\ workflow' = [workflow EXCEPT ![c] = next]
        /\ workflowStore' = [workflowStore EXCEPT ![callRun[c]] = next]
        /\ pc' = [pc EXCEPT ![c] = "mirror"]
        /\ UNCHANGED <<callRun, current, definition>>
    BY <1>1 DEF ApplyTransition, GoTo
  <2> HIDE DEF next
  <2>3. FramesStay(c) /\ pc'[c] = "mirror" /\ callRun'[c] = callRun[c]
    BY <2>2 DEF TypeInv, TypeOK, FramesStay
  <2>4. StepInv(c)'
    BY <1>0, <2>1, <2>3 DEF StepInv, IsTerminal
  <2>5. RunInv(callRun[c])'
    <3>1. workflowStore'[callRun[c]] = next
      BY <1>0, <2>2 DEF TypeInv, TypeOK
    <3>2. RunInv(callRun[c])
      BY <1>0 DEF StatusInv
    <3>3. next.state # Absent
      BY <2>1 DEF Absent
    <3>4. (\E t \in TaskIds : next.tasks[t].status = "failed") =>
             next.state \in {"failed", "dead_lettered"}
      <4>1. \A d \in Calls : d # c /\ pc[d] = "fail" => callRun[d] # callRun[c]
        BY DEF SafeInv, LockInv, OneExecutorPerRun
      <4> QED BY <1>0, <2>1, <3>2, <4>1 DEF RunInv
    <3> QED BY <2>3, <3>1, <3>2, <3>3, <3>4 DEF RunInv
  <2>6. workflowStore[callRun[c]].state # "dead_lettered"
    BY <1>0, <2>1
  <2> QED BY <2>2, <2>3, <2>4, <2>5, <2>6, StatusSave
<1>2. CASE ~ TransitionAllowed(workflow[c], event, target)
  <2>1. pc[c] # "fail"
    <3>1. SUFFICES ASSUME pc[c] = "fail" PROVE TransitionAllowed(workflow[c], "fail", "failed")
      BY <1>2, <3>1 DEF Asked
    <3>2. workflow[c].state = "running"
      BY <3>1 DEF TaskInv
    <3> QED BY <3>2 DEF TransitionAllowed, GuardAllows, CanTransition, DefaultTransitionRules
  <2> QED
    BY <1>2, <2>1, LeaveFrames, StatusQuiet DEF ApplyTransition, Throw
<1> QED BY <1>1, <1>2

\* updateTask at the end of an attempt or of a backoff.
LEMMA UpdateStatus ==
    ASSUME TypeInv, SafeInv, TaskInv, StatusInv, NEW c \in Calls, pc[c] \in {"task", "backoff"},
           NEW run, UpdateTask(c, current[c], run),
           NEW l \in {"loop", "backoff", "fail"}, GoTo(c, l),
           run.status = "failed" => l = "fail",
           l = "backoff" => run.status = "retrying" /\ current'[c] = current[c],
           \A d \in Calls : d # c => current'[d] = current[d],
           UNCHANGED <<runStore, deadLetters, callRun, definition>>
    PROVE  StatusInv'
<1> DEFINE t == current[c]
           next == [workflow[c] EXCEPT !.tasks[t] = run]
<1>0. /\ callRun[c] \in Runs /\ workflow[c] \in WorkflowInstance /\ t \in TaskIds
      /\ workflowStore[callRun[c]] = workflow[c] /\ workflow[c].state = "running"
      /\ runStore[callRun[c]].status = workflow[c].state
      /\ runStore[callRun[c]].status # Absent
  BY Reported DEF TypeInv, TypeOK, TaskInv
<1>1. /\ next.state = "running" /\ next.tasks[t] = run
      /\ \A u \in TaskIds : u # t => next.tasks[u] = workflow[c].tasks[u]
  BY <1>0 DEF WorkflowInstance
<1>2. /\ workflow' = [workflow EXCEPT ![c] = next]
      /\ workflowStore' = [workflowStore EXCEPT ![callRun[c]] = next]
      /\ pc' = [pc EXCEPT ![c] = l]
  BY DEF UpdateTask, GoTo
<1> HIDE DEF next
<1>3. FramesStay(c) /\ pc'[c] = l /\ workflow'[c] = next /\ workflowStore'[callRun[c]] = next
  BY <1>0, <1>2 DEF TypeInv, TypeOK, FramesStay
<1>4. StepInv(c)'
  BY <1>1, <1>3 DEF StepInv
<1>5. RunInv(callRun[c])'
  <2>1. RunInv(callRun[c])
    BY <1>0 DEF StatusInv
  <2>2. \A d \in Calls : pc[d] = "fail" => callRun[d] # callRun[c]
    BY DEF SafeInv, LockInv, OneExecutorPerRun
  <2>3. \A u \in TaskIds : workflow[c].tasks[u].status # "failed"
    BY <1>0, <2>1, <2>2 DEF RunInv
  <2>4. (\E u \in TaskIds : next.tasks[u].status = "failed") => l = "fail"
    BY <1>1, <2>3
  <2> QED BY <1>0, <1>1, <1>3, <2>1, <2>4 DEF RunInv, Absent
<1>6. workflowStore[callRun[c]].state # "dead_lettered"
  BY <1>0
<1> QED BY <1>2, <1>3, <1>4, <1>5, <1>6, StatusSave

\* What applyTransition writes to finishedAt.
LEMMA Finishes ==
    ASSUME NEW f \in [Runs -> JobRun], NEW r \in Runs, NEW target, NEW g,
           g = [f EXCEPT ![r].status = target, ![r].finished = @ \/ IsTerminal(target)]
    PROVE  g[r].finished <=> f[r].finished \/ IsTerminal(target)
BY Zenon DEF JobRun

\* Every step keeps the two stores and the dead letters in step.
LEMMA StatusStep ==
    TypeInv /\ SafeInv /\ DefinitionsValid /\ TaskInv /\ StatusInv /\ [Next]_vars => StatusInv'
<1> SUFFICES ASSUME TypeInv, SafeInv, DefinitionsValid, TaskInv, StatusInv, [Next]_vars
             PROVE  StatusInv'
  OBVIOUS
<1>1. ASSUME NEW j \in Jobs, NEW d \in Candidates, Register(j, d) PROVE StatusInv'
  BY <1>1 DEF Register, StatusInv, RunInv, StepInv, FiledInv, locals
<1>2. ASSUME NEW c \in Calls, NEW j \in Jobs, NEW r \in Runs, NEW m \in Modes,
             RequestRun(c, j, r, m)
      PROVE  StatusInv'
  <2>1. /\ FramesStay(c) /\ pc[c] = "idle" /\ pc'[c] = "create" /\ callRun'[c] = r
        /\ workflowStore[r].state = Absent
        /\ UNCHANGED <<workflowStore, runStore, deadLetters>>
    BY <1>2 DEF RequestRun, FreshRun, GoTo, stores, TypeInv, TypeOK, FramesStay
  <2>2. StepInv(c)'
    BY <2>1 DEF StepInv
  <2> QED BY <2>1, <2>2, StatusQuiet
<1>3. ASSUME NEW c \in Calls, NEW r \in Runs, RequestExecute(c, r) PROVE StatusInv'
  <2>1. /\ FramesStay(c) /\ pc[c] = "idle" /\ pc'[c] = "enter"
        /\ UNCHANGED <<workflowStore, runStore, deadLetters>>
    BY <1>3 DEF RequestExecute, GoTo, stores, TypeInv, TypeOK, FramesStay
  <2> QED BY <2>1, StatusQuiet DEF StepInv
<1>4. ASSUME NEW c \in Calls, Create(c) PROVE StatusInv'
  <2>1. pc[c] = "create" /\ UNCHANGED <<workflowStore, runStore, deadLetters>>
    BY <1>4 DEF Create, stores
  <2>2. CASE Leave(c)
    BY <2>1, <2>2, LeaveFrames, StatusQuiet
  <2>3. CASE ~ Leave(c)
    <3>1. FramesStay(c) /\ pc'[c] = "saveWorkflow" /\ callRun'[c] = callRun[c]
      BY <1>4, <2>3 DEF Create, GoTo, TypeInv, TypeOK, FramesStay
    <3>2. StepInv(c)'
      BY <2>1, <3>1 DEF StatusInv, StepInv
    <3> QED BY <2>1, <3>1, <3>2, StatusQuiet
  <2> QED BY <2>2, <2>3
<1>5. ASSUME NEW c \in Calls, SaveWorkflow(c) PROVE StatusInv'
  <2>1. /\ pc[c] = "saveWorkflow" /\ callRun[c] \in Runs
        /\ workflowStore' = [workflowStore EXCEPT ![callRun[c]] = workflow[c]]
        /\ pc'[c] = "saveRun" /\ FramesStay(c)
        /\ UNCHANGED <<runStore, deadLetters, callRun>>
    BY <1>5 DEF SaveWorkflow, GoTo, locals, TypeInv, TypeOK, FramesStay
  <2>2. /\ workflowStore'[callRun[c]] = workflow[c] /\ workflow[c].state = "pending"
        /\ \A t \in TaskIds : workflow[c].tasks[t].status \in {"queued", Absent}
    BY <2>1 DEF TaskInv, TypeInv, TypeOK
  <2>3. workflowStore[callRun[c]].state = Absent /\ runStore[callRun[c]].status = Absent
    BY <2>1 DEF StatusInv, StepInv, SafeInv, OwnInv
  <2>4. StepInv(c)'
    BY <2>1, <2>2 DEF StepInv
  <2>5. RunInv(callRun[c])'
    BY <2>1, <2>2, <2>3 DEF RunInv, Absent
  <2>6. workflowStore[callRun[c]].state # "dead_lettered"
    BY <2>3 DEF Absent
  <2> QED BY <2>1, <2>4, <2>5, <2>6, StatusSave
<1>6. ASSUME NEW c \in Calls, SaveRun(c) PROVE StatusInv'
  <2>1. /\ pc[c] = "saveRun" /\ pc'[c] = "enter" /\ callRun[c] \in Runs /\ FramesStay(c)
        /\ runStore' = [runStore EXCEPT ![callRun[c]] =
                           [job |-> callJob[c], status |-> "pending", finished |-> FALSE]]
        /\ UNCHANGED <<workflowStore, deadLetters, callRun>>
    BY <1>6 DEF SaveRun, GoTo, TypeInv, TypeOK, FramesStay
  <2>2. /\ workflowStore[callRun[c]].state = "pending"
        /\ \A t \in TaskIds : workflowStore[callRun[c]].tasks[t].status \in {"queued", Absent}
    BY <2>1 DEF StatusInv, StepInv
  <2>3. /\ runStore'[callRun[c]].status = "pending" /\ runStore'[callRun[c]].finished = FALSE
        /\ \A r \in Runs : r # callRun[c] => runStore'[r] = runStore[r]
    BY <2>1 DEF TypeInv, TypeOK
  <2>4. ASSUME NEW r \in Runs PROVE RunInv(r)'
    <3>1. CASE r = callRun[c]
      BY <2>1, <2>2, <2>3, <3>1 DEF RunInv, IsTerminal, Absent
    <3>2. CASE r # callRun[c]
      <4>1. RunInv(r) /\ runStore'[r] = runStore[r]
        BY <2>3, <3>2 DEF StatusInv
      <4>2. \A d \in Calls : callRun[d] = r => pc'[d] = pc[d] /\ callRun'[d] = r
        BY <3>2, <2>1 DEF FramesStay
      <4> QED BY <2>1, <4>1, <4>2 DEF RunInv
    <3> QED BY <3>1, <3>2
  <2>5. ASSUME NEW d \in Calls PROVE StepInv(d)'
    <3>1. CASE d = c
      BY <2>1, <3>1 DEF StepInv
    <3>2. CASE d # c
      <4>1. pc[d] = "mirror" => callRun[d] # callRun[c] /\ callRun[d] \in Runs
        BY <2>1, <3>2 DEF SafeInv, OwnInv, TypeInv, TypeOK
      <4> QED BY <2>1, <2>3, <3>2, <4>1 DEF StatusInv, StepInv, FramesStay
    <3> QED BY <3>1, <3>2
  <2>6. FiledInv'
    BY <2>1 DEF StatusInv, FiledInv, FramesStay
  <2> QED BY <2>4, <2>5, <2>6 DEF StatusInv
<1>7. ASSUME NEW c \in Calls, AlreadyExecuting(c) PROVE StatusInv'
  BY <1>7, LeaveFrames, StatusQuiet DEF AlreadyExecuting, stores
<1>8. ASSUME NEW c \in Calls, AcquireLocks(c) PROVE StatusInv'
  <2>1. pc[c] = "enter" /\ UNCHANGED <<workflowStore, runStore, deadLetters>>
    BY <1>8 DEF AcquireLocks, stores
  <2>2. CASE Leave(c)
    BY <2>1, <2>2, LeaveFrames, StatusQuiet
  <2>3. CASE ~ Leave(c)
    <3>1. FramesStay(c) /\ pc'[c] = "readRun"
      BY <1>8, <2>3 DEF AcquireLocks, GoTo, locals, TypeInv, TypeOK, FramesStay
    <3> QED BY <2>1, <3>1, StatusQuiet DEF StepInv
  <2> QED BY <2>2, <2>3
<1>9. ASSUME NEW c \in Calls, ReadRun(c) PROVE StatusInv'
  <2>1. pc[c] = "readRun" /\ UNCHANGED <<workflowStore, runStore, deadLetters>>
    BY <1>9 DEF ReadRun, stores
  <2>2. CASE Throw(c)
    BY <2>1, <2>2, LeaveFrames, StatusQuiet DEF Throw
  <2>3. CASE ~ Throw(c)
    <3>1. FramesStay(c) /\ pc'[c] = "readDefinition"
      BY <1>9, <2>3 DEF ReadRun, GoTo, locals, TypeInv, TypeOK, FramesStay
    <3> QED BY <2>1, <3>1, StatusQuiet DEF StepInv
  <2> QED BY <2>2, <2>3
<1>10. ASSUME NEW c \in Calls, ReadDefinition(c) PROVE StatusInv'
  <2>1. pc[c] = "readDefinition" /\ UNCHANGED <<workflowStore, runStore, deadLetters>>
    BY <1>10 DEF ReadDefinition, stores
  <2>2. CASE Throw(c)
    BY <2>1, <2>2, LeaveFrames, StatusQuiet DEF Throw
  <2>3. CASE ~ Throw(c)
    <3>1. FramesStay(c) /\ pc'[c] = "readWorkflow"
      BY <1>10, <2>3 DEF ReadDefinition, GoTo, TypeInv, TypeOK, FramesStay
    <3> QED BY <2>1, <3>1, StatusQuiet DEF StepInv
  <2> QED BY <2>2, <2>3
<1>11. ASSUME NEW c \in Calls, ReadWorkflow(c) PROVE StatusInv'
  <2>1. pc[c] = "readWorkflow" /\ UNCHANGED <<workflowStore, runStore, deadLetters>>
    BY <1>11 DEF ReadWorkflow, stores
  <2>2. CASE Throw(c)
    BY <2>1, <2>2, LeaveFrames, StatusQuiet DEF Throw
  <2>3. CASE ~ Throw(c)
    <3>1. FramesStay(c) /\ pc'[c] = "start"
      BY <1>11, <2>3 DEF ReadWorkflow, GoTo, TypeInv, TypeOK, FramesStay
    <3> QED BY <2>1, <3>1, StatusQuiet DEF StepInv
  <2> QED BY <2>2, <2>3
<1>12. ASSUME NEW c \in Calls, Start(c) PROVE StatusInv'
  <2>1. pc[c] = "start" /\ UNCHANGED <<jobStore, runStore, deadLetters>>
    BY <1>12 DEF Start
  <2>2. CASE workflow[c].state = "pending"
    BY <1>12, <2>1, <2>2, TransitionStatus DEF Start, Asked
  <2>3. CASE workflow[c].state # "pending"
    <3>1. FramesStay(c) /\ pc'[c] = "loop" /\ UNCHANGED workflowStore
      BY <1>12, <2>3 DEF Start, GoTo, locals, TypeInv, TypeOK, FramesStay
    <3> QED BY <2>1, <3>1, StatusQuiet DEF StepInv
  <2> QED BY <2>2, <2>3
<1>13. ASSUME NEW c \in Calls, Mirror(c) PROVE StatusInv'
  <2> DEFINE target == workflow[c].state
             l == CASE target = "running"       -> "loop"
                    [] target = "dead_lettered" -> "push"
                    [] OTHER                    -> "settle"
  <2>1. l \in {"loop", "push", "settle"} /\ (l = "push" => target = "dead_lettered")
    OBVIOUS
  <2>2. /\ pc[c] = "mirror" /\ callRun[c] \in Runs
        /\ runStore' = [runStore EXCEPT ![callRun[c]].status = target,
                                        ![callRun[c]].finished = @ \/ IsTerminal(target)]
        /\ pc' = [pc EXCEPT ![c] = l]
        /\ UNCHANGED <<workflowStore, deadLetters, callRun, workflow, definition, current>>
    BY <1>13 DEF Mirror, GoTo, locals, TypeInv, TypeOK
  <2> HIDE DEF l
  <2>3. pc'[c] = l /\ FramesStay(c) /\ workflowStore[callRun[c]] = workflow[c]
    BY <2>2 DEF TypeInv, TypeOK, FramesStay, SafeInv, NoLostUpdate
  <2>4. \A d \in Calls : d # c /\ pc[d] \in Executing => callRun[d] # callRun[c]
    BY <2>2 DEF SafeInv, LockInv, OneExecutorPerRun
  <2>5. /\ runStore'[callRun[c]].status = target
        /\ \A r \in Runs : r # callRun[c] => runStore'[r] = runStore[r]
    BY <2>2 DEF TypeInv, TypeOK, JobRun
  <2>6. runStore'[callRun[c]].finished <=> runStore[callRun[c]].finished \/ IsTerminal(target)
    <3>1. runStore \in [Runs -> JobRun]
      BY DEF TypeInv, TypeOK
    <3>2. runStore' = [runStore EXCEPT ![callRun[c]].status = target,
                                       ![callRun[c]].finished = @ \/ IsTerminal(target)]
      BY <2>2
    <3> HIDE DEF target
    <3> QED BY <2>2, <3>1, <3>2, Finishes, Zenon
  <2>7. ASSUME NEW r \in Runs PROVE RunInv(r)'
    <3>1. RunInv(r)
      BY DEF StatusInv
    <3>2. CASE r = callRun[c]
      <4>1. runStore[r].status # Absent /\ ~ IsTerminal(runStore[r].status)
        BY <2>2, <3>2 DEF StatusInv, StepInv, TypeInv, CallOK
      <4>2. \A d \in Calls : callRun[d] = r => pc[d] # "fail"
        BY <2>2, <2>4, <3>2
      <4> QED BY <2>2, <2>3, <2>5, <2>6, <3>1, <3>2, <4>1, <4>2 DEF RunInv
    <3>3. CASE r # callRun[c]
      <4>1. \A d \in Calls : callRun[d] = r => pc'[d] = pc[d] /\ callRun'[d] = r
        BY <2>3, <3>3 DEF FramesStay
      <4> QED BY <2>2, <2>5, <3>1, <3>3, <4>1 DEF RunInv
    <3> QED BY <3>2, <3>3
  <2>8. ASSUME NEW d \in Calls PROVE StepInv(d)'
    <3>1. CASE d = c
      BY <2>1, <2>2, <2>3, <3>1 DEF StepInv
    <3>2. CASE d # c
      <4>1. pc[d] = "mirror" => runStore'[callRun[d]] = runStore[callRun[d]]
        BY <2>4, <2>5, <3>2 DEF TypeInv, TypeOK
      <4>2. UNCHANGED <<workflowStore, callRun>>
        BY <2>2
      <4> QED BY <2>3, <3>2, <4>1, <4>2 DEF StatusInv, StepInv, FramesStay
    <3> QED BY <3>1, <3>2
  <2>9. FiledInv'
    BY <2>2, <2>3 DEF StatusInv, FiledInv, FramesStay
  <2> QED BY <2>7, <2>8, <2>9 DEF StatusInv
<1>14. ASSUME NEW c \in Calls, Dispatch(c) PROVE StatusInv'
  <2>1. pc[c] = "loop" /\ UNCHANGED <<workflowStore, runStore, deadLetters>>
    BY <1>14 DEF Dispatch, stores
  <2>2. CASE Throw(c)
    BY <2>1, <2>2, LeaveFrames, StatusQuiet DEF Throw
  <2>3. CASE ~ Throw(c)
    <3>1. PICK i \in Runnable(definition[c], workflow[c].tasks) :
               /\ current' = [current EXCEPT ![c] = definition[c].tasks[i]]
               /\ GoTo(c, "task")
               /\ UNCHANGED <<callRun, definition, workflow>>
      BY <1>14, <2>3 DEF Dispatch
    <3>2. /\ FramesStay(c) /\ pc'[c] = "task" /\ current'[c] = definition[c].tasks[i]
          /\ definition'[c] = definition[c] /\ workflow'[c] = workflow[c]
      BY <3>1 DEF GoTo, TypeInv, TypeOK, FramesStay
    <3>3. /\ DependenciesMet(definition[c], definition[c].tasks[i], workflow[c].tasks)
          /\ ~ IsDone(workflow[c].tasks[definition[c].tasks[i]].status)
      BY DEF Runnable
    <3>4. StepInv(c)'
      BY <3>2, <3>3 DEF StepInv, DependenciesMet
    <3> QED BY <2>1, <3>2, <3>4, StatusQuiet
  <2> QED BY <2>2, <2>3
<1>15. ASSUME NEW c \in Calls, Conclude(c) PROVE StatusInv'
  <2>1. pc[c] = "loop" /\ UNCHANGED <<jobStore, runStore, deadLetters>>
    BY <1>15 DEF Conclude
  <2>2. AllDone(definition[c], workflow[c].tasks)
    <3>1. definition[c] \in Definition /\ ValidDefinition(definition[c])
      BY <2>1, CandidatesAssumption, NoneAssumption DEF TypeInv, TypeOK, DefinitionsValid
    <3>2. workflow[c].tasks \in [TaskIds -> TaskRun]
      BY DEF TypeInv, TypeOK, WorkflowInstance
    <3> QED BY <1>15, <2>1, <3>1, <3>2, NoneRetrying, NothingRunnable DEF Conclude
  <2>3. CASE Throw(c) /\ UNCHANGED workflowStore
    BY <2>1, <2>3, LeaveFrames, StatusQuiet DEF Throw
  <2>4. CASE ~ (Throw(c) /\ UNCHANGED workflowStore)
    BY <1>15, <2>1, <2>2, <2>4, TransitionStatus DEF Conclude, Asked
  <2> QED BY <2>3, <2>4
<1>16. ASSUME NEW c \in Calls, SkipLoop(c) PROVE StatusInv'
  <2>1. /\ pc[c] = "loop" /\ pc'[c] = "settle" /\ FramesStay(c)
        /\ UNCHANGED <<workflowStore, runStore, deadLetters>>
    BY <1>16 DEF SkipLoop, GoTo, stores, locals, TypeInv, TypeOK, FramesStay
  <2> QED BY <2>1, StatusQuiet DEF StepInv
<1>17. ASSUME NEW c \in Calls, TaskSucceeds(c) PROVE StatusInv'
  BY <1>17, UpdateStatus DEF TaskSucceeds, TypeInv, TypeOK
<1>18. ASSUME NEW c \in Calls, TaskFails(c) PROVE StatusInv'
  <2> DEFINE attempt == workflow[c].tasks[current[c]].attempt + 1
             retry   == RetryDecision(definition[c], [status |-> "failed", attempt |-> attempt])
             run     == [status |-> IF retry THEN "retrying" ELSE "failed", attempt |-> attempt]
             l       == IF retry THEN "backoff" ELSE "fail"
  <2>1. /\ l \in {"backoff", "fail"}
        /\ run.status = "failed" => l = "fail"
        /\ l = "backoff" => run.status = "retrying"
    OBVIOUS
  <2>2. /\ pc[c] = "task" /\ UpdateTask(c, current[c], run) /\ GoTo(c, l)
        /\ UNCHANGED <<runStore, deadLetters, callRun, current, definition>>
    BY <1>18 DEF TaskFails
  <2> HIDE DEF run, l
  <2> QED BY <2>1, <2>2, UpdateStatus
<1>19. ASSUME NEW c \in Calls, Requeue(c) PROVE StatusInv'
  <2> DEFINE run == [workflow[c].tasks[current[c]] EXCEPT !.status = "queued"]
  <2>1. run.status = "queued"
    BY <1>19 DEF Requeue, TypeInv, TypeOK, WorkflowInstance, TaskRun
  <2>2. pc[c] = "backoff" /\ UpdateTask(c, current[c], run)
    BY <1>19 DEF Requeue
  <2> HIDE DEF run
  <2> QED BY <1>19, <2>1, <2>2, UpdateStatus DEF Requeue, TypeInv, TypeOK
<1>20. ASSUME NEW c \in Calls, FailRun(c) PROVE StatusInv'
  BY <1>20, TransitionStatus DEF FailRun, Asked
<1>21. ASSUME NEW c \in Calls, Settle(c) PROVE StatusInv'
  <2>1. pc[c] = "settle" /\ UNCHANGED <<jobStore, runStore, deadLetters>>
    BY <1>21 DEF Settle
  <2>2. CASE Return(c) /\ UNCHANGED workflowStore
    BY <2>1, <2>2, LeaveFrames, StatusQuiet DEF Return
  <2>3. CASE ~ (Return(c) /\ UNCHANGED workflowStore)
    BY <1>21, <2>1, <2>3, TransitionStatus DEF Settle, Asked
  <2> QED BY <2>2, <2>3
<1>22. ASSUME NEW c \in Calls, Push(c) PROVE StatusInv'
  <2>1. /\ pc[c] = "push" /\ Leave(c) /\ deadLetters' = Append(deadLetters, callRun[c])
        /\ UNCHANGED <<workflowStore, runStore>>
    BY <1>22 DEF Push, Return
  <2>2. FramesStay(c) /\ pc'[c] = "idle" /\ StepInv(c)'
    BY <2>1, LeaveFrames
  <2>3. workflowStore[callRun[c]].state = "dead_lettered" /\ callRun[c] \in Runs
    BY <2>1, Reported DEF StatusInv, StepInv
  <2>4. ASSUME NEW r \in Runs PROVE RunInv(r)'
    <3>1. RunInv(r)
      BY DEF StatusInv
    <3>2. \A d \in Calls : pc[d] \in {"mirror", "fail"} => pc'[d] = pc[d] /\ callRun'[d] = callRun[d]
      BY <2>1, <2>2 DEF FramesStay
    <3> QED BY <2>1, <3>1, <3>2 DEF RunInv
  <2>5. ASSUME NEW d \in Calls PROVE StepInv(d)'
    BY <2>1, <2>2 DEF StatusInv, StepInv, FramesStay
  <2>6. FiledInv'
    <3>1. \A d \in Calls : d # c /\ pc[d] \in {"mirror", "push"} => callRun[d] # callRun[c]
      BY <2>1 DEF SafeInv, LockInv, OneExecutorPerRun
    <3>2. ASSUME NEW i \in 1..Len(deadLetters')
          PROVE  /\ workflowStore'[deadLetters'[i]].state = "dead_lettered"
                 /\ \A d \in Calls : pc'[d] \in {"mirror", "push"} => callRun'[d] # deadLetters'[i]
      <4>1. deadLetters \in Seq(Runs)
        BY DEF TypeInv, TypeOK
      <4>2. CASE i \in 1..Len(deadLetters)
        <5>1. deadLetters'[i] = deadLetters[i]
          BY <2>1, <2>3, <4>1, <4>2
        <5> QED BY <2>1, <2>2, <4>2, <5>1 DEF StatusInv, FiledInv, FramesStay
      <4>3. CASE i \notin 1..Len(deadLetters)
        <5>1. deadLetters'[i] = callRun[c]
          BY <2>1, <2>3, <4>1, <4>3
        <5> QED BY <2>1, <2>2, <2>3, <3>1, <5>1 DEF FramesStay
      <4> QED BY <4>2, <4>3
    <3> QED BY <3>2 DEF FiledInv
  <2> QED BY <2>4, <2>5, <2>6 DEF StatusInv
<1>23. ASSUME Restart PROVE StatusInv'
  BY <1>23 DEF Restart, StatusInv, RunInv, StepInv, FiledInv, NoWorkflow, NoRun, NoTaskRun, Absent
<1>24. CASE UNCHANGED vars
  BY <1>24 DEF vars, stores, locks, locals, StatusInv, RunInv, StepInv, FiledInv
<1> QED
  BY <1>1, <1>2, <1>3, <1>4, <1>5, <1>6, <1>7, <1>8, <1>9, <1>10, <1>11, <1>12, <1>13,
     <1>14, <1>15, <1>16, <1>17, <1>18, <1>19, <1>20, <1>21, <1>22, <1>23, <1>24
  DEF Next, Request, CallStep

\* Initially there is nothing to be out of step.
LEMMA StatusInit == Init => StatusInv
BY DEF Init, StatusInv, RunInv, StepInv, FiledInv, NoWorkflow, NoRun, NoTaskRun, Absent

\* What the engine keeps about its runs, in one invariant.
EngineInv == TypeInv /\ SafeInv /\ DefinitionsValid /\ TaskInv /\ StatusInv

\* ... holds in every reachable state.
LEMMA EngineInvariant == Spec => []EngineInv
<1>1. Init => EngineInv
  BY TypeInit, SafeInit, TaskInit, StatusInit DEF EngineInv
<1>2. EngineInv /\ [Next]_vars => EngineInv'
  BY TypeStep, SafeStep, ValidStep, TaskStep, StatusStep DEF EngineInv
<1> QED BY <1>1, <1>2, PTL DEF Spec

\* The run the API shows and the workflow the engine executes agree outside of
\* applyTransition, a finish time means a terminal status, and a failed task has
\* failed its run.
THEOREM RunsShowTheirWorkflow == Spec => []StatusFollowsWorkflow
<1>1. EngineInv => StatusFollowsWorkflow
  BY DEF EngineInv, StatusInv, RunInv, StatusFollowsWorkflow
<1> QED BY <1>1, EngineInvariant, PTL

\* No handler starts, or runs, before what it depends on is stored as done.
THEOREM HandlersWait == Spec => []DependenciesFirst
<1>1. EngineInv => DependenciesFirst
  BY DEF EngineInv, StatusInv, StepInv, DependenciesFirst, DependenciesMet, SafeInv, NoLostUpdate
<1> QED BY <1>1, EngineInvariant, PTL
-----------------------------------------------------------------------------
(* Progress.  A workflow is created over nothing, and afterwards only the  *)
(* task under way is replaced, which is not a succeeded one.               *)

\* What a step may do to a stored task.
TaskKept(r, t) ==
    LET old == workflowStore[r].tasks[t]
        new == workflowStore'[r].tasks[t]
    IN  ~ crashed => /\ new.attempt >= old.attempt
                     /\ old.status = "succeeded" => new = old

\* updateTask of a task that was under way.
LEMMA UpdateProgress ==
    ASSUME TypeInv, SafeInv, NEW c \in Calls, pc[c] \in Working,
           NEW t \in TaskIds, NEW run, UpdateTask(c, t, run),
           run.attempt >= workflow[c].tasks[t].attempt,
           workflow[c].tasks[t].status # "succeeded"
    PROVE  \A r \in Runs, u \in TaskIds : TaskKept(r, u)
<1> DEFINE next == [workflow[c] EXCEPT !.tasks[t] = run]
<1>1. /\ callRun[c] \in Runs /\ workflowStore[callRun[c]] = workflow[c]
      /\ workflow[c] \in WorkflowInstance /\ workflowStore \in [Runs -> WorkflowInstance]
  BY DEF TypeInv, TypeOK, SafeInv, NoLostUpdate
<1>2. next.tasks[t] = run /\ \A u \in TaskIds : u # t => next.tasks[u] = workflow[c].tasks[u]
  BY <1>1 DEF WorkflowInstance
<1>3. workflowStore' = [workflowStore EXCEPT ![callRun[c]] = next]
  BY DEF UpdateTask
<1> HIDE DEF next
<1>4. ASSUME NEW r \in Runs, NEW u \in TaskIds PROVE TaskKept(r, u)
  <2>1. workflowStore[r].tasks[u].attempt \in Nat
    BY <1>1 DEF WorkflowInstance, TaskRun
  <2>2. CASE r = callRun[c] /\ u = t
    BY <1>1, <1>2, <1>3, <2>2 DEF TaskKept
  <2>3. CASE ~ (r = callRun[c] /\ u = t)
    <3>1. workflowStore'[r].tasks[u] = workflowStore[r].tasks[u]
      BY <1>1, <1>2, <1>3, <2>3
    <3> QED BY <2>1, <3>1 DEF TaskKept
  <2> QED BY <2>2, <2>3
<1> QED BY <1>4

\* Every step keeps what the tasks have achieved.
LEMMA ProgressStep ==
    EngineInv /\ [Next]_vars => \A r \in Runs, t \in TaskIds : TaskKept(r, t)
<1> SUFFICES ASSUME TypeInv, SafeInv, TaskInv, StatusInv, [Next]_vars
             PROVE  \A r \in Runs, t \in TaskIds : TaskKept(r, t)
  BY DEF EngineInv
<1>0. workflowStore \in [Runs -> WorkflowInstance]
  BY DEF TypeInv, TypeOK
<1>1. ASSUME \A r \in Runs : workflowStore'[r].tasks = workflowStore[r].tasks
      PROVE  \A r \in Runs, t \in TaskIds : TaskKept(r, t)
  <2>1. \A r \in Runs, t \in TaskIds : workflowStore[r].tasks[t].attempt \in Nat
    BY <1>0 DEF WorkflowInstance, TaskRun
  <2> QED BY <1>1, <2>1 DEF TaskKept
<1>2. ASSUME NEW c \in Calls, NEW event, NEW target, pc[c] \in Working,
             ApplyTransition(c, event, target)
      PROVE  \A r \in Runs, t \in TaskIds : TaskKept(r, t)
  <2>1. callRun[c] \in Runs /\ workflowStore[callRun[c]] = workflow[c]
    BY <1>2 DEF TypeInv, TypeOK, SafeInv, NoLostUpdate
  <2>2. CASE TransitionAllowed(workflow[c], event, target)
    <3> DEFINE next == Transition(workflow[c], event, target)
    <3>1. next.tasks = workflow[c].tasks
      BY DEF Transition
    <3>2. workflowStore' = [workflowStore EXCEPT ![callRun[c]] = next]
      BY <1>2, <2>2 DEF ApplyTransition
    <3> HIDE DEF next
    <3> QED BY <1>0, <1>1, <2>1, <3>1, <3>2
  <2>3. CASE ~ TransitionAllowed(workflow[c], event, target)
    BY <1>1, <1>2, <2>3 DEF ApplyTransition
  <2> QED BY <2>2, <2>3
<1>3. ASSUME NEW c \in Calls, SaveWorkflow(c)
      PROVE  \A r \in Runs, t \in TaskIds : TaskKept(r, t)
  <2>1. /\ callRun[c] \in Runs /\ workflowStore[callRun[c]] = NoWorkflow
        /\ workflowStore' = [workflowStore EXCEPT ![callRun[c]] = workflow[c]]
        /\ workflow[c] \in WorkflowInstance
    BY <1>3 DEF SaveWorkflow, TypeInv, TypeOK, StatusInv, StepInv, RunInv
  <2>2. ASSUME NEW r \in Runs, NEW t \in TaskIds PROVE TaskKept(r, t)
    <3>1. CASE r = callRun[c]
      <4>1. workflowStore'[r].tasks[t].attempt \in Nat
        BY <1>0, <2>1, <3>1 DEF WorkflowInstance, TaskRun
      <4>2. workflowStore[r].tasks[t] = NoTaskRun
        BY <2>1, <3>1 DEF NoWorkflow
      <4> QED BY <4>1, <4>2 DEF TaskKept, NoTaskRun, Absent
    <3>2. CASE r # callRun[c]
      <4>1. workflowStore'[r] = workflowStore[r] /\ workflowStore[r].tasks[t].attempt \in Nat
        BY <1>0, <2>1, <3>2 DEF WorkflowInstance, TaskRun
      <4> QED BY <4>1 DEF TaskKept
    <3> QED BY <3>1, <3>2
  <2> QED BY <2>2
<1>4. ASSUME NEW c \in Calls, TaskSucceeds(c) \/ TaskFails(c) \/ Requeue(c)
      PROVE  \A r \in Runs, t \in TaskIds : TaskKept(r, t)
  <2>1. /\ pc[c] \in {"task", "backoff"} /\ current[c] \in TaskIds
        /\ workflow[c].tasks[current[c]].attempt \in Nat
        /\ workflow[c].tasks[current[c]] \in TaskRun
    BY <1>4 DEF TaskSucceeds, TaskFails, Requeue, TypeInv, TypeOK, WorkflowInstance, TaskRun
  <2>2. workflow[c].tasks[current[c]].status # "succeeded"
    BY <2>1 DEF StatusInv, StepInv, IsDone
  <2>3. PICK run : /\ UpdateTask(c, current[c], run)
                   /\ run.attempt >= workflow[c].tasks[current[c]].attempt
    BY <1>4, <2>1 DEF TaskSucceeds, TaskFails, Requeue, TaskRun
  <2> QED BY <2>1, <2>2, <2>3, UpdateProgress
<1>5. CASE Restart
  BY <1>5 DEF Restart, TaskKept
<1>6. ASSUME NEW c \in Calls, CallStep(c) PROVE \A r \in Runs, t \in TaskIds : TaskKept(r, t)
  <2>1. CASE UNCHANGED workflowStore
    BY <1>1, <2>1
  <2>2. CASE ~ UNCHANGED workflowStore
    BY <1>2, <1>3, <1>4, <1>6, <2>2
    DEF CallStep, Create, SaveRun, AlreadyExecuting, AcquireLocks, ReadRun, ReadDefinition,
        ReadWorkflow, Start, Mirror, Dispatch, Conclude, SkipLoop, FailRun, Settle, Push, stores
  <2> QED BY <2>1, <2>2
<1>7. CASE Request \/ UNCHANGED vars
  BY <1>1, <1>7 DEF Request, Register, RequestRun, RequestExecute, vars, stores
<1> QED BY <1>5, <1>6, <1>7 DEF Next

\* Work that was done stays done, in every run and at every step short of the end
\* of the process: attempts are never forgotten and no succeeded task is touched.
THEOREM ProgressIsNeverLost == Spec => ProgressIsKept
<1>1. EngineInv /\ [Next]_vars =>
        [\A r \in Runs, t \in TaskIds :
            LET old == workflowStore[r].tasks[t]
                new == workflowStore'[r].tasks[t]
            IN  ~ crashed => /\ new.attempt >= old.attempt
                             /\ old.status = "succeeded" => new = old]_vars
  BY ProgressStep DEF TaskKept
<1> QED BY <1>1, EngineInvariant, PTL DEF Spec, ProgressIsKept
-----------------------------------------------------------------------------
(* Refinement.  A step of the engine is a step of the life of one run, or  *)
(* a stutter: transitions are taken from a reported state because the      *)
(* executor mirrors each one before it goes on, and a run is filed once    *)
(* because only its one executor takes it to dead_lettered.                *)

\* A step that changes the state of no run, its report or the dead letters.
LifecycleStays ==
    /\ \A r \in Runs : /\ workflowStore'[r].state = workflowStore[r].state
                       /\ runStore'[r].status = runStore[r].status
    /\ UNCHANGED deadLetters

\* It is a stuttering step of the abstract specification.
LEMMA Stutters ==
    ASSUME LifecycleStays
    PROVE  UNCHANGED Lifecycle!lifecycleVars
BY DEF LifecycleStays, Lifecycle!lifecycleVars

\* A step of the abstract specification, or a stutter.
LifecycleStep == [Lifecycle!Next]_(Lifecycle!lifecycleVars)

\* A transition of a run whose state had been reported is a step of its life.
LEMMA TransitionImplements ==
    ASSUME TypeInv, SafeInv, TaskInv, StatusInv, NEW c \in Calls,
           pc[c] \in {"start", "loop", "fail", "settle"}, NEW event, NEW target,
           <<event, target>> \in Asked,
           ApplyTransition(c, event, target), UNCHANGED <<jobStore, runStore, deadLetters>>
    PROVE  LifecycleStep
<1>0. /\ callRun[c] \in Runs /\ workflow[c] \in WorkflowInstance
      /\ workflowStore[callRun[c]] = workflow[c]
      /\ runStore[callRun[c]].status = workflow[c].state
  BY Reported DEF TypeInv, TypeOK
<1>1. CASE TransitionAllowed(workflow[c], event, target)
  <2>0. PICK r \in Runs : r = callRun[c]
    BY <1>0
  <2> DEFINE next == Transition(workflow[c], event, target)
  <2>1. /\ next.state = target
        /\ event = "start" => workflow[c].state = "pending" /\ target = "running"
        /\ event = "complete" => workflow[c].state = "running" /\ target = "completed"
        /\ event = "fail" => workflow[c].state \in {"running", "waiting"} /\ target = "failed"
        /\ event = "dead_letter" => workflow[c].state = "failed" /\ target = "dead_lettered"
        /\ event \in {"start", "complete", "fail", "dead_letter"}
    BY <1>1, TakenFrom DEF Transition, TransitionAllowed
  <2>2. workflowStore' = [workflowStore EXCEPT ![r] = next]
    BY <1>1, <2>0 DEF ApplyTransition
  <2>3. workflow[c].state # "waiting"
    BY <1>0 DEF TaskInv, NeverStalls
  <2> HIDE DEF next
  <2>4. [q \in Runs |-> workflowStore'[q].state]
          = [[q \in Runs |-> workflowStore[q].state] EXCEPT ![r] = target]
    BY <2>1, <2>2 DEF TypeInv, TypeOK
  <2>5. /\ UNCHANGED <<[q \in Runs |-> runStore[q].status], deadLetters>>
        /\ [q \in Runs |-> workflowStore[q].state][r] = workflow[c].state
        /\ [q \in Runs |-> runStore[q].status][r] = workflow[c].state
    BY <1>0, <2>0
  <2>6. Lifecycle!Change(r, workflow[c].state, target)
    BY <2>4, <2>5 DEF Lifecycle!Change
  <2>7. \/ Lifecycle!Begin(r) \/ Lifecycle!Complete(r) \/ Lifecycle!Fail(r) \/ Lifecycle!DeadLetter(r)
    BY <2>1, <2>3, <2>6
    DEF Lifecycle!Begin, Lifecycle!Complete, Lifecycle!Fail, Lifecycle!DeadLetter
  <2>8. Lifecycle!Next
    BY <2>7 DEF Lifecycle!Next
  <2> QED BY <2>8 DEF LifecycleStep
<1>2. CASE ~ TransitionAllowed(workflow[c], event, target)
  <2>1. UNCHANGED workflowStore
    BY <1>2 DEF ApplyTransition
  <2> QED BY <2>1, Stutters DEF LifecycleStays, LifecycleStep
<1> QED BY <1>1, <1>2

\* updateTask leaves the state of the workflow alone.
LEMMA UpdateImplements ==
    ASSUME TypeInv, SafeInv, NEW c \in Calls, pc[c] \in Working,
           NEW t, NEW run, UpdateTask(c, t, run), UNCHANGED <<runStore, deadLetters>>
    PROVE  LifecycleStep
<1> DEFINE next == [workflow[c] EXCEPT !.tasks[t] = run]
<1>1. /\ callRun[c] \in Runs /\ workflowStore[callRun[c]] = workflow[c]
      /\ workflow[c] \in WorkflowInstance
  BY DEF TypeInv, TypeOK, SafeInv, NoLostUpdate
<1>2. next.state = workflow[c].state
  BY <1>1 DEF WorkflowInstance
<1>3. workflowStore' = [workflowStore EXCEPT ![callRun[c]] = next]
  BY DEF UpdateTask
<1> HIDE DEF next
<1>4. LifecycleStays
  BY <1>1, <1>2, <1>3 DEF LifecycleStays, TypeInv, TypeOK
<1> QED BY <1>4, Stutters DEF LifecycleStep

\* Every step of the engine is a step of the life of one run, or of none.
LEMMA ImplementsStep == EngineInv /\ [Next]_vars => LifecycleStep
<1> SUFFICES ASSUME TypeInv, SafeInv, DefinitionsValid, TaskInv, StatusInv, [Next]_vars
             PROVE  LifecycleStep
  BY DEF EngineInv
<1>1. ASSUME LifecycleStays PROVE LifecycleStep
  BY <1>1, Stutters DEF LifecycleStep
<1>2. ASSUME NEW j \in Jobs, NEW d \in Candidates, Register(j, d) PROVE LifecycleStep
  BY <1>1, <1>2 DEF Register, LifecycleStays
<1>3. ASSUME NEW c \in Calls, NEW j \in Jobs, NEW r \in Runs, NEW m \in Modes,
             RequestRun(c, j, r, m)
      PROVE  LifecycleStep
  BY <1>1, <1>3 DEF RequestRun, LifecycleStays, stores
<1>4. ASSUME NEW c \in Calls, NEW r \in Runs, RequestExecute(c, r) PROVE LifecycleStep
  BY <1>1, <1>4 DEF RequestExecute, LifecycleStays, stores
<1>5. ASSUME NEW c \in Calls,
             \/ Create(c) \/ AlreadyExecuting(c) \/ AcquireLocks(c) \/ ReadRun(c)
             \/ ReadDefinition(c) \/ ReadWorkflow(c) \/ Dispatch(c) \/ SkipLoop(c)
      PROVE  LifecycleStep
  BY <1>1, <1>5 DEF Create, AlreadyExecuting, AcquireLocks, ReadRun, ReadDefinition, ReadWorkflow,
     Dispatch, SkipLoop, LifecycleStays, stores
<1>6. ASSUME NEW c \in Calls, SaveWorkflow(c) PROVE LifecycleStep
  <2>1. /\ pc[c] = "saveWorkflow" /\ callRun[c] \in Runs
        /\ workflowStore' = [workflowStore EXCEPT ![callRun[c]] = workflow[c]]
        /\ UNCHANGED <<runStore, deadLetters>>
    BY <1>6 DEF SaveWorkflow, TypeInv, TypeOK
  <2>2. PICK r \in Runs : r = callRun[c]
    BY <2>1
  <2>3. workflowStore[r].state = "absent" /\ workflow[c].state = "pending"
    BY <2>1, <2>2 DEF StatusInv, StepInv, TaskInv, Absent
  <2>4. [q \in Runs |-> workflowStore'[q].state]
          = [[q \in Runs |-> workflowStore[q].state] EXCEPT ![r] = "pending"]
    BY <2>1, <2>2, <2>3 DEF TypeInv, TypeOK
  <2>5. Lifecycle!Submit(r)
    BY <2>1, <2>3, <2>4 DEF Lifecycle!Submit
  <2>6. Lifecycle!Next
    BY <2>5 DEF Lifecycle!Next
  <2> QED BY <2>6 DEF LifecycleStep
<1>7. ASSUME NEW c \in Calls, SaveRun(c) PROVE LifecycleStep
  <2>1. /\ pc[c] = "saveRun" /\ callRun[c] \in Runs
        /\ runStore' = [runStore EXCEPT ![callRun[c]] =
                           [job |-> callJob[c], status |-> "pending", finished |-> FALSE]]
        /\ UNCHANGED <<workflowStore, deadLetters>>
    BY <1>7 DEF SaveRun, TypeInv, TypeOK
  <2>2. PICK r \in Runs : r = callRun[c]
    BY <2>1
  <2>3. workflowStore[r].state = "pending" /\ runStore[r].status # "pending"
    BY <2>1, <2>2 DEF StatusInv, StepInv, SafeInv, OwnInv, Absent
  <2>4. [q \in Runs |-> runStore'[q].status]
          = [[q \in Runs |-> runStore[q].status] EXCEPT ![r] = "pending"]
    BY <2>1, <2>2 DEF TypeInv, TypeOK
  <2>5. Lifecycle!Report(r)
    BY <2>1, <2>3, <2>4 DEF Lifecycle!Report
  <2>6. Lifecycle!Next
    BY <2>5 DEF Lifecycle!Next
  <2> QED BY <2>6 DEF LifecycleStep
<1>8. ASSUME NEW c \in Calls, Start(c) PROVE LifecycleStep
  <2>1. CASE workflow[c].state = "pending"
    BY <1>8, <2>1, TransitionImplements DEF Start, Asked
  <2>2. CASE workflow[c].state # "pending"
    BY <1>1, <1>8, <2>2 DEF Start, LifecycleStays
  <2> QED BY <2>1, <2>2
<1>9. ASSUME NEW c \in Calls, Mirror(c) PROVE LifecycleStep
  <2>1. /\ pc[c] = "mirror" /\ callRun[c] \in Runs /\ workflowStore[callRun[c]] = workflow[c]
        /\ UNCHANGED <<workflowStore, deadLetters>>
    BY <1>9 DEF Mirror, TypeInv, TypeOK, SafeInv, NoLostUpdate
  <2>2. PICK r \in Runs : r = callRun[c]
    BY <2>1
  <2>3. /\ runStore'[r].status = workflowStore[r].state
        /\ \A q \in Runs : q # r => runStore'[q].status = runStore[q].status
    BY <1>9, <2>1, <2>2 DEF Mirror, TypeInv, TypeOK, JobRun
  <2>4. CASE runStore[r].status = workflowStore[r].state
    BY <1>1, <2>1, <2>3, <2>4 DEF LifecycleStays
  <2>5. CASE runStore[r].status # workflowStore[r].state
    <3>1. [q \in Runs |-> runStore'[q].status]
            = [[q \in Runs |-> runStore[q].status] EXCEPT ![r] = workflowStore[r].state]
      BY <2>3
    <3>2. Lifecycle!Report(r)
      BY <2>1, <2>5, <3>1 DEF Lifecycle!Report
    <3>3. Lifecycle!Next
      BY <3>2 DEF Lifecycle!Next
    <3> QED BY <3>3 DEF LifecycleStep
  <2> QED BY <2>4, <2>5
<1>10. ASSUME NEW c \in Calls, Conclude(c) PROVE LifecycleStep
  <2>1. pc[c] = "loop" /\ UNCHANGED <<jobStore, runStore, deadLetters>>
    BY <1>10 DEF Conclude
  <2>2. AllDone(definition[c], workflow[c].tasks)
    <3>1. definition[c] \in Definition /\ ValidDefinition(definition[c])
      BY <2>1, CandidatesAssumption, NoneAssumption DEF TypeInv, TypeOK, DefinitionsValid
    <3>2. workflow[c].tasks \in [TaskIds -> TaskRun]
      BY DEF TypeInv, TypeOK, WorkflowInstance
    <3> QED BY <1>10, <2>1, <3>1, <3>2, NoneRetrying, NothingRunnable DEF Conclude
  <2>3. CASE Throw(c) /\ UNCHANGED workflowStore
    BY <1>1, <2>1, <2>3 DEF LifecycleStays
  <2>4. CASE ~ (Throw(c) /\ UNCHANGED workflowStore)
    BY <1>10, <2>1, <2>2, <2>4, TransitionImplements DEF Conclude, Asked
  <2> QED BY <2>3, <2>4
<1>11. ASSUME NEW c \in Calls, TaskSucceeds(c) PROVE LifecycleStep
  BY <1>11, UpdateImplements DEF TaskSucceeds
<1>12. ASSUME NEW c \in Calls, TaskFails(c) PROVE LifecycleStep
  BY <1>12, UpdateImplements DEF TaskFails
<1>13. ASSUME NEW c \in Calls, Requeue(c) PROVE LifecycleStep
  BY <1>13, UpdateImplements DEF Requeue
<1>14. ASSUME NEW c \in Calls, FailRun(c) PROVE LifecycleStep
  BY <1>14, TransitionImplements DEF FailRun, Asked
<1>15. ASSUME NEW c \in Calls, Settle(c) PROVE LifecycleStep
  <2>1. CASE Return(c) /\ UNCHANGED workflowStore
    BY <1>1, <1>15, <2>1 DEF Settle, LifecycleStays
  <2>2. CASE ~ (Return(c) /\ UNCHANGED workflowStore)
    BY <1>15, <2>2, TransitionImplements DEF Settle, Asked
  <2> QED BY <2>1, <2>2
<1>16. ASSUME NEW c \in Calls, Push(c) PROVE LifecycleStep
  <2>1. /\ pc[c] = "push" /\ callRun[c] \in Runs
        /\ deadLetters' = Append(deadLetters, callRun[c])
        /\ UNCHANGED <<workflowStore, runStore>>
    BY <1>16 DEF Push, TypeInv, TypeOK
  <2>2. PICK r \in Runs : r = callRun[c]
    BY <2>1
  <2>3. workflowStore[r].state = "dead_lettered" /\ runStore[r].status = "dead_lettered"
    BY <2>1, <2>2, Reported DEF StatusInv, StepInv
  <2>4. \A i \in 1..Len(deadLetters) : deadLetters[i] # r
    BY <2>1, <2>2 DEF StatusInv, FiledInv
  <2>5. Lifecycle!File(r)
    BY <2>1, <2>2, <2>3, <2>4 DEF Lifecycle!File
  <2>6. Lifecycle!Next
    BY <2>5 DEF Lifecycle!Next
  <2> QED BY <2>6 DEF LifecycleStep
<1>17. ASSUME Restart PROVE LifecycleStep
  <2>1. Lifecycle!Forget
    BY <1>17 DEF Restart, Lifecycle!Forget, NoWorkflow, NoRun, Absent
  <2>2. Lifecycle!Next
    BY <2>1 DEF Lifecycle!Next
  <2> QED BY <2>2 DEF LifecycleStep
<1>18. CASE UNCHANGED vars
  BY <1>1, <1>18 DEF vars, stores, LifecycleStays
<1> QED
  BY <1>2, <1>3, <1>4, <1>5, <1>6, <1>7, <1>8, <1>9, <1>10, <1>11, <1>12, <1>13, <1>14,
     <1>15, <1>16, <1>17, <1>18
  DEF Next, Request, CallStep

\* The engine implements the documented life of a run: for every set of runs,
\* jobs and definitions, and every interleaving of calls, the two stores and the
\* dead-letter list change only as RunLifecycle allows.
THEOREM EngineImplementsLifecycle == Spec => RefinesLifecycle
<1>1. Init => Lifecycle!Init
  BY DEF Init, Lifecycle!Init, NoWorkflow, NoRun, Absent
<1>2. EngineInv /\ [Next]_vars => [Lifecycle!Next]_(Lifecycle!lifecycleVars)
  BY ImplementsStep DEF LifecycleStep
<1> QED BY <1>1, <1>2, EngineInvariant, PTL DEF Spec, RefinesLifecycle, Lifecycle!Spec
=============================================================================
