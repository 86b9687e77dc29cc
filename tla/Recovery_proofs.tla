-------------------------- MODULE Recovery_proofs ---------------------------
(***************************************************************************)
(* Proofs about Recovery: what still holds of the execution core when      *)
(* replays overlap, and workflows are restored from the side at any time.  *)
(***************************************************************************)
EXTENDS Recovery, Execution_proofs

-----------------------------------------------------------------------------
(* A workflow a restore may put back is sound wherever it is kept: no task *)
(* was ever saved as running, and a parked one is in a backoff.            *)

Sound(wf) ==
    /\ \A t \in TaskIds : wf.tasks[t].status # "running"
    /\ wf.state = "waiting" => \E t \in TaskIds : wf.tasks[t].status = "retrying"

ParkedInv ==
    /\ \A r \in Runs : Sound(workflowStore[r])
    /\ \A c \in Calls :
         /\ Sound(workflow[c])
         /\ pc[c] \in {"task", "backoff", "fail"} => workflow[c].state = "running"

\* What may be put back, and what replays remember.
AsideInv ==
    /\ checkpoints \in [Runs -> Seq(WorkflowInstance)]
    /\ copies \in [Runs -> WorkflowInstance]
    /\ before \in [Calls -> [run : Runs \cup {None}, workflow : WorkflowInstance]]
    /\ \A r \in Runs :
         /\ Sound(copies[r])
         /\ \A v \in 1..Len(checkpoints[r]) :
              Sound(checkpoints[r][v]) /\ checkpoints[r][v].state # Absent

\* Where a call that has read a completed run may be.
Passing == {"enter", "readRun", "readDefinition", "readWorkflow", "start", "loop", "settle"}

\* The run is stored as wf, and the calls that ask for it find nothing to do.
AtRest(r, wf) ==
    /\ runStore[r].status # Absent
    /\ workflowStore[r] = wf
    /\ \A d \in Calls : callRun[d] = r =>
         /\ pc[d] \in Passing
         /\ pc[d] \in {"start", "loop", "settle"} => workflow[d] = wf

\* What the replay of c relies on.
RestOf(c) ==
    c \in quiet /\ before[c].run # None /\ before[c].workflow.state = "completed"
        => AtRest(before[c].run, before[c].workflow)

QuietInv == (\A c \in Calls : RestOf(c)) /\ CompletedReplayIsSilent

\* The execution core, whoever saves workflows from the side.
CoreInv == TypeInv /\ ExclusionInv /\ DefinitionsValid /\ ParkedInv

RInv == CoreInv /\ AsideInv /\ QuietInv

USE DEF Locations, Executing, Working, Creating, Modes

\* Nothing stored is sound, and so is what createRun builds.
LEMMA SoundNew == Sound(NoWorkflow) /\ \A T : Sound(NewWorkflow(T))
BY DEF Sound, NoWorkflow, NewWorkflow, NoTaskRun, Absent

\* A step of c keeps every workflow it writes sound.
WritesSound(c) ==
    /\ \A d \in Calls : d # c => pc'[d] = pc[d] /\ workflow'[d] = workflow[d]
    /\ Sound(workflow'[c])
    /\ pc'[c] \in {"task", "backoff", "fail"} => workflow'[c].state = "running"
    /\ \A r \in Runs : workflowStore'[r] \in {workflowStore[r], workflow'[c]}

\* Such a step keeps all of them sound.
LEMMA ParkedKept ==
    ASSUME ParkedInv, NEW c \in Calls, WritesSound(c) PROVE ParkedInv'
BY DEF ParkedInv, WritesSound

\* A call that ends writes nothing.
LEMMA ParkedLeave ==
    ASSUME TypeInv, ParkedInv, NEW c \in Calls, Leave(c), UNCHANGED workflowStore
    PROVE  ParkedInv'
<1>1. WritesSound(c)
  BY SoundNew DEF TypeInv, TypeOK, Leave, GoTo, WritesSound
<1> QED BY <1>1, ParkedKept

\* A call that goes on without a new workflow writes nothing, or its own copy.
LEMMA ParkedMove ==
    ASSUME TypeInv, ParkedInv, NEW c \in Calls, NEW l, GoTo(c, l), UNCHANGED workflow,
           l \in {"task", "backoff", "fail"} => workflow[c].state = "running",
           \A r \in Runs : workflowStore'[r] \in {workflowStore[r], workflow[c]}
    PROVE  ParkedInv'
<1>1. WritesSound(c)
  BY DEF TypeInv, TypeOK, ParkedInv, GoTo, WritesSound
<1> QED BY <1>1, ParkedKept

\* A call saves a sound workflow and keeps it.
LEMMA ParkedSave ==
    ASSUME TypeInv, ParkedInv, NEW c \in Calls, NEW l, GoTo(c, l), NEW next, Sound(next),
           l \in {"task", "backoff", "fail"} => next.state = "running",
           workflow' = [workflow EXCEPT ![c] = next],
           \/ UNCHANGED workflowStore
           \/ workflowStore' = [workflowStore EXCEPT ![callRun[c]] = next]
    PROVE  ParkedInv'
<1>1. WritesSound(c)
  BY DEF TypeInv, TypeOK, GoTo, WritesSound
<1> QED BY <1>1, ParkedKept

\* applyTransition parks a run only when a task of it is in a backoff.
LEMMA ParkedTransition ==
    ASSUME TypeInv, ParkedInv, NEW c \in Calls, NEW event, NEW target,
           ApplyTransition(c, event, target),
           target = "waiting" => \E t \in TaskIds : workflow[c].tasks[t].status = "retrying"
    PROVE  ParkedInv'
<1>1. CASE TransitionAllowed(workflow[c], event, target)
  <2> DEFINE next == Transition(workflow[c], event, target)
  <2>1. next.state = target /\ next.tasks = workflow[c].tasks
    BY DEF Transition
  <2>2. Sound(next)
    BY <2>1 DEF ParkedInv, Sound
  <2>3. /\ workflow' = [workflow EXCEPT ![c] = next]
        /\ workflowStore' = [workflowStore EXCEPT ![callRun[c]] = next]
        /\ GoTo(c, "mirror")
    BY <1>1 DEF ApplyTransition
  <2> HIDE DEF next
  <2>4. WritesSound(c)
    BY <2>2, <2>3 DEF TypeInv, TypeOK, GoTo, WritesSound
  <2> QED BY <2>4, ParkedKept
<1>2. CASE ~ TransitionAllowed(workflow[c], event, target)
  BY <1>2, ParkedLeave DEF ApplyTransition, Throw
<1> QED BY <1>1, <1>2

\* updateTask saves a running workflow.
LEMMA ParkedUpdate ==
    ASSUME TypeInv, ParkedInv, NEW c \in Calls, pc[c] \in {"task", "backoff"},
           NEW t \in TaskIds, NEW run, UpdateTask(c, t, run), run.status # "running",
           NEW l, GoTo(c, l)
    PROVE  ParkedInv'
<1> DEFINE next == [workflow[c] EXCEPT !.tasks[t] = run]
<1>1. workflow[c] \in WorkflowInstance /\ workflow[c].state = "running" /\ Sound(workflow[c])
  BY DEF TypeInv, TypeOK, ParkedInv
<1>2. /\ next.state = "running" /\ next.tasks[t] = run
      /\ \A u \in TaskIds : u # t => next.tasks[u] = workflow[c].tasks[u]
  BY <1>1 DEF WorkflowInstance
<1>3. /\ workflow' = [workflow EXCEPT ![c] = next]
      /\ workflowStore' = [workflowStore EXCEPT ![callRun[c]] = next]
  BY DEF UpdateTask
<1> HIDE DEF next
<1>4. Sound(next)
  BY <1>1, <1>2 DEF Sound
<1> QED BY <1>2, <1>3, <1>4, ParkedSave

\* Every step of the execution core keeps all workflows sound.
LEMMA ParkedStep == TypeInv /\ DefinitionsValid /\ ParkedInv /\ [Next]_vars => ParkedInv'
<1> SUFFICES ASSUME TypeInv, DefinitionsValid, ParkedInv, [Next]_vars PROVE ParkedInv'
  OBVIOUS
<1>1. ASSUME NEW j \in Jobs, NEW d \in Candidates, Register(j, d) PROVE ParkedInv'
  BY <1>1 DEF Register, ParkedInv, locals
<1>2. ASSUME NEW c \in Calls, NEW j \in Jobs, NEW r \in Runs, NEW m \in Modes,
             RequestRun(c, j, r, m)
      PROVE  ParkedInv'
  BY <1>2, ParkedMove DEF RequestRun, stores
<1>3. ASSUME NEW c \in Calls, NEW r \in Runs, RequestExecute(c, r) PROVE ParkedInv'
  BY <1>3, ParkedMove DEF RequestExecute, stores
<1>4. ASSUME NEW c \in Calls, Create(c) PROVE ParkedInv'
  <2>1. CASE Leave(c)
    BY <1>4, <2>1, ParkedLeave DEF Create, stores
  <2>2. CASE ~ Leave(c)
    BY <1>4, <2>2, SoundNew, ParkedSave DEF Create, stores
  <2> QED BY <2>1, <2>2
<1>5. ASSUME NEW c \in Calls, SaveWorkflow(c) PROVE ParkedInv'
  BY <1>5, ParkedMove DEF SaveWorkflow, locals, TypeInv, TypeOK
<1>6. ASSUME NEW c \in Calls, SaveRun(c) PROVE ParkedInv'
  <2>1. WritesSound(c)
    BY <1>6, SoundNew DEF SaveRun, TypeInv, TypeOK, GoTo, WritesSound
  <2> QED BY <2>1, ParkedKept
<1>7. ASSUME NEW c \in Calls, AlreadyExecuting(c) PROVE ParkedInv'
  BY <1>7, ParkedLeave DEF AlreadyExecuting, stores
<1>8. ASSUME NEW c \in Calls, AcquireLocks(c) PROVE ParkedInv'
  <2>1. CASE Leave(c)
    BY <1>8, <2>1, ParkedLeave DEF AcquireLocks, stores
  <2>2. CASE ~ Leave(c)
    BY <1>8, <2>2, ParkedMove DEF AcquireLocks, stores, locals
  <2> QED BY <2>1, <2>2
<1>9. ASSUME NEW c \in Calls, ReadRun(c) PROVE ParkedInv'
  <2>1. CASE Throw(c)
    BY <1>9, <2>1, ParkedLeave DEF ReadRun, Throw, stores
  <2>2. CASE ~ Throw(c)
    BY <1>9, <2>2, ParkedMove DEF ReadRun, stores, locals
  <2> QED BY <2>1, <2>2
<1>10. ASSUME NEW c \in Calls, ReadDefinition(c) PROVE ParkedInv'
  <2>1. CASE Throw(c)
    BY <1>10, <2>1, ParkedLeave DEF ReadDefinition, Throw, stores
  <2>2. CASE ~ Throw(c)
    BY <1>10, <2>2, ParkedMove DEF ReadDefinition, stores
  <2> QED BY <2>1, <2>2
<1>11. ASSUME NEW c \in Calls, ReadWorkflow(c) PROVE ParkedInv'
  <2>1. CASE Throw(c)
    BY <1>11, <2>1, ParkedLeave DEF ReadWorkflow, Throw, stores
  <2>2. CASE ~ Throw(c)
    <3>1. callRun[c] \in Runs
      BY <1>11 DEF ReadWorkflow, TypeInv, TypeOK
    <3>2. Sound(workflowStore[callRun[c]])
      BY <3>1 DEF ParkedInv
    <3> QED BY <1>11, <2>2, <3>2, ParkedSave DEF ReadWorkflow, stores
  <2> QED BY <2>1, <2>2
<1>12. ASSUME NEW c \in Calls, Start(c) PROVE ParkedInv'
  <2>1. CASE workflow[c].state = "pending"
    BY <1>12, <2>1, ParkedTransition DEF Start
  <2>2. CASE workflow[c].state # "pending"
    BY <1>12, <2>2, ParkedMove DEF Start, locals
  <2> QED BY <2>1, <2>2
<1>13. ASSUME NEW c \in Calls, Mirror(c) PROVE ParkedInv'
  <2> DEFINE l == CASE workflow[c].state = "running"       -> "loop"
                    [] workflow[c].state = "dead_lettered" -> "push"
                    [] OTHER                               -> "settle"
  <2>1. l \in {"loop", "push", "settle"}
    OBVIOUS
  <2>2. GoTo(c, l) /\ UNCHANGED <<workflowStore, workflow>>
    BY <1>13 DEF Mirror, locals
  <2> HIDE DEF l
  <2> QED BY <2>1, <2>2, ParkedMove
<1>14. ASSUME NEW c \in Calls, Dispatch(c) PROVE ParkedInv'
  <2>1. CASE Throw(c)
    BY <1>14, <2>1, ParkedLeave DEF Dispatch, Throw, stores
  <2>2. CASE ~ Throw(c)
    BY <1>14, <2>2, ParkedMove DEF Dispatch, stores
  <2> QED BY <2>1, <2>2
<1>15. ASSUME NEW c \in Calls, Conclude(c) PROVE ParkedInv'
  <2>1. CASE Throw(c) /\ UNCHANGED workflowStore
    BY <2>1, ParkedLeave DEF Throw
  <2>2. CASE ~ (Throw(c) /\ UNCHANGED workflowStore)
    <3>1. pc[c] = "loop" /\ Runnable(definition[c], workflow[c].tasks) = {}
      BY <1>15 DEF Conclude
    <3>2. definition[c] \in Definition /\ ValidDefinition(definition[c])
      BY <3>1, CandidatesAssumption, NoneAssumption DEF TypeInv, TypeOK, DefinitionsValid
    <3>3. /\ workflow[c].tasks \in [TaskIds -> TaskRun]
          /\ \A t \in TaskIds : workflow[c].tasks[t].status # "running"
      BY DEF TypeInv, TypeOK, WorkflowInstance, ParkedInv, Sound
    <3>4. \/ AllDone(definition[c], workflow[c].tasks)
          \/ \E t \in TaskIds : workflow[c].tasks[t].status = "retrying"
      BY <3>1, <3>2, <3>3, NothingRunnable
    <3> QED BY <1>15, <2>2, <3>4, ParkedTransition DEF Conclude
  <2> QED BY <2>1, <2>2
<1>16. ASSUME NEW c \in Calls, SkipLoop(c) PROVE ParkedInv'
  BY <1>16, ParkedMove DEF SkipLoop, stores, locals
<1>17. ASSUME NEW c \in Calls, TaskSucceeds(c) PROVE ParkedInv'
  BY <1>17, ParkedUpdate DEF TaskSucceeds, TypeInv, TypeOK
<1>18. ASSUME NEW c \in Calls, TaskFails(c) PROVE ParkedInv'
  <2>1. pc[c] = "task" /\ current[c] \in TaskIds
    BY <1>18 DEF TaskFails, TypeInv, TypeOK
  <2>2. \E run, l : UpdateTask(c, current[c], run) /\ run.status # "running" /\ GoTo(c, l)
    BY <1>18 DEF TaskFails
  <2> QED BY <2>1, <2>2, ParkedUpdate
<1>19. ASSUME NEW c \in Calls, Requeue(c) PROVE ParkedInv'
  <2>1. pc[c] = "backoff" /\ current[c] \in TaskIds
    BY <1>19 DEF Requeue, TypeInv, TypeOK
  <2>2. [workflow[c].tasks[current[c]] EXCEPT !.status = "queued"].status # "running"
    BY <2>1 DEF TypeInv, TypeOK, WorkflowInstance, TaskRun
  <2> QED BY <1>19, <2>1, <2>2, ParkedUpdate DEF Requeue
<1>20. ASSUME NEW c \in Calls, FailRun(c) PROVE ParkedInv'
  BY <1>20, ParkedTransition DEF FailRun
<1>21. ASSUME NEW c \in Calls, Settle(c) PROVE ParkedInv'
  <2>1. CASE Return(c) /\ UNCHANGED workflowStore
    BY <2>1, ParkedLeave DEF Return
  <2>2. CASE ~ (Return(c) /\ UNCHANGED workflowStore)
    BY <1>21, <2>2, ParkedTransition DEF Settle
  <2> QED BY <2>1, <2>2
<1>22. ASSUME NEW c \in Calls, Push(c) PROVE ParkedInv'
  BY <1>22, ParkedLeave DEF Push, Return
<1>23. ASSUME Restart PROVE ParkedInv'
  BY <1>23, SoundNew DEF Restart, ParkedInv
<1>24. CASE UNCHANGED vars
  BY <1>24 DEF vars, stores, locals, ParkedInv
<1> QED
  BY <1>1, <1>2, <1>3, <1>4, <1>5, <1>6, <1>7, <1>8, <1>9, <1>10, <1>11, <1>12, <1>13,
     <1>14, <1>15, <1>16, <1>17, <1>18, <1>19, <1>20, <1>21, <1>22, <1>23, <1>24
  DEF Next, Request, CallStep
-----------------------------------------------------------------------------
(* A run that has completed and that nobody saves from the side stays at   *)
(* rest: executeRun reads it, enters no loop and leaves.                   *)

\* A step of a call touches the frame and the run of that call only.
OnlyOwn(c) ==
    /\ OthersStay(c)
    /\ callRun'[c] \in {callRun[c], None}
    /\ \A r \in Runs : r # callRun[c] => /\ workflowStore'[r] = workflowStore[r]
                                         /\ runStore'[r] = runStore[r]

\* So does one that ends the call ...
LEMMA LeaveOwn ==
    ASSUME TypeInv, NEW c \in Calls, Leave(c), UNCHANGED <<workflowStore, runStore>>
    PROVE  OnlyOwn(c)
BY LeaveOthers DEF TypeInv, TypeOK, Leave, OnlyOwn

\* ... one that goes on ...
LEMMA MoveOwn ==
    ASSUME TypeInv, NEW c \in Calls, NEW l, GoTo(c, l), UNCHANGED <<callRun, workflowStore>>,
           current' = current \/ \E t : current' = [current EXCEPT ![c] = t],
           workflow' = workflow \/ \E wf : workflow' = [workflow EXCEPT ![c] = wf],
           runStore' = runStore \/ \E run : runStore' = [runStore EXCEPT ![callRun[c]] = run]
    PROVE  OnlyOwn(c)
BY DEF TypeInv, TypeOK, GoTo, OnlyOwn, OthersStay

\* ... and one that saves a workflow.
LEMMA SaveOwn ==
    ASSUME TypeInv, NEW c \in Calls, NEW l, GoTo(c, l), UNCHANGED <<callRun, runStore>>,
           current' = current \/ \E t : current' = [current EXCEPT ![c] = t],
           workflow' = workflow \/ \E wf : workflow' = [workflow EXCEPT ![c] = wf],
           \E wf : workflowStore' = [workflowStore EXCEPT ![callRun[c]] = wf]
    PROVE  OnlyOwn(c)
BY DEF TypeInv, TypeOK, GoTo, OnlyOwn, OthersStay

\* applyTransition saves or ends the call.
LEMMA TransitionOwn ==
    ASSUME TypeInv, NEW c \in Calls, NEW event, NEW target, ApplyTransition(c, event, target),
           UNCHANGED runStore
    PROVE  OnlyOwn(c)
<1>1. CASE TransitionAllowed(workflow[c], event, target)
  BY <1>1, SaveOwn DEF ApplyTransition
<1>2. CASE ~ TransitionAllowed(workflow[c], event, target)
  BY <1>2, LeaveOwn DEF ApplyTransition, Throw
<1> QED BY <1>1, <1>2

\* Every step of a call stays with its own frame and run.
LEMMA StepsOwn ==
    ASSUME TypeInv, NEW c \in Calls, CallStep(c) PROVE OnlyOwn(c)
<1>1. CASE Leave(c) /\ UNCHANGED <<workflowStore, runStore>>
  BY <1>1, LeaveOwn
<1>2. CASE ~ (Leave(c) /\ UNCHANGED <<workflowStore, runStore>>)
  <2> USE <1>2
  <2>1. CASE Create(c) \/ SaveRun(c) \/ ReadWorkflow(c)
    BY <2>1, MoveOwn DEF Create, SaveRun, ReadWorkflow, Throw, stores
  <2>2. CASE AlreadyExecuting(c) \/ AcquireLocks(c) \/ ReadRun(c) \/ ReadDefinition(c)
    BY <2>2, MoveOwn
    DEF AlreadyExecuting, AcquireLocks, ReadRun, ReadDefinition, Throw, stores, locals
  <2>3. CASE SaveWorkflow(c)
    BY <2>3, SaveOwn DEF SaveWorkflow, locals
  <2>4. CASE TaskSucceeds(c) \/ Requeue(c)
    BY <2>4, SaveOwn DEF TaskSucceeds, Requeue, UpdateTask
  <2>5. CASE TaskFails(c)
    <3>1. \E run, l : UpdateTask(c, current[c], run) /\ GoTo(c, l)
      BY <2>5 DEF TaskFails
    <3> QED BY <2>5, <3>1, SaveOwn DEF TaskFails, UpdateTask
  <2>6. CASE Start(c)
    BY <2>6, TransitionOwn, MoveOwn DEF Start, locals
  <2>7. CASE Conclude(c)
    BY <2>7, TransitionOwn DEF Conclude, Throw
  <2>8. CASE FailRun(c)
    BY <2>8, TransitionOwn DEF FailRun
  <2>9. CASE Settle(c)
    BY <2>9, TransitionOwn DEF Settle, Return
  <2>10. CASE Push(c) \/ SkipLoop(c)
    BY <2>10, MoveOwn DEF Push, Return, SkipLoop, stores, locals
  <2>11. CASE Dispatch(c)
    BY <2>11, MoveOwn DEF Dispatch, Throw, stores
  <2>12. CASE Mirror(c)
    <3>1. /\ \E l : GoTo(c, l)
          /\ UNCHANGED <<workflowStore, callRun, workflow, current>>
          /\ \A r \in Runs : r # callRun[c] => runStore'[r] = runStore[r]
      BY <2>12 DEF Mirror, locals, TypeInv, TypeOK
    <3> QED BY <3>1 DEF TypeInv, TypeOK, GoTo, OnlyOwn, OthersStay
  <2> QED
    BY <2>1, <2>2, <2>3, <2>4, <2>5, <2>6, <2>7, <2>8, <2>9, <2>10, <2>11, <2>12, CallStep(c)
    DEF CallStep
<1> QED BY <1>1, <1>2

\* A call that asks for the run leaves it at rest.
LEMMA RestKept ==
    ASSUME NEW r \in Runs, NEW wf, AtRest(r, wf), NEW c \in Calls, OthersStay(c),
           workflowStore'[r] = workflowStore[r], runStore'[r].status = runStore[r].status,
           callRun'[c] = r =>
               /\ pc'[c] \in Passing
               /\ pc'[c] \in {"start", "loop", "settle"} => workflow'[c] = wf
    PROVE  AtRest(r, wf)'
<1>1. ASSUME NEW d \in Calls, callRun'[d] = r
      PROVE  /\ pc'[d] \in Passing
             /\ pc'[d] \in {"start", "loop", "settle"} => workflow'[d] = wf
  BY <1>1 DEF AtRest, OthersStay
<1> QED BY <1>1 DEF AtRest

\* An executor of a completed run starts nothing and saves nothing.
LEMMA PassesBy ==
    ASSUME TypeInv, NEW r \in Runs, NEW wf, wf.state = "completed", AtRest(r, wf),
           NEW c \in Calls, callRun[c] = r, CallStep(c)
    PROVE  AtRest(r, wf)'
<1>1. /\ pc[c] \in Passing
      /\ pc[c] \in {"start", "loop", "settle"} => workflow[c] = wf
      /\ workflowStore[r] = wf
  BY DEF AtRest
<1>2. wf.state \notin {"pending", "running", "failed", Absent}
  BY DEF Absent
<1>3. OthersStay(c)
  BY StepsOwn DEF OnlyOwn
<1>4. CASE Leave(c) /\ UNCHANGED <<workflowStore, runStore>>
  <2>1. callRun'[c] # r
    BY <1>4, NoneAssumption DEF Leave, TypeInv, TypeOK
  <2> QED BY <1>3, <1>4, <2>1, RestKept
<1>5. ASSUME NEW l \in Passing, GoTo(c, l), UNCHANGED <<callRun, workflowStore, runStore>>,
             l \in {"start", "loop", "settle"} => workflow'[c] = wf
      PROVE  AtRest(r, wf)'
  <2>1. pc'[c] = l
    BY <1>5 DEF GoTo, TypeInv, TypeOK
  <2> QED BY <1>3, <1>5, <2>1, RestKept
<1>6. ASSUME ~ (Leave(c) /\ UNCHANGED <<workflowStore, runStore>>)
      PROVE  AtRest(r, wf)'
  <2> USE <1>6
  <2>1. CASE AcquireLocks(c)
    <3>1. GoTo(c, "readRun") /\ UNCHANGED <<callRun, workflowStore, runStore>>
      BY <2>1 DEF AcquireLocks, stores, locals
    <3> QED BY <3>1, <1>5 DEF Passing
  <2>2. CASE ReadRun(c)
    <3>1. GoTo(c, "readDefinition") /\ UNCHANGED <<callRun, workflowStore, runStore>>
      BY <2>2 DEF ReadRun, Throw, stores, locals
    <3> QED BY <3>1, <1>5 DEF Passing
  <2>3. CASE ReadDefinition(c)
    <3>1. GoTo(c, "readWorkflow") /\ UNCHANGED <<callRun, workflowStore, runStore>>
      BY <2>3 DEF ReadDefinition, Throw, stores
    <3> QED BY <3>1, <1>5 DEF Passing
  <2>4. CASE ReadWorkflow(c)
    <3>1. /\ GoTo(c, "start") /\ UNCHANGED <<callRun, workflowStore, runStore>>
          /\ workflow' = [workflow EXCEPT ![c] = workflowStore[callRun[c]]]
      BY <2>4 DEF ReadWorkflow, Throw, stores
    <3>2. workflow'[c] = wf
      BY <1>1, <3>1 DEF TypeInv, TypeOK
    <3> QED BY <3>1, <3>2, <1>5 DEF Passing
  <2>5. CASE Start(c)
    <3>1. /\ pc[c] = "start" /\ GoTo(c, "loop")
          /\ UNCHANGED <<callRun, workflow, workflowStore, runStore>>
      BY <1>1, <1>2, <2>5 DEF Start, locals
    <3> QED BY <1>1, <3>1, <1>5 DEF Passing
  <2>6. CASE SkipLoop(c)
    <3>1. /\ pc[c] = "loop" /\ GoTo(c, "settle")
          /\ UNCHANGED <<callRun, workflow, workflowStore, runStore>>
      BY <2>6 DEF SkipLoop, stores, locals
    <3> QED BY <1>1, <3>1, <1>5 DEF Passing
  <2>7. ~ (AlreadyExecuting(c) \/ Dispatch(c) \/ Conclude(c) \/ Settle(c))
    BY <1>1, <1>2 DEF AlreadyExecuting, Dispatch, Conclude, Settle, Return, stores
  <2>8. ~ (\/ Create(c) \/ SaveWorkflow(c) \/ SaveRun(c) \/ Mirror(c) \/ TaskSucceeds(c)
           \/ TaskFails(c) \/ Requeue(c) \/ FailRun(c) \/ Push(c))
    BY <1>1 DEF Passing, Create, SaveWorkflow, SaveRun, Mirror, TaskSucceeds, TaskFails, Requeue,
       FailRun, Push
  <2> QED BY <2>1, <2>2, <2>3, <2>4, <2>5, <2>6, <2>7, <2>8, CallStep(c) DEF CallStep
<1> QED BY <1>4, <1>6

\* As long as the process lives, a completed run stays at rest.
LEMMA RestStep ==
    ASSUME TypeInv, NEW r \in Runs, NEW wf, wf.state = "completed", AtRest(r, wf), Next, ~ crashed
    PROVE  AtRest(r, wf)'
<1>1. ASSUME NEW j \in Jobs, NEW d \in Candidates, Register(j, d) PROVE AtRest(r, wf)'
  BY <1>1 DEF Register, AtRest, locals
<1>2. ASSUME NEW c \in Calls, NEW j \in Jobs, NEW q \in Runs, NEW m \in Modes,
             RequestRun(c, j, q, m)
      PROVE  AtRest(r, wf)'
  <2>1. q # r
    BY <1>2 DEF RequestRun, FreshRun, AtRest, Absent
  <2>2. /\ OthersStay(c) /\ callRun'[c] = q
        /\ UNCHANGED <<workflowStore, runStore>>
    BY <1>2 DEF RequestRun, GoTo, stores, TypeInv, TypeOK, OthersStay
  <2> QED BY <2>1, <2>2, RestKept
<1>3. ASSUME NEW c \in Calls, NEW q \in Runs, RequestExecute(c, q) PROVE AtRest(r, wf)'
  <2>1. /\ OthersStay(c) /\ pc'[c] = "enter"
        /\ UNCHANGED <<workflowStore, runStore>>
    BY <1>3 DEF RequestExecute, GoTo, stores, TypeInv, TypeOK, OthersStay
  <2> QED BY <2>1, RestKept DEF Passing
<1>4. ASSUME NEW c \in Calls, CallStep(c) PROVE AtRest(r, wf)'
  <2>1. CASE callRun[c] = r
    BY <1>4, <2>1, PassesBy
  <2>2. CASE callRun[c] # r
    <3>1. /\ OthersStay(c) /\ callRun'[c] # r
          /\ workflowStore'[r] = workflowStore[r] /\ runStore'[r] = runStore[r]
      BY <1>4, <2>2, StepsOwn, NoneAssumption DEF OnlyOwn
    <3> QED BY <3>1, RestKept
  <2> QED BY <2>1, <2>2
<1> QED BY <1>1, <1>2, <1>3, <1>4, Next, ~ crashed DEF Next, Request, Restart
-----------------------------------------------------------------------------
(* The steps of Recovery.                                                  *)

\* Every step of the execution core keeps what holds of it.
LEMMA CoreStep == CoreInv /\ [Next]_vars => CoreInv'
BY TypeStep, ExclusionStep, ValidStep, ParkedStep DEF CoreInv

\* Nothing of the core changes.
LEMMA CoreStutter == CoreInv /\ UNCHANGED vars => CoreInv'
BY CoreStep

\* A save of a sound workflow from the side keeps it, too.
LEMMA AsideStep ==
    ASSUME CoreInv, NEW r \in Runs, NEW wf \in WorkflowInstance, Sound(wf), wf.state # Absent,
           SaveAside(r, wf)
    PROVE  CoreInv'
<1> USE DEF CoreInv, SaveAside, locks, locals
<1>1. TypeInv'
  BY DEF TypeInv, TypeOK, CallOK
<1>2. \A q \in Runs : workflowStore'[q] = IF q = r THEN wf ELSE workflowStore[q]
  BY DEF TypeInv, TypeOK
<1>3. OwnInv'
  BY <1>2 DEF ExclusionInv, OwnInv, TypeInv, TypeOK
<1>4. LockInv'
  BY DEF ExclusionInv, LockInv, OneExecutorPerRun
<1>5. DefinitionsValid'
  BY DEF DefinitionsValid
<1>6. ParkedInv'
  BY <1>2 DEF ParkedInv
<1> QED BY <1>1, <1>3, <1>4, <1>5, <1>6 DEF ExclusionInv

\* A replay that nobody disturbs finds a completed run at rest.
LEMMA ReplayFindsRest ==
    ASSUME CoreInv, NEW c \in Calls, NEW r \in Runs, RequestExecute(c, r), r \notin localLocks,
           workflowStore[r].state # Absent, NEW wf, wf = workflowStore[r]
    PROVE  AtRest(r, wf)'
<1>1. runStore[r].status # Absent
  BY DEF RequestExecute, FreshRun
<1>2. /\ pc'[c] = "enter" /\ UNCHANGED <<workflowStore, runStore>>
      /\ \A d \in Calls : d # c => pc'[d] = pc[d] /\ callRun'[d] = callRun[d]
  BY DEF RequestExecute, GoTo, stores, CoreInv, TypeInv, TypeOK
<1>3. ASSUME NEW d \in Calls, callRun[d] = r PROVE pc[d] = "enter"
  <2>1. pc[d] # "idle"
    BY <1>3, NoneAssumption DEF CoreInv, ExclusionInv, OwnInv
  <2>2. pc[d] \notin Creating
    BY <1>1, <1>3 DEF CoreInv, ExclusionInv, OwnInv
  <2>3. pc[d] \notin Executing
    BY <1>3 DEF CoreInv, ExclusionInv, LockInv
  <2> QED BY <2>1, <2>2, <2>3 DEF CoreInv, TypeInv, TypeOK
<1>4. \A d \in Calls : callRun'[d] = r => pc'[d] = "enter"
  BY <1>2, <1>3
<1> QED BY <1>1, <1>2, <1>4 DEF AtRest, Passing

\* diffWorkflows of a workflow with itself.
LEMMA NothingDiffers == ASSUME NEW wf PROVE DiffWorkflows(wf, wf) = NoChange
BY DEF DiffWorkflows, NoChange

\* A replay remembers a run and a workflow.
LEMMA NoReplayType == NoReplay \in [run : Runs \cup {None}, workflow : WorkflowInstance]
BY NoWorkflowType DEF NoReplay

\* Nobody is told anything.
LEMMA NoAnswerSilent == answer' = NoAnswer => CompletedReplayIsSilent'
BY DEF NoAnswer, CompletedReplayIsSilent

\* Every step keeps the invariant.
LEMMA RecoveryStep == RInv /\ [RNext]_allvars => RInv'
<1> SUFFICES ASSUME RInv, [RNext]_allvars PROVE RInv'
  OBVIOUS
<1> USE DEF RInv
<1>1. CASE Execute
  <2>1. Next /\ ~ crashed /\ answer' = NoAnswer /\ UNCHANGED <<checkpoints, copies, quiet>>
        /\ before' = [c \in Calls |-> IF Rejected(c) THEN NoReplay ELSE before[c]]
    BY <1>1 DEF Execute
  <2>2. CoreInv'
    BY <2>1, CoreStep
  <2>3. AsideInv'
    BY <2>1, NoReplayType DEF AsideInv
  <2>4. ASSUME NEW c \in Calls PROVE RestOf(c)'
    <3>1. \/ before'[c].run = None
          \/ before'[c] = before[c]
      BY <2>1 DEF NoReplay
    <3>2. CASE before'[c] = before[c] /\ before[c].run # None
      <4>1. PICK r, wf : r = before[c].run /\ wf = before[c].workflow
        OBVIOUS
      <4>2. r \in Runs
        BY <3>2, <4>1 DEF AsideInv
      <4>3. CASE c \in quiet /\ wf.state = "completed"
        <5>1. AtRest(r, wf)
          BY <3>2, <4>1, <4>3 DEF QuietInv, RestOf
        <5>2. AtRest(r, wf)'
          BY <2>1, <4>2, <4>3, <5>1, RestStep DEF CoreInv
        <5> QED BY <3>2, <4>1, <5>2 DEF RestOf
      <4>4. CASE ~ (c \in quiet /\ wf.state = "completed")
        BY <2>1, <3>2, <4>1, <4>4 DEF RestOf
      <4> QED BY <4>3, <4>4
    <3> QED BY <3>1, <3>2 DEF RestOf
  <2> QED BY <2>1, <2>2, <2>3, <2>4, NoAnswerSilent DEF QuietInv
<1>2. CASE RestartAll
  <2>1. Next /\ answer' = NoAnswer /\ quiet' = {}
    BY <1>2 DEF RestartAll, Next
  <2>2. CoreInv'
    BY <2>1, CoreStep
  <2>3. AsideInv'
    BY <1>2, NoWorkflowType, NoReplayType, SoundNew DEF RestartAll, AsideInv
  <2> QED BY <2>1, <2>2, <2>3, NoAnswerSilent DEF QuietInv, RestOf
<1>3. ASSUME NEW c \in Calls, NEW r \in Runs, Replay(c, r) PROVE RInv'
  <2>1. /\ Next /\ ~ crashed /\ answer' = NoAnswer /\ UNCHANGED <<checkpoints, copies>>
        /\ RequestExecute(c, r) /\ workflowStore[r].state # Absent
        /\ before' = [before EXCEPT ![c] = [run |-> r, workflow |-> workflowStore[r]]]
        /\ c \in quiet' => r \notin localLocks
        /\ \A d \in Calls : d # c => (d \in quiet' <=> d \in quiet)
    BY <1>3 DEF Replay, Next, Request
  <2>2. CoreInv'
    BY <2>1, CoreStep
  <2>3. AsideInv'
    BY <2>1 DEF AsideInv, CoreInv, TypeInv, TypeOK
  <2>4. ASSUME NEW d \in Calls PROVE RestOf(d)'
    <3>1. CASE d = c
      <4>1. PICK wf : wf = workflowStore[r]
        OBVIOUS
      <4>2. before'[d].run = r /\ before'[d].workflow = wf
        BY <2>1, <3>1, <4>1 DEF AsideInv
      <4>3. d \in quiet' => AtRest(r, wf)'
        BY <2>1, <3>1, <4>1, ReplayFindsRest
      <4> QED BY <4>2, <4>3 DEF RestOf
    <3>2. CASE d # c
      <4>1. PICK q, wf : q = before[d].run /\ wf = before[d].workflow
        OBVIOUS
      <4>2. before'[d] = before[d] /\ (d \in quiet' <=> d \in quiet)
        BY <2>1, <3>2 DEF AsideInv
      <4>3. CASE d \in quiet /\ q # None /\ wf.state = "completed"
        <5>1. AtRest(q, wf) /\ q \in Runs
          BY <4>1, <4>3 DEF QuietInv, RestOf, AsideInv
        <5>2. AtRest(q, wf)'
          BY <2>1, <4>3, <5>1, RestStep DEF CoreInv
        <5> QED BY <4>1, <4>2, <5>2 DEF RestOf
      <4>4. CASE ~ (d \in quiet /\ q # None /\ wf.state = "completed")
        BY <4>1, <4>2, <4>4 DEF RestOf
      <4> QED BY <4>3, <4>4
    <3> QED BY <3>1, <3>2
  <2> QED BY <2>1, <2>2, <2>3, <2>4, NoAnswerSilent DEF QuietInv
<1>4. ASSUME NEW c \in Calls, ReplayAnswers(c) PROVE RInv'
  <2>1. /\ UNCHANGED <<vars, checkpoints, copies>> /\ before[c].run # None
        /\ before' = [before EXCEPT ![c] = NoReplay]
        /\ quiet' = quiet \ {c}
    BY <1>4 DEF ReplayAnswers, Answering, Replaying
  <2>2. CoreInv'
    BY <2>1, CoreStutter
  <2>3. AsideInv'
    BY <2>1, NoReplayType DEF AsideInv
  <2>4. ASSUME NEW d \in Calls PROVE RestOf(d)'
    <3>1. \/ d \notin quiet'
          \/ before'[d] = before[d] /\ d \in quiet
      BY <2>1 DEF AsideInv
    <3> QED
      BY <2>1, <3>1 DEF QuietInv, RestOf, AtRest, vars, stores, locals
  <2>5. CompletedReplayIsSilent'
    <3>1. SUFFICES ASSUME answer'.quiet, answer'.from = "completed" PROVE answer'.diff = NoChange
      BY DEF CompletedReplayIsSilent
    <3>2. /\ answer'.from = before[c].workflow.state
          /\ answer'.diff = DiffWorkflows(before[c].workflow, workflowStore[before[c].run])
          /\ answer'.quiet = (c \in quiet)
      BY <1>4 DEF ReplayAnswers
    <3>3. workflowStore[before[c].run] = before[c].workflow
      BY <2>1, <3>1, <3>2 DEF QuietInv, RestOf, AtRest
    <3> QED BY <3>2, <3>3, NothingDiffers
  <2> QED BY <2>2, <2>3, <2>4, <2>5 DEF QuietInv
<1>5. ASSUME NEW r \in Runs, CaptureCheckpoint(r) PROVE RInv'
  <2>1. UNCHANGED <<vars, copies, before, quiet>> /\ answer' = NoAnswer
    BY <1>5 DEF CaptureCheckpoint
  <2>2. CoreInv'
    BY <2>1, CoreStutter
  <2>3. PICK wf \in WorkflowInstance :
            /\ Sound(wf) /\ wf.state # Absent
            /\ checkpoints' = [checkpoints EXCEPT ![r] = Append(@, wf)]
    BY <1>5 DEF CaptureCheckpoint, CoreInv, TypeInv, TypeOK, ParkedInv
  <2>4. AsideInv'
    BY <2>1, <2>3 DEF AsideInv
  <2>5. QuietInv'
    BY <2>1, NoAnswerSilent DEF QuietInv, RestOf, AtRest, vars, stores, locals
  <2> QED BY <2>2, <2>4, <2>5
<1>6. ASSUME NEW r \in Runs, SnapshotRead(r) PROVE RInv'
  <2>1. UNCHANGED <<vars, checkpoints, before, quiet>> /\ answer' = NoAnswer
    BY <1>6 DEF SnapshotRead
  <2>2. CoreInv'
    BY <2>1, CoreStutter
  <2>3. AsideInv'
    BY <1>6, <2>1 DEF SnapshotRead, AsideInv, CoreInv, TypeInv, TypeOK, ParkedInv
  <2>4. QuietInv'
    BY <2>1, NoAnswerSilent DEF QuietInv, RestOf, AtRest, vars, stores, locals
  <2> QED BY <2>2, <2>3, <2>4
<1>7. ASSUME NEW r \in Runs, SnapshotSave(r) PROVE RInv'
  <2>1. SaveAside(r, copies[r]) /\ UNCHANGED <<checkpoints, before>> /\ answer' = NoAnswer
        /\ copies' = [copies EXCEPT ![r] = NoWorkflow] /\ copies[r].state # Absent
    BY <1>7 DEF SnapshotSave
  <2>2. CoreInv'
    BY <2>1, AsideStep DEF AsideInv
  <2>3. AsideInv'
    BY <2>1, NoWorkflowType, SoundNew DEF AsideInv
  <2>4. quiet' = {}
    BY <2>1 DEF SaveAside
  <2> QED BY <2>1, <2>2, <2>3, <2>4, NoAnswerSilent DEF QuietInv, RestOf
<1>8. ASSUME NEW r \in Runs, NEW v \in 1..MaxCheckpoints, RestoreToCheckpoint(r, v) PROVE RInv'
  <2>1. /\ SaveAside(r, checkpoints[r][v]) /\ v \in 1..Len(checkpoints[r])
        /\ UNCHANGED <<checkpoints, copies, before>> /\ answer' = NoAnswer
    BY <1>8 DEF RestoreToCheckpoint
  <2>2. checkpoints[r][v] \in WorkflowInstance
    BY <2>1 DEF AsideInv
  <2>3. CoreInv'
    BY <2>1, <2>2, AsideStep DEF AsideInv
  <2>4. AsideInv'
    BY <2>1 DEF AsideInv
  <2>5. quiet' = {}
    BY <2>1 DEF SaveAside
  <2> QED BY <2>1, <2>3, <2>4, <2>5, NoAnswerSilent DEF QuietInv, RestOf
<1>9. CASE UNCHANGED allvars
  <2>1. CoreInv'
    BY <1>9, CoreStutter DEF allvars
  <2> QED
    BY <1>9, <2>1 DEF allvars, rvars, AsideInv, QuietInv, RestOf, AtRest, CompletedReplayIsSilent,
       vars, stores, locals
<1> QED BY <1>1, <1>2, <1>3, <1>4, <1>5, <1>6, <1>7, <1>8, <1>9 DEF RNext

\* Initially nothing is stored, kept aside or replayed.
LEMMA RecoveryInit == RInit => RInv
<1> SUFFICES ASSUME RInit PROVE RInv
  OBVIOUS
<1>1. Init
  BY DEF RInit
<1>2. TypeInv /\ ExclusionInv /\ DefinitionsValid
  BY <1>1, TypeInit, SafeInit, TaskInit DEF SafeInv, ExclusionInv
<1>3. ParkedInv
  BY <1>1, SoundNew DEF Init, ParkedInv
<1>4. AsideInv
  BY NoWorkflowType, NoReplayType, SoundNew DEF RInit, AsideInv
<1>5. QuietInv
  BY DEF RInit, QuietInv, RestOf, CompletedReplayIsSilent, NoAnswer
<1> QED BY <1>2, <1>3, <1>4, <1>5 DEF RInv, CoreInv

\* However restores, snapshots, replays and executions interleave, a run is parked in
\* "waiting" only with a task in its backoff: nothing but a restore into the middle
\* of a retry can leave a run that nobody resumes.
THEOREM RestoredRunsRarelyStall == RSpec => []StallsOnlyInBackoff
<1>1. RInv => StallsOnlyInBackoff
  BY DEF RInv, CoreInv, ParkedInv, Sound, StallsOnlyInBackoff
<1> QED BY <1>1, RecoveryInit, RecoveryStep, PTL DEF RSpec

\* A replay of a completed run that no save from the side disturbs answers that nothing
\* changed, however many other replays and executions of the run overlap with it.
THEOREM CompletedReplaysAreSilent == RSpec => []CompletedReplayIsSilent
<1>1. RInv => CompletedReplayIsSilent
  BY DEF RInv, QuietInv
<1> QED BY <1>1, RecoveryInit, RecoveryStep, PTL DEF RSpec

\* Restores and snapshots take no lock, and still leave the locks exact: a run is
\* locked exactly while one call executes it.
THEOREM RestoresKeepLocking == RSpec => []RunsAreLocked
<1>1. RInv => RunsAreLocked
  BY DEF RInv, CoreInv, ExclusionInv, LockInv, TypeInv, TypeOK, RunsAreLocked, LocksMatchExecutors
<1> QED BY <1>1, RecoveryInit, RecoveryStep, PTL DEF RSpec

=============================================================================
