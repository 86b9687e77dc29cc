------------------------------ MODULE Workflow ------------------------------
(***************************************************************************)
(* The workflow instance of one run and the rules under which its state    *)
(* may change: WorkflowStateMachine, TransitionValidator with its          *)
(* DEFAULT_TRANSITION_RULES, and TransitionGuard.                          *)
(*                                                                         *)
(* A workflow is kept as the record the stores hold, without its ids,      *)
(* timestamps, context and outputs, which no rule reads.  workflow.tasks   *)
(* is an array with one TaskRun for each task of the definition the run    *)
(* was created from; here it is a function on all task ids, with status    *)
(* "absent" where the array has no element.                                *)
(***************************************************************************)
EXTENDS Naturals, Sequences

CONSTANT TaskIds        \* the ids a definition may give its tasks

-----------------------------------------------------------------------------
States == {"draft", "pending", "running", "waiting", "completed", "failed",
           "cancelled", "dead_lettered"}

TaskStatus == {"queued", "running", "succeeded", "failed", "skipped", "retrying"}

\* "absent" is what a lookup answers when the store or the array holds nothing.
Absent == "absent"

TaskRun == [status : TaskStatus \cup {Absent}, attempt : Nat]

Events == {"submit", "start", "await", "resume", "complete", "fail", "retry",
           "dead_letter", "cancel"}

Entry == [from : States, to : States, event : Events]

WorkflowInstance ==
    [state   : States \cup {Absent},
     tasks   : [TaskIds -> TaskRun],
     history : Seq(Entry),
     version : Nat]

NoTaskRun == [status |-> Absent, attempt |-> 0]

NoWorkflow == [state   |-> Absent,
               tasks   |-> [t \in TaskIds |-> NoTaskRun],
               history |-> << >>,
               version |-> 0]

\* The workflow createRun builds for a definition with the tasks T.
NewWorkflow(T) ==
    [state   |-> "pending",
     tasks   |-> [t \in TaskIds |->
                    IF t \in T THEN [status |-> "queued", attempt |-> 0] ELSE NoTaskRun],
     history |-> << >>,
     version |-> 1]

-----------------------------------------------------------------------------
Rule(from, event, to) == [from |-> from, to |-> to, event |-> event]

DefaultTransitionRules ==
    {Rule("draft", "submit", "pending"),
     Rule("pending", "start", "running"),
     Rule("running", "await", "waiting"),
     Rule("waiting", "resume", "running"),
     Rule("running", "complete", "completed"),
     Rule("running", "fail", "failed"),
     Rule("waiting", "fail", "failed"),
     Rule("failed", "retry", "running"),
     Rule("failed", "dead_letter", "dead_lettered"),
     Rule("pending", "cancel", "cancelled"),
     Rule("running", "cancel", "cancelled")}

CanTransition(from, to, event) == Rule(from, event, to) \in DefaultTransitionRules

IsTerminal(state) == state \in {"completed", "cancelled", "dead_lettered"}

\* A task that counts as finished: for dependants, for allDone, for the guard.
IsDone(status) == status \in {"succeeded", "skipped"}

\* Faulty variant: completion is not checked against the tasks.
GuardAllowsAnyCompletion(wf, event, target) ==
    /\ event = "retry" /\ target = "running" =>
         \E t \in TaskIds : wf.tasks[t].status = "failed"
    /\ event = "cancel" /\ wf.state = "running" =>
         ~ \E t \in TaskIds : wf.tasks[t].status = "running"

\* TransitionGuard.evaluate: FALSE where it throws a TransitionError.
GuardAllows(wf, event, target) ==
    /\ event = "complete" /\ target = "completed" =>
         \A t \in TaskIds : wf.tasks[t].status = Absent \/ IsDone(wf.tasks[t].status)
    /\ event = "retry" /\ target = "running" =>
         \E t \in TaskIds : wf.tasks[t].status = "failed"
    /\ event = "cancel" /\ wf.state = "running" =>
         ~ \E t \in TaskIds : wf.tasks[t].status = "running"

\* What applyTransition requires before it changes anything.
TransitionAllowed(wf, event, target) ==
    GuardAllows(wf, event, target) /\ CanTransition(wf.state, target, event)


\* WorkflowStateMachine.transition: the instance after the event.
Transition(wf, event, target) ==
    [state   |-> target,
     tasks   |-> wf.tasks,
     history |-> Append(wf.history, Rule(wf.state, event, target)),
     version |-> wf.version + 1]
=============================================================================
