------------------------------ MODULE Recovery ------------------------------
(***************************************************************************)
(* Execution together with what works on a run from the side:              *)
(* RunReplayer.replay and snapshot, and RecoveryService with its           *)
(* CheckpointStore.                                                        *)
(*                                                                         *)
(* A replay is an executeRun between two reads of the workflow and answers *)
(* the difference.  restoreToCheckpoint and snapshot save a workflow       *)
(* without the run lock, at any time, and leave the run's record alone.    *)
(***************************************************************************)
EXTENDS Execution

CONSTANTS
    MaxReplays,     \* bound: replays under way
    MaxCheckpoints, \* bound: checkpoints of a run
    MaxRestores     \* bound: restores between two starts of the process

VARIABLES
    checkpoints,    \* CheckpointStore: run id -> its snapshots, the version is the index
    copies,         \* run id -> what RunReplayer.snapshot has read and not saved yet
    before,         \* call -> the run it replays and the workflow it found
    quiet,          \* history: calls whose replay nobody else disturbed
    answer,         \* history: what a replay answered in the last step
    restores        \* counts restores, for the bound

rvars == <<checkpoints, copies, before, quiet, answer, restores>>
allvars == <<vars, rvars>>

-----------------------------------------------------------------------------
\* diffWorkflows: per task of the later workflow the fields that differ, and whether
\* the state does.
DiffWorkflows(old, new) ==
    [stateChanged |-> old.state # new.state,
     tasks        |-> {t \in TaskIds : /\ new.tasks[t].status # Absent
                                       /\ \/ old.tasks[t].status # new.tasks[t].status
                                          \/ old.tasks[t].attempt # new.tasks[t].attempt}]

NoReplay == [run |-> None, workflow |-> NoWorkflow]

NoChange == [stateChanged |-> FALSE, tasks |-> {}]
NoAnswer == [from |-> Absent, diff |-> NoChange, quiet |-> FALSE]

RInit ==
    /\ Init
    /\ checkpoints = [r \in Runs |-> << >>]
    /\ copies = [r \in Runs |-> NoWorkflow]
    /\ before = [c \in Calls |-> NoReplay]
    /\ quiet = {} /\ answer = NoAnswer /\ restores = 0

Replaying(c) == before[c].run # None

\* executeRun of the replay has resolved; the second read is next.
Answering(c) == Replaying(c) /\ pc[c] = "idle"

\* The call leaves executeRun by a throw: the replay is answered with an error.
Rejected(c) == pc[c] \notin {"idle", "enter", "settle", "push"} /\ pc'[c] = "idle"

\* Execution goes on as it is.
Execute ==
    /\ Next /\ ~ crashed
    /\ \A c \in Calls : Answering(c) => pc'[c] = "idle"
    /\ before' = [c \in Calls |-> IF Rejected(c) THEN NoReplay ELSE before[c]]
    /\ UNCHANGED <<checkpoints, copies, quiet, restores>> /\ answer' = NoAnswer

\* The checkpoints were in memory too.
RestartAll ==
    /\ Restart
    /\ checkpoints' = [r \in Runs |-> << >>]
    /\ copies' = [r \in Runs |-> NoWorkflow]
    /\ before' = [c \in Calls |-> NoReplay]
    /\ quiet' = {} /\ answer' = NoAnswer /\ restores' = 0

\* POST /v2/runs/:runId/replay: the first read, then executeRun is called.
Replay(c, r) ==
    /\ ~ crashed /\ ~ Replaying(c)
    /\ Cardinality({d \in Calls : Replaying(d)}) < MaxReplays
    /\ workflowStore[r].state # Absent
    /\ RequestExecute(c, r)
    /\ before' = [before EXCEPT ![c] = [run |-> r, workflow |-> workflowStore[r]]]
    /\ quiet' = IF r \in localLocks THEN quiet \ {c} ELSE quiet \cup {c}
    /\ UNCHANGED <<checkpoints, copies, restores>> /\ answer' = NoAnswer

\* The second read and the answer.
ReplayAnswers(c) ==
    /\ ~ crashed /\ Answering(c)
    /\ answer' = [from  |-> before[c].workflow.state,
                  diff  |-> DiffWorkflows(before[c].workflow, workflowStore[before[c].run]),
                  quiet |-> c \in quiet]
    /\ before' = [before EXCEPT ![c] = NoReplay]
    /\ quiet' = quiet \ {c}
    /\ UNCHANGED <<vars, checkpoints, copies, restores>>

\* captureCheckpoint of the stored workflow, a deep copy.
CaptureCheckpoint(r) ==
    /\ ~ crashed /\ workflowStore[r].state # Absent
    /\ Len(checkpoints[r]) < MaxCheckpoints
    /\ checkpoints' = [checkpoints EXCEPT ![r] = Append(@, workflowStore[r])]
    /\ UNCHANGED <<vars, copies, before, quiet, restores>> /\ answer' = NoAnswer

\* A save from the side: the replays under way are no longer alone.
SaveAside(r, wf) ==
    /\ workflowStore' = [workflowStore EXCEPT ![r] = wf]
    /\ quiet' = {}
    /\ UNCHANGED <<jobStore, runStore, deadLetters, locks, crashed, pc, locals>>

RestoreToCheckpoint(r, version) ==
    /\ ~ crashed /\ restores < MaxRestores
    /\ version \in 1..Len(checkpoints[r])
    /\ SaveAside(r, checkpoints[r][version])
    /\ restores' = restores + 1
    /\ UNCHANGED <<checkpoints, copies, before>> /\ answer' = NoAnswer

\* RunReplayer.snapshot reads the workflow, and after an await saves the copy.
SnapshotRead(r) ==
    /\ ~ crashed /\ restores < MaxRestores
    /\ copies[r].state = Absent /\ workflowStore[r].state # Absent
    /\ copies' = [copies EXCEPT ![r] = workflowStore[r]]
    /\ restores' = restores + 1
    /\ UNCHANGED <<vars, checkpoints, before, quiet>> /\ answer' = NoAnswer

SnapshotSave(r) ==
    /\ ~ crashed /\ copies[r].state # Absent
    /\ SaveAside(r, copies[r])
    /\ copies' = [copies EXCEPT ![r] = NoWorkflow]
    /\ UNCHANGED <<checkpoints, before, restores>> /\ answer' = NoAnswer

RNext ==
    \/ Execute \/ RestartAll
    \/ \E c \in Calls, r \in Runs : Replay(c, r)
    \/ \E c \in Calls : ReplayAnswers(c)
    \/ \E r \in Runs : CaptureCheckpoint(r) \/ SnapshotRead(r) \/ SnapshotSave(r)
    \/ \E r \in Runs, v \in 1..MaxCheckpoints : RestoreToCheckpoint(r, v)

RSpec == RInit /\ [][RNext]_allvars

-----------------------------------------------------------------------------
\* Whatever is restored and whenever, a run is parked in `waiting`, which nothing
\* resumes, only when it was put back into the middle of a backoff: the task it waits
\* for is `retrying` and the timer that would queue it again belongs to a call that
\* has ended or works on another copy.
StallsOnlyInBackoff ==
    \A r \in Runs :
        workflowStore[r].state = "waiting" =>
            \E t \in TaskIds : workflowStore[r].tasks[t].status = "retrying"

\* A replay of a completed run, with nobody else at work on it, executes nothing and
\* answers that nothing changed, also when the job was registered again with other
\* tasks.
CompletedReplayIsSilent ==
    (answer.quiet /\ answer.from = "completed") => answer.diff = NoChange

\* A dead letter is there to be replayed: a replay of a dead-lettered run, with nobody
\* else at work on it, executes something.
DeadLettersReplay ==
    (answer.quiet /\ answer.from = "dead_lettered") => answer.diff # NoChange
=============================================================================
