---------------------------- MODULE RunLifecycle ----------------------------
(***************************************************************************)
(* What the engine promises about a run, as docs/architecture.md draws it: *)
(*   pending -> running -> completed | failed | dead_lettered              *)
(* without the tasks, the locks and the calls that bring it about.         *)
(*                                                                         *)
(* state[r] is the run's state and reported[r] the one its JobRun shows.   *)
(* Each change is reported before the next one is made, and a dead-        *)
(* lettered run is filed, once, after its outcome was reported.            *)
(***************************************************************************)
EXTENDS Naturals, Sequences

CONSTANT Runs

VARIABLES state, reported, filed

lifecycleVars == <<state, reported, filed>>

Init ==
    /\ state = [r \in Runs |-> "absent"]
    /\ reported = [r \in Runs |-> "absent"]
    /\ filed = << >>

Submit(r) ==
    /\ state[r] = "absent"
    /\ state' = [state EXCEPT ![r] = "pending"]
    /\ UNCHANGED <<reported, filed>>

Change(r, from, to) ==
    /\ state[r] = from /\ reported[r] = from
    /\ state' = [state EXCEPT ![r] = to]
    /\ UNCHANGED <<reported, filed>>

Begin(r)      == Change(r, "pending", "running")
Complete(r)   == Change(r, "running", "completed")
Fail(r)       == Change(r, "running", "failed")
DeadLetter(r) == Change(r, "failed", "dead_lettered")

Report(r) ==
    /\ reported[r] # state[r]
    /\ reported' = [reported EXCEPT ![r] = state[r]]
    /\ UNCHANGED <<state, filed>>

File(r) ==
    /\ state[r] = "dead_lettered" /\ reported[r] = "dead_lettered"
    /\ \A i \in 1..Len(filed) : filed[i] # r
    /\ filed' = Append(filed, r)
    /\ UNCHANGED <<state, reported>>

\* The process ended and started again: nothing is kept on disk.
Forget ==
    /\ state' = [r \in Runs |-> "absent"]
    /\ reported' = [r \in Runs |-> "absent"]
    /\ filed' = << >>

Next ==
    \/ \E r \in Runs : \/ Submit(r) \/ Begin(r) \/ Complete(r) \/ Fail(r)
                       \/ DeadLetter(r) \/ Report(r) \/ File(r)
    \/ Forget

Spec == Init /\ [][Next]_lifecycleVars
=============================================================================
