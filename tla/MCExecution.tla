---------------------------- MODULE MCExecution -----------------------------
(***************************************************************************)
(* Small instances of Execution: two tasks and the definitions clients     *)
(* register, and register again, for one job.                              *)
(***************************************************************************)
EXTENDS Execution, TLC

CONSTANTS a, b      \* the task ids

NoDeps == [t \in {a, b} |-> {}]

\* An optional b that is listed first and waits for a; maxAttempts 3 is the default policy.
Chain == [tasks |-> <<b, a>>, dependsOn |-> [NoDeps EXCEPT ![b] = {a}],
          optional |-> {b}, maxAttempts |-> 3, blocks |-> FALSE]

\* A single task that gets one attempt, and a constraint that may block.
Solo == [tasks |-> <<a>>, dependsOn |-> NoDeps,
         optional |-> {}, maxAttempts |-> 1, blocks |-> TRUE]

\* Two tasks waiting for each other: rejected by the validator.
Cycle == [tasks |-> <<a, b>>, dependsOn |-> (a :> {b} @@ b :> {a}),
          optional |-> {}, maxAttempts |-> 1, blocks |-> FALSE]

SafetyCandidates == {Chain, Solo, Cycle}
LiveCandidates   == {Chain, Cycle}
SoloCandidates   == {Solo}

Perms == Permutations(Runs) \cup Permutations(Calls)
=============================================================================
