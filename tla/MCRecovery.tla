----------------------------- MODULE MCRecovery -----------------------------
(***************************************************************************)
(* One run, two calls, a job with one task that is retried, and the same   *)
(* job with another task whose run is dead-lettered at its first failure:  *)
(* the job may be registered again at any time.                            *)
(***************************************************************************)
EXTENDS Recovery, TLC

CONSTANTS a, b

NoDeps == [t \in {a, b} |-> {}]

Retried == [tasks |-> <<a>>, dependsOn |-> NoDeps,
            optional |-> {}, maxAttempts |-> 3, blocks |-> FALSE]
Single == [tasks |-> <<b>>, dependsOn |-> NoDeps,
           optional |-> {}, maxAttempts |-> 1, blocks |-> FALSE]

TheCandidates == {Retried, Single}

Perms == Permutations(Calls)
=============================================================================
