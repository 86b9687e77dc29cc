-------------------------- MODULE CircuitBreaker ----------------------------
(***************************************************************************)
(* The circuit breaker of one HTTP handler and the overlapping invocations *)
(* HttpHandlerInvoker.invoke makes through it.  Breakers of different      *)
(* handlers share nothing, so one is modelled.                             *)
(*                                                                         *)
(* An invocation asks canExecute, then waits in fetch; its outcome reaches *)
(* the breaker whenever the answer, the network error or the abort signal  *)
(* comes, by which time other invocations may have moved the breaker.  The *)
(* remote service goes down and comes back; an invocation that was under   *)
(* way at a time when it was down may fail, even after it is back.         *)
(***************************************************************************)
EXTENDS Naturals

CONSTANTS
    Invocations,   \* invocations that can be open at the same time
    Threshold,     \* failures that open the circuit
    Cooldown       \* ticks of the clock an open circuit waits

ASSUME BreakerAssumption == Threshold \in Nat \ {0} /\ Cooldown \in Nat

VARIABLES
    state,      \* CircuitState
    failures,   \* failures since the last success, counted up to Threshold
    elapsed,    \* ticks since lastFailureAt, counted up to Cooldown
    pc,         \* "idle", or "fetch" while the answer is outstanding
    doomed,     \* the service was down at some time of this fetch
    down        \* the remote service is down

vars == <<state, failures, elapsed, pc, doomed, down>>

CircuitState == {"closed", "open", "half_open"}

\* lastFailureAt is 0, long ago.
Init ==
    /\ state = "closed"
    /\ failures = 0
    /\ elapsed = Cooldown
    /\ pc = [i \in Invocations |-> "idle"]
    /\ doomed = [i \in Invocations |-> FALSE]
    /\ down = FALSE

\* Faulty variant: an open circuit is never probed.
CanExecuteNever == state # "open"

\* Faulty variant: the cooldown is not waited for.
CanExecuteAlways == TRUE

\* canExecute answers whether to go on; asked after the cooldown it also moves
\* the breaker to half-open.
CanExecute == state # "open" \/ elapsed >= Cooldown

StateAfterCanExecute == IF state = "open" THEN "half_open" ELSE state

\* invoke, up to the fetch.  A refused invocation returns 503 at once and
\* changes nothing.
Invoke(i) ==
    /\ pc[i] = "idle"
    /\ CanExecute
    /\ state' = StateAfterCanExecute
    /\ pc' = [pc EXCEPT ![i] = "fetch"]
    /\ doomed' = [doomed EXCEPT ![i] = down]
    /\ UNCHANGED <<failures, elapsed, down>>

RecordSuccess ==
    /\ failures' = 0
    /\ state' = "closed"
    /\ UNCHANGED elapsed

\* Faulty variant: the circuit opens one failure late.
RecordFailureLate ==
    /\ failures' = IF failures < Threshold THEN failures + 1 ELSE failures
    /\ elapsed' = 0
    /\ state' = IF failures >= Threshold THEN "open" ELSE state

\* Faulty variant: only a closed circuit is opened.
RecordFailureOfProbeIgnored ==
    /\ failures' = IF failures < Threshold THEN failures + 1 ELSE failures
    /\ elapsed' = 0
    /\ state' = IF state = "closed" /\ failures' >= Threshold THEN "open" ELSE state

RecordFailure ==
    /\ failures' = IF failures < Threshold THEN failures + 1 ELSE failures
    /\ elapsed' = 0
    /\ state' = IF failures' >= Threshold THEN "open" ELSE state

Finish(i) ==
    /\ pc[i] = "fetch"
    /\ pc' = [pc EXCEPT ![i] = "idle"]
    /\ doomed' = [doomed EXCEPT ![i] = FALSE]
    /\ UNCHANGED down

\* The answer has status 2xx.
Succeed(i) == Finish(i) /\ RecordSuccess

\* Any other status, a network error, or the timeout.
Fail(i) == doomed[i] /\ Finish(i) /\ RecordFailure

\* Time passes.
TimePasses ==
    /\ elapsed < Cooldown
    /\ elapsed' = elapsed + 1
    /\ UNCHANGED <<state, failures, pc, doomed, down>>

\* The remote service fails, with whatever it was working on, or is repaired.
GoDown ==
    /\ ~ down
    /\ down' = TRUE
    /\ doomed' = [i \in Invocations |-> pc[i] = "fetch"]
    /\ UNCHANGED <<state, failures, elapsed, pc>>

GoUp ==
    /\ down
    /\ down' = FALSE
    /\ UNCHANGED <<state, failures, elapsed, pc, doomed>>

Next ==
    \/ \E i \in Invocations : Invoke(i) \/ Succeed(i) \/ Fail(i)
    \/ TimePasses \/ GoDown \/ GoUp

Spec == Init /\ [][Next]_vars

\* The clock runs, clients keep invoking the handler, and a fetch ends: at the
\* latest by its abort signal.
Fairness ==
    /\ WF_vars(TimePasses)
    /\ \A i \in Invocations : WF_vars(Invoke(i)) /\ WF_vars(Succeed(i) \/ Fail(i))

FairSpec == Spec /\ Fairness

-----------------------------------------------------------------------------
(* Properties.                                                             *)

\* Every variable holds a value of the kind the code gives it.
TypeOK ==
    /\ state \in CircuitState
    /\ failures \in 0..Threshold
    /\ elapsed \in 0..Cooldown
    /\ pc \in [Invocations -> {"idle", "fetch"}]
    /\ doomed \in [Invocations -> BOOLEAN]
    /\ down \in BOOLEAN

\* State and counter agree whatever the order in which outcomes arrive: the
\* circuit is closed exactly while fewer than Threshold failures have been seen
\* since the last success.  So a single failed probe opens it again.
ClosedMeansHealthy == state = "closed" <=> failures < Threshold

\* A half-open circuit waits for a probe that is really under way: whichever
\* outcome arrives first moves it on, so it cannot be left hanging half-open.
ProbeOutstanding == state = "half_open" => \E i \in Invocations : pc[i] = "fetch"

\* After Threshold failures in a row nothing is sent to the service until the
\* cooldown, counted from the latest failure to arrive, is over; further probes
\* only join one that is under way.
OpenShields ==
    [][\A i \in Invocations :
          pc[i] = "idle" /\ pc'[i] = "fetch" /\ failures >= Threshold =>
              \/ elapsed >= Cooldown
              \/ \E k \in Invocations : k # i /\ pc[k] = "fetch" /\ state = "half_open"]_vars

\* Once the remote service stays up, the circuit closes and stays closed: no
\* order of late failures, probes and cooldowns shuts a healthy service out.
Recovers == <>[](~ down) => <>[](state = "closed")
=============================================================================
