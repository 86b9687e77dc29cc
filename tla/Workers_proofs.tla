--------------------------- MODULE Workers_proofs ---------------------------
(***************************************************************************)
(* Proofs about CircuitBreaker, for every threshold, cooldown and number   *)
(* of overlapping invocations, and about Saga, for sagas of any length.    *)
(***************************************************************************)
EXTENDS CircuitBreaker, Saga, SequenceTheorems, TLAPS

-----------------------------------------------------------------------------
(* The circuit breaker.                                                    *)

\* State, counter and outstanding probes are kept in step together: a failed
\* probe leaves half-open only because the counter is still at the threshold.
BreakerInv == TypeOK /\ ClosedMeansHealthy /\ ProbeOutstanding

LEMMA BreakerInit == Init => BreakerInv
<1> SUFFICES ASSUME Init PROVE BreakerInv
  OBVIOUS
<1>1. failures \in 0..Threshold /\ elapsed \in 0..Cooldown /\ failures < Threshold
  BY BreakerAssumption DEF Init
<1>2. TypeOK
  BY <1>1 DEF Init, TypeOK, CircuitState
<1> QED BY <1>1, <1>2 DEF Init, BreakerInv, ClosedMeansHealthy, ProbeOutstanding

LEMMA BreakerStep == BreakerInv /\ [Next]_vars => BreakerInv'
<1> SUFFICES ASSUME BreakerInv, [Next]_vars PROVE BreakerInv'
  OBVIOUS
<1> USE BreakerAssumption DEF BreakerInv, TypeOK, ClosedMeansHealthy, CircuitState
<1>1. ASSUME NEW i \in Invocations, Invoke(i) PROVE BreakerInv'
  <2>1. pc'[i] = "fetch"
    BY <1>1 DEF Invoke
  <2> QED BY <1>1, <2>1 DEF Invoke, CanExecute, StateAfterCanExecute, ProbeOutstanding
<1>2. ASSUME NEW i \in Invocations, Succeed(i) PROVE BreakerInv'
  BY <1>2 DEF Succeed, Finish, RecordSuccess, ProbeOutstanding
<1>3. ASSUME NEW i \in Invocations, Fail(i) PROVE BreakerInv'
  <2>1. state' # "half_open"
    BY <1>3 DEF Fail, RecordFailure
  <2> QED BY <1>3, <2>1 DEF Fail, Finish, RecordFailure, ProbeOutstanding
<1>4. CASE TimePasses
  BY <1>4 DEF TimePasses, ProbeOutstanding
<1>5. CASE GoDown
  BY <1>5 DEF GoDown, ProbeOutstanding
<1>6. CASE GoUp
  BY <1>6 DEF GoUp, ProbeOutstanding
<1>7. CASE UNCHANGED vars
  BY <1>7 DEF vars, ProbeOutstanding
<1> QED BY <1>1, <1>2, <1>3, <1>4, <1>5, <1>6, <1>7 DEF Next

\* The breaker is closed exactly while fewer than Threshold failures were seen
\* since the last success, in whatever order recordSuccess and recordFailure
\* are called by overlapping invocations.
THEOREM StateMatchesCount == Spec => []ClosedMeansHealthy
<1>1. BreakerInv => ClosedMeansHealthy
  BY DEF BreakerInv
<1> QED BY <1>1, BreakerInit, BreakerStep, PTL DEF Spec

\* A half-open breaker always has a request under way that will move it on.
THEOREM HalfOpenIsProbed == Spec => []ProbeOutstanding
<1>1. BreakerInv => ProbeOutstanding
  BY DEF BreakerInv
<1> QED BY <1>1, BreakerInit, BreakerStep, PTL DEF Spec

\* After Threshold failures in a row a request is sent only once the cooldown is
\* over, or beside a probe that is under way.
THEOREM OpenCircuitShields == Spec => OpenShields
<1> DEFINE Shields ==
      \A i \in Invocations :
          pc[i] = "idle" /\ pc'[i] = "fetch" /\ failures >= Threshold =>
              \/ elapsed >= Cooldown
              \/ \E k \in Invocations : k # i /\ pc[k] = "fetch" /\ state = "half_open"
<1>1. BreakerInv /\ [Next]_vars => [Shields]_vars
  <2> SUFFICES ASSUME BreakerInv, Next,
                      NEW i \in Invocations, pc[i] = "idle", pc'[i] = "fetch",
                      failures >= Threshold
               PROVE  \/ elapsed >= Cooldown
                      \/ \E k \in Invocations : k # i /\ pc[k] = "fetch" /\ state = "half_open"
    OBVIOUS
  <2>1. Invoke(i)
    BY DEF Next, Invoke, Succeed, Fail, Finish, TimePasses, GoDown, GoUp, BreakerInv, TypeOK
  <2>2. state # "closed"
    BY BreakerAssumption DEF BreakerInv, TypeOK, ClosedMeansHealthy
  <2>3. CASE state = "open"
    BY <2>1, <2>3 DEF Invoke, CanExecute
  <2>4. CASE state = "half_open"
    BY <2>4 DEF BreakerInv, ProbeOutstanding
  <2> QED BY <2>2, <2>3, <2>4 DEF BreakerInv, TypeOK, CircuitState
<1> QED BY <1>1, BreakerInit, BreakerStep, PTL DEF Spec, OpenShields
-----------------------------------------------------------------------------
(* Sagas.                                                                  *)

StepStatus == {"pending", "running", "completed", "failed", "compensating", "compensated"}

\* n, n - 1, ..., 1, where n is its length.
Countdown(s) == s \in Seq(Nat) /\ \A k \in 1..Len(s) : s[k] = Len(s) - k + 1

\* Of m completed steps, those after the first n have been compensated where that
\* was possible, and the first n have not been touched; the next step failed.
Undone(n, m, now) ==
    /\ m < Len(def)
    /\ now \in [1..Len(def) -> StepStatus]
    /\ \A i \in 1..Len(def) :
         /\ i <= n => now[i] = "completed"
         /\ n < i /\ i <= m /\ Compensable(i) => now[i] \in Undoing
         /\ n < i /\ i <= m /\ ~ Compensable(i) => now[i] = "completed"
         /\ i = m + 1 => now[i] = "failed"
         /\ i > m + 1 => now[i] = "pending"

\* The steps have been completed in order, and the next one is under way.
ForwardInv(m) ==
    /\ status = "active" /\ order = << >> /\ effect = 1..m
    /\ m < Len(def)
    /\ steps \in [1..Len(def) -> StepStatus]
    /\ \A i \in 1..Len(def) :
         /\ i <= m => steps[i] = "completed"
         /\ i = m + 1 => steps[i] = "running"
         /\ i > m + 1 => steps[i] = "pending"

\* The compensation of step Len(order) is under way.
CompensateInv(m) ==
    /\ status = "failed" /\ effect \subseteq 1..m
    /\ Countdown(order) /\ order # << >> /\ Len(order) <= m
    /\ Undone(Len(order) - 1, m, steps)
    /\ Compensable(Len(order)) /\ steps[Len(order)] = "compensating"

DoneInv(m) ==
    /\ order = << >>
    /\ \/ /\ status = "completed" /\ m = Len(def) /\ effect = 1..m
          /\ steps \in [1..m -> {"completed"}]
       \/ status = "compensated" /\ effect \subseteq 1..m /\ Undone(0, m, steps)

SagaInv ==
    /\ def \in Seq(SagaStep)
    /\ stack \in Seq(Nat) /\ Len(stack) <= Len(def)
    /\ \A k \in 1..Len(stack) : stack[k] = k
    /\ \/ /\ sagaPc = "idle"
          /\ steps = << >> /\ stack = << >> /\ order = << >> /\ effect = {}
       \/ sagaPc = "forward" /\ ForwardInv(Len(stack))
       \/ sagaPc = "compensate" /\ CompensateInv(Len(stack))
       \/ sagaPc = "done" /\ DoneInv(Len(stack))

-----------------------------------------------------------------------------
LEMMA SagaBegins == SagaInit => SagaInv
  BY SagaAssumption DEF SagaInit, SagaInv

\* The loop of compensate, entered with the steps Len(left), ..., 1 to go.
LEMMA CompensateKeeps ==
    ASSUME def \in Seq(SagaStep), def' = def,
           NEW m \in Nat, NEW left, Countdown(left), Len(left) <= m,
           NEW now, Undone(Len(left), m, now),
           effect' \subseteq 1..m,
           CompensateNext(left, now)
    PROVE  \/ sagaPc' = "compensate" /\ CompensateInv(m)'
           \/ sagaPc' = "done" /\ DoneInv(m)'
<1>n. PICK n \in Nat : n = Len(left)
  BY DEF Countdown
<1>1. /\ DOMAIN left = 1..n /\ left \in Seq(Nat)
      /\ \A k \in 1..n : left[k] = n - k + 1
      /\ Len(def) \in Nat
      /\ Undone(n, m, now) /\ n <= m
  BY <1>n DEF Countdown
<1>2. CASE /\ \A k \in DOMAIN left : ~ Compensable(left[k])
           /\ order' = << >>
           /\ sagaPc' = "done" /\ status' = "compensated" /\ steps' = now
  <2>1. \A i \in 1..n : ~ Compensable(i)
    <3>1. \A i \in 1..n : n - i + 1 \in 1..n /\ left[n - i + 1] = i
      BY <1>1
    <3> QED
      BY <1>1, <1>2, <3>1
  <2>2. Undone(0, m, now)
    BY <1>1, <2>1 DEF Undone
  <2> QED
    BY <1>2, <2>2 DEF DoneInv, Undone, Compensable
<1>3. ASSUME NEW k \in DOMAIN left,
             Compensable(left[k]), \A j \in 1..(k - 1) : ~ Compensable(left[j]),
             order' = SubSeq(left, k, Len(left)),
             sagaPc' = "compensate", status' = "failed",
             steps' = [now EXCEPT ![left[k]] = "compensating"]
      PROVE  sagaPc' = "compensate" /\ CompensateInv(m)'
  <2>h. PICK h \in Int : h = n - k + 1
    BY <1>1
  <2>1. h \in 1..n /\ left[k] = h /\ k \in 1..n /\ h \in 1..Len(def) /\ h = n - k + 1
    <3>1. k \in 1..n
      BY <1>1
    <3>2. m < Len(def)
      BY <1>1 DEF Undone
    <3>3. left[k] = n - k + 1
      BY <1>1, <3>1
    <3>4. h \in 1..n /\ h \in 1..Len(def)
      <4>1. h \in 1..n
        BY <2>h, <3>1
      <4>2. n <= m /\ Len(def) \in Nat
        BY <1>1
      <4> QED
        BY <3>2, <4>1, <4>2
    <3> QED
      BY <2>h, <3>1, <3>3, <3>4
  <2>2. /\ order' \in Seq(Nat) /\ Len(order') = h
        /\ \A j \in 1..h : order'[j] = h - j + 1
    <3>1. k \in Int /\ n \in Int /\ k <= n /\ \A i \in k..n : left[i] \in Nat
      <4>1. \A i \in k..n : i \in 1..n
        BY <2>1
      <4>2. \A i \in 1..n : left[i] \in Nat
        BY <1>1
      <4> QED
        BY <2>1, <4>1, <4>2
    <3>2. /\ order' \in Seq(Nat) /\ Len(order') = n - k + 1
          /\ \A j \in 1..(n - k + 1) : order'[j] = left[k + j - 1]
      BY <1>n, <1>3, <3>1, SubSeqProperties
    <3>3. \A j \in 1..h : k + j - 1 \in 1..n /\ n - (k + j - 1) + 1 = h - j + 1
      BY <2>1
    <3> QED
      BY <1>1, <2>1, <3>2, <3>3
  <2>3. \A i \in (h + 1)..n : ~ Compensable(i)
    <3>1. \A i \in (h + 1)..n : /\ n - i + 1 \in 1..(k - 1) /\ n - i + 1 \in 1..n
                               /\ n - (n - i + 1) + 1 = i
      BY <2>1
    <3>2. \A i \in (h + 1)..n : left[n - i + 1] = i
      BY <1>1, <3>1
    <3> QED
      BY <1>3, <3>1, <3>2
  <2>4. Undone(h - 1, m, steps') /\ steps'[h] = "compensating"
    <3>1. now \in [1..Len(def) -> StepStatus] /\ m < Len(def) /\ n <= m
      BY <1>1 DEF Undone
    <3>2. steps' \in [1..Len(def) -> StepStatus] /\ steps'[h] = "compensating"
      BY <1>3, <2>1, <3>1 DEF StepStatus
    <3>3. \A i \in 1..Len(def) : i # h => steps'[i] = now[i]
      BY <1>3, <2>1, <3>1
    <3>4. \A i \in 1..Len(def) :
            /\ i <= n => now[i] = "completed"
            /\ n < i /\ i <= m /\ Compensable(i) => now[i] \in Undoing
            /\ n < i /\ i <= m /\ ~ Compensable(i) => now[i] = "completed"
            /\ i = m + 1 => now[i] = "failed"
            /\ i > m + 1 => now[i] = "pending"
      BY <1>1 DEF Undone
    <3>5. Compensable(h) /\ steps'[h] \in Undoing
      BY <1>3, <2>1, <3>2 DEF Undoing
    <3>6. ASSUME NEW i \in 1..Len(def)
          PROVE  /\ i <= h - 1 => steps'[i] = "completed"
                 /\ h - 1 < i /\ i <= m /\ Compensable(i) => steps'[i] \in Undoing
                 /\ h - 1 < i /\ i <= m /\ ~ Compensable(i) => steps'[i] = "completed"
                 /\ i = m + 1 => steps'[i] = "failed"
                 /\ i > m + 1 => steps'[i] = "pending"
      <4>1. CASE i = h
        <5>1. h <= m /\ ~ (h <= h - 1) /\ ~ (h = m + 1) /\ ~ (h > m + 1)
          BY <2>1, <3>1
        <5> QED
          BY <3>5, <4>1, <5>1
      <4>2. CASE i # h /\ i <= n
        <5>1. steps'[i] = "completed" /\ i <= m /\ i < m + 1
          BY <1>1, <3>1, <3>3, <3>4, <4>2
        <5>2. h - 1 < i => ~ Compensable(i)
          BY <1>1, <2>1, <2>3, <4>2
        <5> QED
          BY <1>1, <5>1, <5>2
      <4>3. CASE i > n
        <5>1. i # h /\ ~ (i <= h - 1) /\ h - 1 < i
          BY <2>1, <4>3
        <5> QED
          BY <3>3, <3>4, <4>3, <5>1
      <4> QED
        BY <1>1, <4>1, <4>2, <4>3
    <3> QED
      BY <3>1, <3>2, <3>6 DEF Undone
  <2>5. order' # << >>
    BY <2>1, <2>2
  <2>6. Compensable(h)'
    BY <1>3, <2>1 DEF Compensable
  <2> QED
    <3>1. Undone(h - 1, m, steps)'
      BY <2>4 DEF Undone, Compensable
    <3>2. Countdown(order)'
      BY <2>1, <2>2 DEF Countdown
    <3>3. h <= m /\ Len(order') = h
      BY <1>1, <2>1, <2>2
    <3>4. Undone(Len(order) - 1, m, steps)'
      BY <3>1, <3>3 DEF Undone, Compensable
    <3>5. (Compensable(Len(order)) /\ steps[Len(order)] = "compensating")'
      BY <2>4, <2>6, <3>3 DEF Compensable
    <3> QED
      BY <1>3, <2>5, <3>2, <3>3, <3>4, <3>5 DEF CompensateInv
<1> QED
  BY <1>2, <1>3 DEF CompensateNext

-----------------------------------------------------------------------------
\* The next step, with m completed so far.
LEMMA ForwardKeeps ==
    ASSUME def \in Seq(SagaStep), def' = def,
           NEW done \in Seq(Nat), Len(done) <= Len(def), \A k \in 1..Len(done) : done[k] = k,
           NEW now \in [1..Len(def) -> StepStatus],
           \A i \in 1..Len(def) : /\ i <= Len(done) => now[i] = "completed"
                                  /\ i > Len(done) => now[i] = "pending",
           order = << >>, effect' = 1..Len(done),
           Forward(Len(done) + 1, done, now)
    PROVE  SagaInv'
<1> DEFINE m == Len(done)
<1>1. m \in Nat /\ Len(def) \in Nat
  OBVIOUS
<1>2. stack' = done
  BY DEF Forward, Abort
<1>3. CASE m + 1 > Len(def)
  BY <1>1, <1>2, <1>3 DEF Forward, SagaInv, DoneInv
<1>4. CASE m < Len(def) /\ def[m + 1].forward
  <2>1. /\ sagaPc' = "forward" /\ status' = "active" /\ order' = << >>
        /\ steps' = [now EXCEPT ![m + 1] = "running"]
    BY <1>1, <1>4 DEF Forward
  <2>2. ForwardInv(m)'
    BY <1>1, <1>4, <2>1 DEF ForwardInv, StepStatus
  <2> QED
    BY <1>2, <2>1, <2>2 DEF SagaInv
<1>5. CASE m < Len(def) /\ ~ def[m + 1].forward
  <2> DEFINE then == [now EXCEPT ![m + 1] = "failed"]
             left == ToCompensateOrder(done)
  <2>1. CompensateNext(left, then)
    BY <1>1, <1>5 DEF Forward, Abort
  <2>2. Countdown(left) /\ Len(left) = m
    BY <1>1 DEF ToCompensateOrder, Reverse, Countdown
  <2>3. Undone(m, m, then)
    BY <1>1, <1>5 DEF Undone, StepStatus
  <2> HIDE DEF then, left
  <2>4. \/ sagaPc' = "compensate" /\ CompensateInv(m)'
        \/ sagaPc' = "done" /\ DoneInv(m)'
    BY <1>1, <2>1, <2>2, <2>3, CompensateKeeps
  <2> QED
    BY <1>2, <2>4 DEF SagaInv
<1> QED
  BY <1>1, <1>3, <1>4, <1>5

LEMMA StartKeeps == SagaInv /\ StartSaga => SagaInv'
<1> SUFFICES ASSUME SagaInv, StartSaga
             PROVE  SagaInv'
  OBVIOUS
<1>1. def \in Seq(SagaStep) /\ def' = def /\ order = << >> /\ effect' = {}
  BY DEF SagaInv, StartSaga
<1> DEFINE now == [i \in 1..Len(def) |-> "pending"]
<1>2. PICK done : done = << >>
  OBVIOUS
<1>3. /\ done \in Seq(Nat) /\ Len(done) = 0 /\ Len(done) <= Len(def)
      /\ \A k \in 1..Len(done) : done[k] = k
      /\ effect' = 1..Len(done)
  BY <1>1, <1>2
<1>4. Forward(Len(done) + 1, done, now)
  BY <1>2, <1>3 DEF StartSaga
<1>5. /\ now \in [1..Len(def) -> StepStatus]
      /\ \A i \in 1..Len(def) : /\ i <= Len(done) => now[i] = "completed"
                                /\ i > Len(done) => now[i] = "pending"
  BY <1>3 DEF StepStatus
<1> HIDE DEF now
<1> QED
  BY <1>1, <1>3, <1>4, <1>5, ForwardKeeps

\* While a forward handler is under way, what there is of the saga.
LEMMA UnderWay ==
    ASSUME SagaInv, sagaPc = "forward"
    PROVE  /\ CurrentStep = Len(stack) + 1 /\ Len(stack) \in Nat
           /\ Len(stack) < Len(def) /\ Len(def) \in Nat
           /\ ForwardInv(Len(stack))
<1>1. ForwardInv(Len(stack)) /\ Len(stack) \in Nat /\ Len(def) \in Nat
  BY DEF SagaInv
<1>2. DOMAIN steps = 1..Len(def) /\ Len(stack) + 1 \in DOMAIN steps
  BY <1>1 DEF ForwardInv
<1>3. \A i \in DOMAIN steps : steps[i] = "running" <=> i = Len(stack) + 1
  BY <1>1, <1>2 DEF ForwardInv
<1>4. CurrentStep \in DOMAIN steps /\ steps[CurrentStep] = "running"
  BY <1>2, <1>3 DEF CurrentStep
<1> QED
  BY <1>1, <1>3, <1>4 DEF ForwardInv

LEMMA StepSucceedsKeeps == SagaInv /\ StepSucceeds => SagaInv'
<1> SUFFICES ASSUME SagaInv, StepSucceeds
             PROVE  SagaInv'
  OBVIOUS
<1> DEFINE m == Len(stack)
           done == Append(stack, m + 1)
           now == [steps EXCEPT ![m + 1] = "completed"]
<1>1. /\ CurrentStep = m + 1 /\ m \in Nat /\ m < Len(def) /\ Len(def) \in Nat
      /\ ForwardInv(m)
  BY UnderWay DEF StepSucceeds
<1>2. /\ stack \in Seq(Nat) /\ def \in Seq(SagaStep) /\ def' = def /\ order = << >>
      /\ \A k \in 1..m : stack[k] = k
  BY <1>1 DEF SagaInv, StepSucceeds, ForwardInv
<1>3. /\ done \in Seq(Nat) /\ Len(done) = m + 1
      /\ \A k \in 1..(m + 1) : done[k] = k
  BY <1>1, <1>2
<1>4. /\ now \in [1..Len(def) -> StepStatus]
      /\ \A i \in 1..Len(def) : /\ i <= m + 1 => now[i] = "completed"
                                /\ i > m + 1 => now[i] = "pending"
  BY <1>1 DEF ForwardInv, StepStatus
<1>5. effect' = 1..(m + 1)
  BY <1>1 DEF StepSucceeds, ForwardInv
<1>6. Forward(Len(done) + 1, done, now)
  BY <1>1, <1>3 DEF StepSucceeds
<1> HIDE DEF done, now
<1>7. /\ Len(done) <= Len(def) /\ effect' = 1..Len(done)
      /\ \A k \in 1..Len(done) : done[k] = k
      /\ \A i \in 1..Len(def) : /\ i <= Len(done) => now[i] = "completed"
                                /\ i > Len(done) => now[i] = "pending"
  BY <1>1, <1>3, <1>4, <1>5
<1> QED
  BY <1>2, <1>3, <1>4, <1>6, <1>7, ForwardKeeps

LEMMA StepFailsKeeps == SagaInv /\ StepFails => SagaInv'
<1> SUFFICES ASSUME SagaInv, StepFails
             PROVE  SagaInv'
  OBVIOUS
<1> DEFINE m == Len(stack)
           then == [steps EXCEPT ![m + 1] = "failed"]
           left == ToCompensateOrder(stack)
<1>1. /\ CurrentStep = m + 1 /\ m \in Nat /\ m < Len(def) /\ Len(def) \in Nat
      /\ ForwardInv(m)
  BY UnderWay DEF StepFails
<1>2. /\ stack \in Seq(Nat) /\ def \in Seq(SagaStep) /\ def' = def /\ stack' = stack
      /\ \A k \in 1..m : stack[k] = k
      /\ effect' \subseteq 1..m
  BY <1>1 DEF SagaInv, StepFails, Abort, ForwardInv
<1>3. CompensateNext(left, then)
  BY <1>1 DEF StepFails, Abort
<1>4. Countdown(left) /\ Len(left) = m
  BY <1>1, <1>2 DEF ToCompensateOrder, Reverse, Countdown
<1>5. Undone(m, m, then)
  BY <1>1 DEF Undone, ForwardInv, StepStatus
<1> HIDE DEF then, left
<1>6. \/ sagaPc' = "compensate" /\ CompensateInv(m)'
      \/ sagaPc' = "done" /\ DoneInv(m)'
  <2>1. PICK c \in Nat : c = m
    BY <1>1
  <2>2. \/ sagaPc' = "compensate" /\ CompensateInv(c)'
        \/ sagaPc' = "done" /\ DoneInv(c)'
    BY <1>2, <1>3, <1>4, <1>5, <2>1, CompensateKeeps
  <2> QED
    BY <1>2, <2>1, <2>2
<1> QED
  BY <1>1, <1>2, <1>6 DEF SagaInv

\* The compensation under way ends, leaving its step compensating or compensated.
LEMMA CompensationEndsKeeps ==
    ASSUME SagaInv, sagaPc = "compensate",
           NEW now, now \in {steps, [steps EXCEPT ![Head(order)] = "compensated"]},
           def' = def, stack' = stack, effect' \subseteq effect,
           CompensateNext(Tail(order), now)
    PROVE  SagaInv'
<1>1. PICK m \in Nat : m = Len(stack)
  BY DEF SagaInv
<1>n. PICK n \in Nat : n = Len(order)
  BY DEF SagaInv, CompensateInv, Countdown
<1>2. CompensateInv(m) /\ def \in Seq(SagaStep) /\ Len(def) \in Nat
  BY <1>1 DEF SagaInv
<1>3. /\ order \in Seq(Nat) /\ n \in 1..m /\ m < Len(def) /\ Head(order) = n
      /\ \A k \in 1..n : order[k] = n - k + 1
  BY <1>1, <1>n, <1>2 DEF CompensateInv, Countdown, Undone
<1>4. Countdown(Tail(order)) /\ Len(Tail(order)) = n - 1
  <2>1. Tail(order) \in Seq(Nat) /\ Len(Tail(order)) = n - 1
    BY <1>n, <1>3
  <2>2. \A k \in 1..(n - 1) : Tail(order)[k] = order[k + 1] /\ k + 1 \in 1..n
    BY <1>n, <1>3
  <2> QED
    BY <1>3, <2>1, <2>2 DEF Countdown
<1>5. Undone(n - 1, m, now)
  <2>1. Undone(n - 1, m, steps) /\ Compensable(n) /\ steps[n] = "compensating"
    BY <1>n, <1>2 DEF CompensateInv
  <2>2. now \in [1..Len(def) -> StepStatus] /\ now[n] \in Undoing
    BY <1>2, <1>3, <2>1 DEF Undone, StepStatus, Undoing
  <2>3. \A i \in 1..Len(def) : i # n => now[i] = steps[i]
    BY <1>3, <2>1 DEF Undone
  <2>4. ASSUME NEW i \in 1..Len(def)
        PROVE  /\ i <= n - 1 => now[i] = "completed"
               /\ n - 1 < i /\ i <= m /\ Compensable(i) => now[i] \in Undoing
               /\ n - 1 < i /\ i <= m /\ ~ Compensable(i) => now[i] = "completed"
               /\ i = m + 1 => now[i] = "failed"
               /\ i > m + 1 => now[i] = "pending"
    <3>1. CASE i = n
      BY <1>3, <2>1, <2>2, <3>1
    <3>2. CASE i # n
      BY <2>1, <2>3, <3>2 DEF Undone
    <3> QED
      BY <3>1, <3>2
  <2> QED
    BY <1>3, <2>2, <2>4 DEF Undone
<1>6. effect' \subseteq 1..m
  BY <1>2 DEF CompensateInv
<1>7. \/ sagaPc' = "compensate" /\ CompensateInv(m)'
      \/ sagaPc' = "done" /\ DoneInv(m)'
  <2>1. PICK left : left = Tail(order)
    OBVIOUS
  <2>2. Countdown(left) /\ Len(left) <= m /\ Undone(Len(left), m, now)
    BY <1>3, <1>4, <1>5, <2>1
  <2> QED
    BY <1>2, <1>6, <2>1, <2>2, CompensateKeeps
<1> QED
  BY <1>1, <1>7 DEF SagaInv

LEMMA SagaStepKeeps == SagaInv /\ [SagaNext]_sagaVars => SagaInv'
<1> SUFFICES ASSUME SagaInv, [SagaNext]_sagaVars
             PROVE  SagaInv'
  OBVIOUS
<1>1. CASE StartSaga
  BY <1>1, StartKeeps
<1>2. CASE StepSucceeds
  BY <1>2, StepSucceedsKeeps
<1>3. CASE StepFails
  BY <1>3, StepFailsKeeps
<1>4. CASE CompensationReturns
  <2>1. effect' \subseteq effect
    BY <1>4 DEF CompensationReturns
  <2> QED
    BY <1>4, <2>1, CompensationEndsKeeps DEF CompensationReturns
<1>5. CASE CompensationThrows
  BY <1>5, CompensationEndsKeeps DEF CompensationThrows
<1>6. CASE UNCHANGED sagaVars
  BY <1>6 DEF sagaVars, SagaInv, ForwardInv, CompensateInv, DoneInv, Undone, Compensable, Countdown
<1> QED
  BY <1>1, <1>2, <1>3, <1>4, <1>5, <1>6 DEF SagaNext, HandlerReturns, SagaDone

LEMMA SagaInvariant == SagaSpec => []SagaInv
  BY SagaBegins, SagaStepKeeps, PTL DEF SagaSpec

\* What Undone says of the order of compensation.
LEMMA Backwards ==
    ASSUME NEW m \in Nat, Len(def) \in Nat, NEW n \in Nat, n <= m, Undone(n, m, steps)
    PROVE  /\ DOMAIN steps = 1..Len(def)
           /\ \A i, j \in DOMAIN steps :
                i < j /\ steps[i] \in Undoing /\ Undoable(j) => steps[j] # "completed"
           /\ \A i \in DOMAIN steps : steps[i] \in Undoing => Undoable(i) /\ i \in 1..m
<1>1. DOMAIN steps = 1..Len(def)
  BY DEF Undone
<1>2. \A i \in DOMAIN steps : steps[i] \in Undoing => n < i /\ i <= m /\ Undoable(i)
  BY <1>1 DEF Undone, Undoing, Compensable, Undoable
<1>3. \A j \in DOMAIN steps : n < j /\ Undoable(j) => steps[j] # "completed"
  BY <1>1 DEF Undone, Undoing, Compensable, Undoable
<1> QED
  BY <1>1, <1>2, <1>3

-----------------------------------------------------------------------------
\* Compensation is last in, first out, for every saga: a step is touched only when
\* every later completed step that can be compensated has been dealt with, and never
\* a step that did not complete.  SagaCoordinator.compensate, CompensationStack.
THEOREM CompensatesBackwards == SagaSpec => []LastInFirstOut
<1>1. ASSUME SagaInv
      PROVE  LastInFirstOut
  <2> DEFINE m == Len(stack)
  <2>1. /\ m \in Nat /\ Len(def) \in Nat /\ DOMAIN stack = 1..m
        /\ \A k \in 1..m : stack[k] = k
    BY <1>1 DEF SagaInv
  <2>2. {stack[k] : k \in DOMAIN stack} = 1..m
    BY <2>1
  <2>3. CASE sagaPc = "idle"
    BY <1>1, <2>3 DEF SagaInv, LastInFirstOut
  <2>4. CASE sagaPc = "forward"
    <3>1. /\ DOMAIN steps = 1..Len(def) /\ effect = 1..m
          /\ \A i \in DOMAIN steps : steps[i] \in {"completed", "running", "pending"}
      BY <1>1, <2>1, <2>4 DEF SagaInv, ForwardInv
    <3>2. \A i \in DOMAIN steps : steps[i] \notin Undoing /\ steps[i] # "compensated"
      BY <3>1 DEF Undoing
    <3> QED
      BY <2>2, <3>1, <3>2, Zenon DEF LastInFirstOut
  <2>5. CASE sagaPc = "compensate"
    <3>1. CompensateInv(m)
      BY <1>1, <2>5 DEF SagaInv
    <3>2. /\ Len(order) \in 1..m /\ DOMAIN order = 1..Len(order)
          /\ \A k \in 1..Len(order) : order[k] \in 1..Len(order)
          /\ DOMAIN steps = 1..Len(def)
      BY <2>1, <3>1 DEF CompensateInv, Countdown, Undone
    <3>3. Undone(Len(order) - 1, m, steps) /\ effect \subseteq 1..m
      BY <3>1 DEF CompensateInv
    <3>4. \A i \in DOMAIN steps : steps[i] = "compensated" => \A k \in DOMAIN order : order[k] # i
      <4>1. \A i \in 1..Len(order) : steps[i] # "compensated"
        <5>1. \A i \in 1..Len(order) : i = Len(order) \/ i <= Len(order) - 1
          <6>1. Len(order) \in Nat
            BY <2>1, <3>2
          <6> QED
            BY <6>1
        <5>2. \A i \in 1..Len(order) : i \in 1..Len(def)
          <6>1. m < Len(def)
            BY <3>3 DEF Undone
          <6> QED
            BY <2>1, <3>2, <6>1
        <5>3. steps[Len(order)] = "compensating"
          BY <3>1 DEF CompensateInv
        <5>4. \A i \in 1..Len(def) : i <= Len(order) - 1 => steps[i] = "completed"
          BY <3>3 DEF Undone
        <5> QED
          BY <5>1, <5>2, <5>3, <5>4
      <4> QED
        BY <3>2, <4>1
    <3> QED
      BY <2>1, <2>2, <3>2, <3>3, <3>4, Backwards DEF LastInFirstOut
  <2>6. CASE sagaPc = "done"
    <3>1. DoneInv(m)
      BY <1>1, <2>6 DEF SagaInv
    <3>2. CASE Undone(0, m, steps) /\ effect \subseteq 1..m
      BY <2>1, <2>2, <3>1, <3>2, Backwards DEF LastInFirstOut, DoneInv
    <3>3. CASE steps \in [1..m -> {"completed"}] /\ effect = 1..m
      BY <2>2, <3>3 DEF LastInFirstOut, Undoing
    <3> QED
      BY <3>1, <3>2, <3>3 DEF DoneInv
  <2> QED
    BY <1>1, <2>3, <2>4, <2>5, <2>6 DEF SagaInv
<1> QED
  BY <1>1, SagaInvariant, PTL

\* A saga that reports "compensated" has called every compensation there is, also
\* after one that threw; one that reports "completed" has executed every step.
\* SagaCoordinator.executeForward and compensate.
THEOREM EndsAreHonest == SagaSpec => []EndIsHonest
<1>1. ASSUME SagaInv
      PROVE  EndIsHonest
  <2>1. SUFFICES ASSUME sagaPc = "done"
                 PROVE  EndIsHonest
    BY DEF EndIsHonest
  <2>2. DoneInv(Len(stack)) /\ Len(stack) \in Nat /\ Len(def) \in Nat
    BY <1>1, <2>1 DEF SagaInv
  <2> QED
    BY <2>2 DEF DoneInv, Undone, Compensable, Undoable, EndIsHonest
<1> QED
  BY <1>1, SagaInvariant, PTL
=============================================================================
