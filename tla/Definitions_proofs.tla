-------------------------- MODULE Definitions_proofs --------------------------
(***************************************************************************)
(* Proofs about definitions: that a run, for every job, context and        *)
(* outcome of the handlers, provisions for no customer its KYC gate has    *)
(* refused; and that whatever is posted, built from a template or          *)
(* imported, the stored jobs can be run to their end.                      *)
(***************************************************************************)
EXTENDS Pipeline, Catalog, FiniteSetTheorems, NaturalsInduction, TLAPS

-----------------------------------------------------------------------------
(* Pipeline: the tasks before the present one have succeeded, and nothing  *)
(* else has an output.                                                     *)

TaskId(k) == job.tasks[k].id

\* What is stored for task k is a success its handler could return.
Succeeded(k) ==
    \E r \in Results(job.tasks[k].handler, input, << >>) : r.success /\ r.output = outputs[TaskId(k)]

PipelineInv ==
    /\ status \in {"none", "running", "done", "failed"} /\ input \in Inputs
    /\ status = "none" => job = NoJob /\ outputs = << >> /\ task = 1
    /\ status # "none" => job \in Jobs /\ task \in 1..(Len(job.tasks) + 1)
    /\ status = "running" => task <= Len(job.tasks)
    /\ DOMAIN outputs = {TaskId(k) : k \in 1..(task - 1)}
    /\ \A k \in 1..(task - 1) : Succeeded(k)

LEMMA JobFacts ==
    ASSUME NEW j \in Jobs
    PROVE  /\ Len(j.tasks) \in Nat \ {0}
           /\ \A k, n \in 1..Len(j.tasks) : j.tasks[k].id = j.tasks[n].id => k = n
BY PipelineAssumption

LEMMA SucceedsStep ==
    ASSUME PipelineInv, TaskSucceeds
    PROVE  PipelineInv'
<1>1. /\ job' = job /\ input' = input /\ job \in Jobs /\ task' = task + 1
      /\ Len(job.tasks) \in Nat /\ task \in 1..Len(job.tasks) /\ status = "running"
      /\ status' = IF task = Len(job.tasks) THEN "done" ELSE "running"
    BY JobFacts DEF PipelineInv, TaskSucceeds
<1>2. PICK r \in Results(job.tasks[task].handler, input, << >>) :
        /\ r.success
        /\ outputs' = [id \in DOMAIN outputs \cup {TaskId(task)} |->
                          IF id = TaskId(task) THEN r.output ELSE outputs[id]]
    BY DEF TaskSucceeds, Current, PriorOutputs, TaskId
<1>3. DOMAIN outputs' = {TaskId(k) : k \in 1..task}
    <2>1. DOMAIN outputs' = DOMAIN outputs \cup {TaskId(task)} BY <1>2
    <2>2. DOMAIN outputs = {TaskId(k) : k \in 1..(task - 1)} BY DEF PipelineInv
    <2> QED BY <1>1, <2>1, <2>2
<1>4. ASSUME NEW k \in 1..task PROVE Succeeded(k)'
    <2>1. CASE k = task
        <3>1. outputs'[TaskId(task)] = r.output BY <1>2
        <3> QED BY <1>1, <1>2, <2>1, <3>1 DEF Succeeded, TaskId
    <2>2. CASE k \in 1..(task - 1)
        <3>1. TaskId(k) # TaskId(task) /\ TaskId(k) \in DOMAIN outputs
            BY <1>1, <2>2, JobFacts DEF PipelineInv, TaskId
        <3>2. outputs'[TaskId(k)] = outputs[TaskId(k)] BY <1>2, <3>1
        <3>3. Succeeded(k) BY <2>2 DEF PipelineInv
        <3> QED BY <1>1, <3>2, <3>3 DEF Succeeded, TaskId
    <2> QED BY <1>1, <2>1, <2>2
<1>5. task' - 1 = task BY <1>1
<1>6. /\ DOMAIN outputs' = {TaskId(k)' : k \in 1..(task' - 1)}
      /\ \A k \in 1..(task' - 1) : Succeeded(k)'
    BY <1>1, <1>3, <1>4, <1>5 DEF TaskId
<1> QED BY <1>1, <1>6 DEF PipelineInv

LEMMA PipelineStep ==
    ASSUME PipelineInv, [PipelineNext]_pipelineVars
    PROVE  PipelineInv'
<1>1. ASSUME NEW j \in Jobs, NEW in \in Inputs, Start(j, in)
      PROVE  PipelineInv'
    <2>1. /\ status = "none" /\ task = 1 /\ outputs = << >> /\ job' = j /\ status' = "running"
          /\ task' = 1 /\ outputs' = << >> /\ input' = in
        BY <1>1 DEF Start, PipelineInv
    <2>2. Len(j.tasks) \in Nat \ {0} BY JobFacts
    <2> QED BY <2>1, <2>2 DEF PipelineInv
<1>2. CASE TaskSucceeds BY <1>2, SucceedsStep
<1>3. CASE TaskFails
    <2>1. /\ job' = job /\ input' = input /\ outputs' = outputs /\ task' = task
          /\ status = "running" /\ status' \in {"running", "failed"}
        BY <1>3 DEF TaskFails
    <2> QED BY <2>1 DEF PipelineInv, Succeeded, TaskId
<1>4. CASE Again
    BY <1>4 DEF Again, PipelineInv
<1>5. CASE UNCHANGED pipelineVars
    BY <1>5 DEF pipelineVars, PipelineInv, Succeeded, TaskId
<1> QED BY <1>1, <1>2, <1>3, <1>4, <1>5 DEF PipelineNext

\* What the gate and the provisioning handler answer when they succeed.
LEMMA GateLets ==
    ASSUME NEW in, NEW r \in Results("onboard.validate", in, << >>), r.success
    PROVE  in.customerId # 0 /\ ~ (RiskScore(in) > RiskThreshold)
<1>1. Results("onboard.validate", in, << >>) = OnboardValidate(in) BY DEF Results
<1> QED BY <1>1 DEF OnboardValidate, Failure

LEMMA ProvisionGives ==
    ASSUME NEW in, NEW r \in Results("onboard.provision", in, << >>)
    PROVE  r.output.provisioned = in.customerId
<1>1. Results("onboard.provision", in, << >>) = OnboardProvision(in, << >>) BY DEF Results
<1>2. \A id, field, x : Prior(<< >>, id, field, x) = x BY DEF Prior
<1> QED BY <1>1, <1>2 DEF OnboardProvision, Ok

\* Nobody is provisioned whom the KYC gate of the same run has refused: in every run of
\* every definition with distinct task ids, a finished onboard.provision served the
\* customer of the context, and each onboard.validate listed before it was finished and
\* had let that customer pass, whatever other handlers answer and however often a task
\* is tried.
THEOREM GateComesFirst == PipelineSpec => []ProvisionedAfterKyc
<1>1. PipelineInit => PipelineInv
    BY DEF PipelineInit, PipelineInv
<1>2. PipelineInv /\ [PipelineNext]_pipelineVars => PipelineInv'
    BY PipelineStep
<1>3. PipelineInv => ProvisionedAfterKyc
    <2> SUFFICES ASSUME PipelineInv, NEW k \in 1..Len(job.tasks), Done(k),
                        job.tasks[k].handler = "onboard.provision"
                 PROVE  /\ outputs[job.tasks[k].id].provisioned = input.customerId
                        /\ \A g \in 1..(k - 1) : job.tasks[g].handler = "onboard.validate" =>
                             Done(g) /\ input.customerId # 0 /\ RiskScore(input) <= RiskThreshold
        BY DEF ProvisionedAfterKyc
    <2>1. status # "none"
        <3>1. TaskId(k) \in DOMAIN outputs BY DEF Done, TaskId
        <3> QED BY <3>1 DEF PipelineInv
    <2>2. job \in Jobs /\ task \in 1..(Len(job.tasks) + 1) BY <2>1 DEF PipelineInv
    <2>3. Len(job.tasks) \in Nat BY <2>2, JobFacts
    <2>4. k \in 1..(task - 1)
        <3>1. PICK n \in 1..(task - 1) : TaskId(n) = TaskId(k)
            BY DEF Done, PipelineInv, TaskId
        <3>2. n \in 1..Len(job.tasks) BY <2>2, <2>3
        <3>3. n = k BY <2>2, <3>1, <3>2, JobFacts DEF TaskId
        <3> QED BY <3>3
    <2>5. outputs[job.tasks[k].id].provisioned = input.customerId
        <3>1. PICK r \in Results("onboard.provision", input, << >>) : r.output = outputs[TaskId(k)]
            BY <2>4 DEF PipelineInv, Succeeded
        <3> QED BY <3>1, ProvisionGives DEF TaskId
    <2>6. ASSUME NEW g \in 1..(k - 1), job.tasks[g].handler = "onboard.validate"
          PROVE  Done(g) /\ input.customerId # 0 /\ RiskScore(input) <= RiskThreshold
        <3>1. g \in 1..(task - 1) /\ g \in 1..Len(job.tasks) BY <2>2, <2>3, <2>4
        <3>2. TaskId(g) \in DOMAIN outputs BY <3>1 DEF PipelineInv
        <3>3. PICK r \in Results("onboard.validate", input, << >>) : r.success
            BY <2>6, <3>1 DEF PipelineInv, Succeeded
        <3>4. input.customerId # 0 /\ ~ (RiskScore(input) > RiskThreshold)
            BY <3>3, GateLets
        <3>5. RiskScore(input) \in Int
            <4>1. input.customerId \in Nat BY PipelineAssumption DEF PipelineInv
            <4> QED BY <4>1 DEF RiskScore
        <3> QED BY <3>1, <3>2, <3>4, <3>5 DEF Done, TaskId, RiskThreshold
    <2> QED BY <2>5, <2>6
<1> QED BY <1>1, <1>2, <1>3, PTL DEF PipelineSpec

-----------------------------------------------------------------------------
(* Catalog: what the validator accepts can be put in order.                *)

Less == {ij \in Nat \X Nat : ij[1] < ij[2]}

LEMMA LeastExists ==
    ASSUME NEW S \in SUBSET Nat, S # {}
    PROVE  \E x \in S : \A y \in S : x <= y
<1>1. IsWellFoundedOn(Less, Nat)
    BY NatLessThanWellFounded DEF OpToRel, Less
<1>2. PICK x \in S : \A y \in S : ~ (<<y, x>> \in Less)
    BY <1>1, WFMin
<1>3. ASSUME NEW y \in S PROVE x <= y
    <2>1. y < x => <<y, x>> \in Less BY DEF Less
    <2> QED BY <1>2, <2>1
<1> QED BY <1>3

\* The first m tasks of an order of j.
Begun(j, m) == \E order \in [1..m -> 1..Len(j.tasks)] : RunsInOrder(j, order)

IdsOf(j) == {j.tasks[k].id : k \in 1..Len(j.tasks)}

\* What acceptance says of the definition itself.
LEMMA Accepted ==
    ASSUME NEW j \in JobDefinition, Acceptable(j)
    PROVE  /\ Len(j.tasks) \in Nat \ {0} /\ HandlersKnown(j)
           /\ \A k, n \in 1..Len(j.tasks) : j.tasks[k].id = j.tasks[n].id => k = n
           /\ \A k \in 1..Len(j.tasks) : j.tasks[k].dependsOn \subseteq IdsOf(j)
           /\ \A R \in SUBSET (1..Len(j.tasks)) : R # {} =>
                \E p \in R : \A q \in R : j.tasks[q].id \notin j.tasks[p].dependsOn
<1> DEFINE d == AsDefinition(j)
           n == Len(j.tasks)
<1>1. HandlersKnown(j) /\ Validator!ValidDefinition(d) BY DEF Acceptable
<1>2. n \in Nat /\ \A k \in 1..n : j.tasks[k].id \in TaskIds
    <2>1. j.tasks \in Seq(TaskDefinition) BY DEF JobDefinition
    <2>2. n \in Nat /\ \A k \in 1..n : j.tasks[k] \in TaskDefinition BY <2>1
    <2> QED BY <2>2 DEF TaskDefinition
<1>3. d.tasks = [k \in 1..n |-> j.tasks[k].id] BY DEF AsDefinition
<1>4. Len(d.tasks) = n /\ \A k \in 1..n : d.tasks[k] = j.tasks[k].id
    BY <1>2, <1>3
<1>5. n # 0
    <2>1. d.tasks # << >> BY <1>1 DEF Validator!ValidDefinition
    <2> QED BY <1>3, <2>1
<1>6. ASSUME NEW k \in 1..n, NEW m \in 1..n, j.tasks[k].id = j.tasks[m].id PROVE k = m
    BY <1>1, <1>4, <1>6 DEF Validator!ValidDefinition
<1>7. ASSUME NEW k \in 1..n PROVE d.dependsOn[j.tasks[k].id] = j.tasks[k].dependsOn
    <2>1. {m \in 1..n : j.tasks[m].id = j.tasks[k].id} = {k} BY <1>6
    <2>2. d.dependsOn[j.tasks[k].id] =
            UNION {j.tasks[i].dependsOn : i \in {m \in 1..n : j.tasks[m].id = j.tasks[k].id}}
        BY <1>2 DEF AsDefinition
    <2> QED BY <2>1, <2>2
<1>8. Validator!TasksOf(d) = IdsOf(j) BY <1>4 DEF Validator!TasksOf, IdsOf
<1>9. ASSUME NEW k \in 1..n PROVE j.tasks[k].dependsOn \subseteq IdsOf(j)
    <2>1. j.tasks[k].id \in IdsOf(j) BY DEF IdsOf
    <2> QED BY <1>1, <1>7, <1>8, <2>1 DEF Validator!ValidDefinition
<1>10. ASSUME NEW R \in SUBSET (1..n), R # {}
       PROVE  \E p \in R : \A q \in R : j.tasks[q].id \notin j.tasks[p].dependsOn
    <2> DEFINE S == {j.tasks[k].id : k \in R}
    <2>1. S \in SUBSET IdsOf(j) /\ S # {} BY <1>10 DEF IdsOf
    <2> HIDE DEF d
    <2>2. PICK t \in S : d.dependsOn[t] \cap S = {}
        BY <1>1, <1>8, <2>1 DEF Validator!ValidDefinition, Validator!Acyclic
    <2>3. PICK p \in R : t = j.tasks[p].id OBVIOUS
    <2>4. d.dependsOn[t] = j.tasks[p].dependsOn BY <1>7, <2>3
    <2>5. ASSUME NEW q \in R PROVE j.tasks[q].id \notin j.tasks[p].dependsOn
        <3>1. j.tasks[q].id \in S OBVIOUS
        <3> HIDE DEF S
        <3> QED BY <3>1, <2>2, <2>4
    <2> QED BY <2>5
<1> QED BY <1>1, <1>2, <1>5, <1>6, <1>9, <1>10

\* A beginning that is not all of it has a next task: of those left, one that waits for
\* none of them.
LEMMA OneMore ==
    ASSUME NEW j \in JobDefinition, Acceptable(j), NEW m \in Nat, m < Len(j.tasks), Begun(j, m)
    PROVE  Begun(j, m + 1)
<1> DEFINE n == Len(j.tasks)
<1>1. n \in Nat BY Accepted
<1>2. PICK order \in [1..m -> 1..n] : RunsInOrder(j, order) BY DEF Begun
<1> DEFINE R == (1..n) \ {order[i] : i \in 1..m}
<1>3. R # {}
    <2> SUFFICES ASSUME R = {} PROVE FALSE OBVIOUS
    <2>1. order \in Surjection(1..m, 1..n) BY <1>2 DEF Surjection
    <2>2. /\ IsFiniteSet(1..m) /\ Cardinality(1..m) = m
          /\ IsFiniteSet(1..n) /\ Cardinality(1..n) = n
        <3>1. ASSUME NEW x \in Nat PROVE IsFiniteSet(1..x) /\ Cardinality(1..x) = x
            <4>1. Cardinality(1..x) = IF 1 > x THEN 0 ELSE x - 1 + 1 BY FS_Interval
            <4>2. IsFiniteSet(1..x) BY FS_Interval
            <4> QED BY <4>1, <4>2
        <3> QED BY <1>1, <3>1
    <2>3. Cardinality(1..n) <= Cardinality(1..m) BY <2>1, <2>2, FS_Surjection
    <2> QED BY <1>1, <2>2, <2>3
<1>4. PICK p \in R : \A q \in R : j.tasks[q].id \notin j.tasks[p].dependsOn
    <2>1. R \in SUBSET (1..n) OBVIOUS
    <2> HIDE DEF R
    <2> QED BY <1>3, <2>1, Accepted
<1>5. j.tasks[p].dependsOn \subseteq {j.tasks[order[i]].id : i \in 1..m}
    <2> SUFFICES ASSUME NEW x \in j.tasks[p].dependsOn
                 PROVE  x \in {j.tasks[order[i]].id : i \in 1..m}
        OBVIOUS
    <2>1. x \in IdsOf(j) BY Accepted
    <2>2. PICK q \in 1..n : x = j.tasks[q].id BY <2>1 DEF IdsOf
    <2>3. q \notin R BY <1>4, <2>2
    <2>4. PICK i \in 1..m : q = order[i] BY <2>3
    <2> QED BY <2>2, <2>4
<1> DEFINE longer == [i \in 1..(m + 1) |-> IF i <= m THEN order[i] ELSE p]
<1>6. longer \in [1..(m + 1) -> 1..n] BY <1>2
<1>7. (\A i \in 1..m : longer[i] = order[i]) /\ longer[m + 1] = p OBVIOUS
<1>8. RunsInOrder(j, longer)
    <2> SUFFICES ASSUME NEW k \in 1..(m + 1)
                 PROVE  /\ \A i \in 1..(k - 1) : longer[i] # longer[k]
                        /\ j.tasks[longer[k]].dependsOn \subseteq
                             {j.tasks[longer[i]].id : i \in 1..(k - 1)}
        BY <1>6 DEF RunsInOrder
    <2> HIDE DEF longer
    <2>1. CASE k <= m
        <3>1. k \in DOMAIN order /\ k \in 1..m BY <1>2, <2>1
        <3>2. \A i \in 1..(k - 1) : i \in 1..m BY <2>1
        <3>3. \A i \in 1..(k - 1) : longer[i] = order[i] BY <3>2, <1>7
        <3>4. /\ \A i \in 1..(k - 1) : order[i] # order[k]
              /\ j.tasks[order[k]].dependsOn \subseteq {j.tasks[order[i]].id : i \in 1..(k - 1)}
            BY <1>2, <3>1 DEF RunsInOrder
        <3>5. longer[k] = order[k] BY <1>7, <3>1
        <3>6. {j.tasks[longer[i]].id : i \in 1..(k - 1)} = {j.tasks[order[i]].id : i \in 1..(k - 1)}
            BY <3>3
        <3> QED BY <3>3, <3>4, <3>5, <3>6
    <2>2. CASE k = m + 1
        <3>1. k - 1 = m BY <2>2
        <3> QED BY <1>4, <1>5, <1>7, <2>2, <3>1
    <2> QED BY <2>1, <2>2
<1> QED BY <1>6, <1>8 DEF Begun

\* What register accepts can be executed to its end.
LEMMA AcceptedRuns ==
    ASSUME NEW j \in JobDefinition, Acceptable(j)
    PROVE  Runnable(j)
<1> DEFINE n == Len(j.tasks)
           Missing == {m \in Nat : m <= n /\ ~ Begun(j, m)}
<1>1. n \in Nat \ {0} BY Accepted
<1>2. Begun(j, 0)
    <2> DEFINE none == [i \in 1..0 |-> 1]
    <2>1. none \in [1..0 -> 1..n] /\ DOMAIN none = {} OBVIOUS
    <2>2. RunsInOrder(j, none) BY <2>1 DEF RunsInOrder
    <2> QED BY <2>1, <2>2 DEF Begun
<1>3. Missing = {}
    <2> SUFFICES ASSUME Missing # {} PROVE FALSE OBVIOUS
    <2>1. PICK x \in Missing : \A y \in Missing : x <= y BY LeastExists
    <2>2. x # 0 BY <1>2
    <2>3. x - 1 \in Nat /\ x - 1 < n /\ x - 1 \notin Missing /\ (x - 1) + 1 = x BY <1>1, <2>1, <2>2
    <2>4. Begun(j, x - 1) BY <1>1, <2>3
    <2>5. Begun(j, (x - 1) + 1) BY <2>3, <2>4, OneMore
    <2> QED BY <2>3, <2>5
<1>4. Begun(j, n)
    <2>1. n \in Nat /\ n <= n BY <1>1
    <2> HIDE DEF n
    <2> QED BY <1>3, <2>1
<1>5. 1..n # {}
    <2>1. 1 \in 1..n BY <1>1
    <2> QED BY <2>1
<1> QED BY <1>4, <1>5, Accepted DEF Begun, Runnable

\* The cap on the timeouts changes nothing of it.
LEMMA ResolvedKeeps ==
    ASSUME NEW j \in JobDefinition
    PROVE  /\ Resolved(j).id = j.id /\ Len(Resolved(j).tasks) = Len(j.tasks)
           /\ \A k \in 1..Len(j.tasks) :
                /\ Resolved(j).tasks[k].id = j.tasks[k].id
                /\ Resolved(j).tasks[k].handler = j.tasks[k].handler
                /\ Resolved(j).tasks[k].dependsOn = j.tasks[k].dependsOn
<1> DEFINE n == Len(j.tasks)
           R == Resolved(j)
<1>1. j.tasks \in Seq(TaskDefinition) BY DEF JobDefinition
<1>2. n \in Nat /\ \A k \in 1..n : j.tasks[k] \in TaskDefinition BY <1>1
<1>3. R.id = j.id /\ R.tasks = [k \in 1..n |-> Capped(j.tasks[k])]
    BY DEF Resolved, JobDefinition
<1> HIDE DEF R
<1>4. Len(R.tasks) = n BY <1>2, <1>3
<1>5. ASSUME NEW k \in 1..n
      PROVE  /\ R.tasks[k].id = j.tasks[k].id
             /\ R.tasks[k].handler = j.tasks[k].handler
             /\ R.tasks[k].dependsOn = j.tasks[k].dependsOn
    <2>1. j.tasks[k] \in TaskDefinition BY <1>2
    <2>2. R.tasks[k] = Capped(j.tasks[k]) BY <1>3
    <2> QED BY <2>1, <2>2 DEF TaskDefinition, Capped
<1> QED BY <1>3, <1>4, <1>5 DEF R

LEMMA ResolvedRuns ==
    ASSUME NEW j \in JobDefinition, Acceptable(j)
    PROVE  Runnable(Resolved(j))
<1> DEFINE n == Len(j.tasks)
           R == Resolved(j)
<1>1. Runnable(j) /\ n \in Nat BY AcceptedRuns, Accepted
<1>2. /\ Len(R.tasks) = n
      /\ \A k \in 1..n : /\ R.tasks[k].id = j.tasks[k].id
                         /\ R.tasks[k].handler = j.tasks[k].handler
                         /\ R.tasks[k].dependsOn = j.tasks[k].dependsOn
    BY ResolvedKeeps
<1> HIDE DEF R
<1>3. PICK order \in [1..n -> 1..n] : RunsInOrder(j, order) BY <1>1 DEF Runnable
<1>4. RunsInOrder(R, order)
    <2> SUFFICES ASSUME NEW k \in 1..n
                 PROVE  /\ \A i \in 1..(k - 1) : order[i] # order[k]
                        /\ R.tasks[order[k]].dependsOn \subseteq {R.tasks[order[i]].id : i \in 1..(k - 1)}
        BY <1>3 DEF RunsInOrder
    <2>1. /\ \A i \in 1..(k - 1) : order[i] # order[k]
          /\ j.tasks[order[k]].dependsOn \subseteq {j.tasks[order[i]].id : i \in 1..(k - 1)}
        BY <1>3 DEF RunsInOrder
    <2>2. \A i \in 1..(k - 1) : R.tasks[order[i]].id = j.tasks[order[i]].id
        BY <1>1, <1>2, <1>3
    <2>3. R.tasks[order[k]].dependsOn = j.tasks[order[k]].dependsOn BY <1>2, <1>3
    <2>4. {R.tasks[order[i]].id : i \in 1..(k - 1)} = {j.tasks[order[i]].id : i \in 1..(k - 1)}
        BY <2>2
    <2> QED BY <2>1, <2>3, <2>4
<1>5. 1..n # {} /\ HandlersKnown(R) BY <1>1, <1>2 DEF Runnable, HandlersKnown
<1>6. \A k, i \in 1..n : R.tasks[k].id = R.tasks[i].id => k = i BY <1>1, <1>2 DEF Runnable
<1>7. Runnable(R) BY <1>2, <1>3, <1>4, <1>5, <1>6 DEF Runnable
<1> QED BY <1>7 DEF R

-----------------------------------------------------------------------------
(* The store.                                                              *)

StoredWell(store) ==
    \A id \in DOMAIN store :
        store[id].id = id /\ (store[id] \in Range(Builtin) \/ Runnable(store[id]))

CatalogInv ==
    /\ phase \in {"migrating", "seeding", "serving"} /\ files \in Seq(File)
    /\ phase # "serving" => files = << >>
    /\ phase = "migrating" => DOMAIN jobStore = {} /\ seeded = 0
    /\ phase = "seeding" => seeded \in 0..(Len(Builtin) - 1)
    /\ phase = "serving" => seeded = Len(Builtin)
    /\ \A k \in 1..seeded : Builtin[k].id \in DOMAIN jobStore
    /\ StoredWell(jobStore)

LEMMA BuiltinLength == Len(Builtin) \in Nat \ {0} /\ DOMAIN Builtin = 1..Len(Builtin)
BY DEF Builtin, FullCatalog, StandardCatalog, ExtendedCatalog, EnterpriseJobPack

LEMMA SavedWell ==
    ASSUME NEW store, StoredWell(store), NEW j, j \in Range(Builtin) \/ Runnable(j)
    PROVE  /\ DOMAIN Saved(store, j) = DOMAIN store \cup {j.id}
           /\ StoredWell(Saved(store, j))
BY DEF Saved, StoredWell

LEMMA RegisteredWell ==
    ASSUME NEW j \in JobDefinition, StoredWell(jobStore)
    PROVE  /\ DOMAIN jobStore \subseteq DOMAIN Registered(j)
           /\ StoredWell(Registered(j))
BY SavedWell, ResolvedRuns DEF Registered

\* While the server listens, the store grows by what is registered.
LEMMA ServingStep ==
    ASSUME CatalogInv, phase = "serving", UNCHANGED <<phase, seeded>>, files' \in Seq(File),
           DOMAIN jobStore \subseteq DOMAIN jobStore', StoredWell(jobStore')
    PROVE  CatalogInv'
BY DEF CatalogInv

LEMMA CatalogStep ==
    ASSUME CatalogInv, [Next]_vars
    PROVE  CatalogInv'
<1>0. /\ files \in Seq(File)
      /\ Len(Builtin) \in Nat /\ Len(Builtin) # 0 /\ DOMAIN Builtin = 1..Len(Builtin)
    BY BuiltinLength DEF CatalogInv
<1>1. CASE Migrate BY <1>1 DEF Migrate, CatalogInv
<1>2. CASE BeginSeed
    <2>1. phase' = "seeding" /\ UNCHANGED <<seeded, jobStore, files>> /\ seeded = 0 /\ files = << >>
        BY <1>2 DEF BeginSeed, CatalogInv
    <2> QED BY <1>0, <2>1 DEF CatalogInv
<1>3. CASE SeedNext
    <2>1. /\ phase = "seeding" /\ seeded \in 0..(Len(Builtin) - 1) /\ seeded' = seeded + 1
          /\ files' = files /\ files = << >>
          /\ phase' = IF seeded' = Len(Builtin) THEN "serving" ELSE "seeding"
          /\ jobStore' = Saved(jobStore, Builtin[seeded + 1])
        BY <1>3 DEF SeedNext, CatalogInv
    <2>2. Builtin[seeded + 1] \in Range(Builtin)
        <3>1. seeded \in 0..(Len(Builtin) - 1) BY <2>1
        <3>2. seeded + 1 \in 1..Len(Builtin) BY <1>0, <3>1
        <3> QED BY <1>0, <3>2 DEF Range
    <2>3. /\ DOMAIN jobStore' = DOMAIN jobStore \cup {Builtin[seeded + 1].id}
          /\ StoredWell(jobStore')
        BY <2>1, <2>2, SavedWell DEF CatalogInv
    <2>4. \A k \in 1..seeded' : Builtin[k].id \in DOMAIN jobStore'
        BY <2>1, <2>3 DEF CatalogInv
    <2>5. files' = << >> /\ files' \in Seq(File) BY <1>0, <2>1
    <2>6. CASE seeded' = Len(Builtin)
        BY <2>1, <2>3, <2>4, <2>5, <2>6 DEF CatalogInv
    <2>7. CASE seeded' # Len(Builtin)
        <3>1. seeded \in 0..(Len(Builtin) - 1) /\ seeded' = seeded + 1 BY <2>1
        <3>2. seeded' \in 0..(Len(Builtin) - 1)
            <4>1. \A n \in Nat : \A x \in 0..(n - 1) : x + 1 # n => x + 1 \in 0..(n - 1) OBVIOUS
            <4> QED BY <1>0, <2>7, <3>1, <4>1
        <3>3. phase' = "seeding" BY <2>1, <2>7
        <3> QED BY <2>3, <2>4, <2>5, <3>2, <3>3 DEF CatalogInv
    <2> QED BY <2>6, <2>7
<1>4. CASE Restart
    BY <1>4 DEF Restart, NoFiles, CatalogInv, StoredWell
<1>5. ASSUME NEW j \in JobDefinition, phase = "serving", UNCHANGED <<phase, seeded, files>>,
             jobStore' = Registered(j)
      PROVE  CatalogInv'
    <2>1. DOMAIN jobStore \subseteq DOMAIN jobStore' /\ StoredWell(jobStore')
        BY <1>5, RegisteredWell DEF CatalogInv
    <2> QED BY <1>0, <1>5, <2>1, ServingStep
<1>6. ASSUME NEW j \in Requests, RegisterJob(j) PROVE CatalogInv'
    <2>1. j \in JobDefinition BY CatalogAssumption
    <2> QED BY <1>5, <1>6, <2>1 DEF RegisterJob
<1>7. ASSUME NEW template \in WorkflowTemplates, NEW p \in Params, Instantiate(template, p)
      PROVE  CatalogInv'
    <2>1. Build(template, p) \in JobDefinition BY CatalogAssumption
    <2> QED BY <1>5, <1>7, <2>1 DEF Instantiate
<1>8. ASSUME NEW dir \in Bundles, BeginImport(dir) PROVE CatalogInv'
    <2>1. dir \in Seq(File) BY CatalogAssumption
    <2> QED BY <1>8, <2>1, ServingStep DEF BeginImport, CatalogInv
<1>9. ASSUME NEW readable \in BOOLEAN, ImportFile(readable) PROVE CatalogInv'
    <2>1. phase = "serving" /\ files # << >> BY <1>9 DEF ImportFile, NoFiles, CatalogInv
    <2>2. files' \in Seq(File) /\ Head(files) \in File
        BY <1>0, <1>9, <2>1 DEF ImportFile
    <2>3. UNCHANGED <<phase, seeded>> BY <1>9 DEF ImportFile
    <2>4. PICK j : j = Head(files).job OBVIOUS
    <2>5. j \in JobDefinition BY <2>2, <2>4 DEF File
    <2>6. jobStore' = jobStore \/ jobStore' = Registered(j)
        BY <1>9, <2>4 DEF ImportFile
    <2>7. DOMAIN jobStore \subseteq DOMAIN jobStore' /\ StoredWell(jobStore')
        BY <2>5, <2>6, RegisteredWell DEF CatalogInv
    <2> QED BY <2>1, <2>2, <2>3, <2>7, ServingStep
<1>10. CASE UNCHANGED vars BY <1>10 DEF vars, CatalogInv
<1> QED BY <1>1, <1>2, <1>3, <1>4, <1>6, <1>7, <1>8, <1>9, <1>10 DEF Next

\* What is served is not stuck by its own graph: while the server answers, every
\* built-in id has a definition, and the tasks of every stored definition can be put in
\* an order in which each comes once and after all it depends on; for all requests,
\* template parameters and bundles that have the form of definitions.
\* JobService.register accepts only definitions with such an order because their graphs
\* have no cycle.  Of the seed, which register never sees, it is computed
\* (SeedAssumption).
THEOREM StoredJobsRun == Spec => []ServesRunnableJobs
<1>1. Init => CatalogInv
    <2> SUFFICES ASSUME Init PROVE CatalogInv OBVIOUS
    <2>1. /\ phase = "migrating" /\ seeded = 0 /\ jobStore = << >> /\ files = << >>
        BY DEF Init, NoFiles
    <2>2. StoredWell(jobStore) BY <2>1 DEF StoredWell
    <2> QED BY <2>1, <2>2 DEF CatalogInv
<1>2. CatalogInv /\ [Next]_vars => CatalogInv' BY CatalogStep
<1>3. CatalogInv => ServesRunnableJobs
    BY SeedAssumption DEF CatalogInv, StoredWell, ServesRunnableJobs
<1> QED BY <1>1, <1>2, <1>3, PTL DEF Spec
===============================================================================
