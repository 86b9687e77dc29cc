----------------------- MODULE ParallelExecutor_proofs ----------------------
(***************************************************************************)
(* Proofs about ParallelExecutor for every finite list of tasks, every     *)
(* graph of dependencies and every number of workers.                      *)
(***************************************************************************)
EXTENDS ParallelExecutor, SequenceTheorems, FiniteSetTheorems, WellFoundedInduction, TLAPS

Status == {"none", "succeeded", "failed", "retrying"}

DagTypes ==
    /\ dependsOn \in [Tasks -> Seq(STRING)]
    /\ runs \in SUBSET Tasks
    /\ dagPc \in {"plan", "run", "done", "rejected"}
    /\ levels \in Seq(SUBSET Tasks)
    /\ level \in Nat
    /\ batch \in SUBSET Tasks /\ executing \in SUBSET Tasks
    /\ result \in [Tasks -> Status]

\* A task is in one level.  All it waits for is in earlier ones, and one of them in
\* the level just before.  A task with a sound list that is in no level waits for
\* one that is not in a level before the last: the loop leaves no ready task behind.
LevelsInv ==
    /\ \A m, n \in 1..Len(levels) : levels[m] \cap levels[n] # {} => m = n
    /\ \A n \in 1..Len(levels) : \A t \in levels[n] :
         /\ Len(dependsOn[t]) = Cardinality(Needs(t))
         /\ \A u \in Needs(t) : \E m \in 1..Len(levels) : m < n /\ u \in levels[m]
         /\ n > 1 => \E u \in Needs(t) : u \in levels[n - 1]
    /\ \A t \in Tasks \ Placed :
         Len(levels) > 0 /\ Len(dependsOn[t]) = Cardinality(Needs(t)) =>
            \E u \in Needs(t) : \A m \in 1..(Len(levels) - 1) : u \notin levels[m]

\* The planner goes on until no task is ready.
PlanInv ==
    /\ LevelsInv
    /\ dagPc \in {"run", "done"} => Acyclic /\ NextLevel = {}

\* Levels before the one under way have been executed, those after it have not;
\* of this one what was executed is what no worker has or will take.
RunInv ==
    /\ Cardinality(executing) <= MaxConcurrency
    /\ \A t \in Tasks : result[t] # "none" => t \in runs /\ t \in Placed
    /\ dagPc # "run" => executing = {} /\ batch = {}
    /\ dagPc \in {"plan", "rejected"} => \A t \in Tasks : result[t] = "none"
    /\ dagPc = "done" => \A t \in Placed \cap runs : result[t] # "none"
    /\ dagPc = "run" =>
         /\ level \in 1..Len(levels)
         /\ executing \cup batch \subseteq levels[level] \cap runs
         /\ executing \cap batch = {}
         /\ executing = {} => batch = {}
         /\ \A n \in 1..Len(levels) : \A t \in levels[n] \cap runs :
               result[t] = "none" <=> n > level \/ t \in executing \cup batch

DagInv == DagTypes /\ PlanInv /\ RunInv

-----------------------------------------------------------------------------
(* Lists of dependencies and levels.                                       *)

LEMMA RangeBound ==
    ASSUME NEW s \in Seq(STRING)
    PROVE  IsFiniteSet(Range(s)) /\ Cardinality(Range(s)) \in Nat /\ Cardinality(Range(s)) <= Len(s)
<1>1. PICK n \in Nat : n = Len(s)
  BY LenProperties
<1>2. IsFiniteSet(1..n) /\ Cardinality(1..n) = n
  <2>1. 1 \in Int /\ n \in Int
    OBVIOUS
  <2>2. IsFiniteSet(1..n) /\ Cardinality(1..n) = IF 1 > n THEN 0 ELSE n - 1 + 1
    BY <2>1, FS_Interval
  <2> QED
    BY <2>2
<1>3. s \in Surjection(1..n, Range(s))
  BY <1>1, LenProperties DEF Surjection, Range
<1>4. IsFiniteSet(Range(s)) /\ Cardinality(Range(s)) <= Cardinality(1..n)
  BY <1>2, <1>3, FS_Surjection
<1> QED
  BY <1>1, <1>2, <1>4, FS_CardinalityType

\* The in-degree of a task is down to zero exactly when its list names every one of
\* its dependencies once and all of them are planned.
LEMMA ReadyMeans ==
    ASSUME NEW t \in Tasks, dependsOn[t] \in Seq(STRING), NEW P
    PROVE  t \in Ready(P) <=> Needs(t) \subseteq P /\ Len(dependsOn[t]) = Cardinality(Needs(t))
<1>1. PICK S : S = Needs(t)
  OBVIOUS
<1>2. IsFiniteSet(S) /\ Cardinality(S) \in Nat /\ Cardinality(S) <= Len(dependsOn[t])
  BY <1>1, RangeBound DEF Needs
<1>3. /\ Cardinality(S \cap P) \in Nat /\ Cardinality(S \cap P) <= Cardinality(S)
      /\ Cardinality(S) = Cardinality(S \cap P) => S = S \cap P
  <2>1. S \cap P \in SUBSET S
    OBVIOUS
  <2> QED
    BY <1>2, <2>1, FS_Subset, FS_CardinalityType
<1>4. Len(dependsOn[t]) \in Nat
  BY LenProperties
<1>5. t \in Ready(P) <=> Len(dependsOn[t]) = Cardinality(S \cap P)
  BY <1>1 DEF Ready
<1>6. ASSUME Len(dependsOn[t]) = Cardinality(S \cap P)
      PROVE  S \subseteq P /\ Len(dependsOn[t]) = Cardinality(S)
  <2>1. Cardinality(S) = Cardinality(S \cap P)
    BY <1>2, <1>3, <1>4, <1>6
  <2> QED
    BY <1>3, <1>6, <2>1
<1>7. S \subseteq P => S \cap P = S
  OBVIOUS
<1> QED
  BY <1>1, <1>5, <1>6, <1>7

LEMMA PlacedIs ==
    ASSUME DagTypes
    PROVE  /\ Len(levels) \in Nat
           /\ \A n \in 1..Len(levels) : levels[n] \subseteq Tasks
           /\ \A t : t \in Placed <=> \E n \in 1..Len(levels) : t \in levels[n]
<1>1. levels \in Seq(SUBSET Tasks)
  BY DEF DagTypes
<1>2. Len(levels) \in Nat /\ DOMAIN levels = 1..Len(levels)
  BY <1>1, LenProperties
<1>3. \A n \in 1..Len(levels) : levels[n] \subseteq Tasks
  BY <1>1, ElementOfSeq
<1> QED
  BY <1>2, <1>3 DEF Placed, Range

-----------------------------------------------------------------------------
(* The plan.                                                               *)

\* While the list of tasks stays the same so does what is read off it.
LEMMA PlanStays ==
    ASSUME dependsOn' = dependsOn, levels' = levels, PlanInv,
           dagPc' \in {"run", "done"} => Acyclic /\ NextLevel = {}
    PROVE  PlanInv' /\ Placed' = Placed
<1>1. (Acyclic <=> Acyclic') /\ Placed' = Placed
  BY DEF Acyclic, Needs, Placed
<1>2. NextLevel' = NextLevel
  BY DEF NextLevel, Ready, Needs, Placed
<1>3. LevelsInv'
  BY DEF PlanInv, LevelsInv, Needs, Placed
<1> QED
  BY <1>1, <1>2, <1>3 DEF PlanInv

\* The next level keeps the levels apart and in the order of the dependencies.
LEMMA LevelAdded ==
    ASSUME DagTypes, LevelsInv, dependsOn' = dependsOn, levels' = Append(levels, NextLevel)
    PROVE  LevelsInv' /\ levels' \in Seq(SUBSET Tasks) /\ Placed \subseteq Placed'
<1>1. PICK l \in Nat : l = Len(levels)
  BY PlacedIs
<1>2. NextLevel \in SUBSET Tasks /\ levels \in Seq(SUBSET Tasks)
  BY DEF NextLevel, Ready, DagTypes
<1>3. /\ levels' \in Seq(SUBSET Tasks) /\ Len(levels') = l + 1
      /\ \A n \in 1..l : levels'[n] = levels[n]
      /\ levels'[l + 1] = NextLevel
  BY <1>1, <1>2, AppendProperties
<1>4. DOMAIN levels' = 1..(l + 1) /\ \A n \in 1..l : n \in 1..(l + 1) /\ n # l + 1
  BY <1>3, LenProperties
<1>5. \A t : t \in Placed <=> \E n \in 1..l : t \in levels[n]
  BY <1>1, PlacedIs
<1>6. \A t : t \in Placed' <=> t \in Placed \/ t \in NextLevel
  <2>1. \A t : t \in Placed' <=> \E n \in 1..(l + 1) : t \in levels'[n]
    BY <1>4 DEF Placed, Range
  <2>2. \A n \in 1..(l + 1) : n \in 1..l \/ n = l + 1
    OBVIOUS
  <2>3. l + 1 \in 1..(l + 1)
    OBVIOUS
  <2> QED
    BY <1>3, <1>4, <1>5, <2>1, <2>2, <2>3
<1>7. \A t : Needs(t)' = Needs(t)
  BY DEF Needs
<1>8. \A t \in Tasks : dependsOn[t] \in Seq(STRING)
  BY DEF DagTypes
<1>9. \A t \in NextLevel : /\ t \in Tasks \ Placed
                           /\ Needs(t) \subseteq Placed
                           /\ Len(dependsOn[t]) = Cardinality(Needs(t))
  <2>1. \A t \in NextLevel : t \in Tasks \ Placed /\ t \in Ready(Placed)
    BY DEF NextLevel, Ready
  <2> QED
    BY <1>8, <2>1, ReadyMeans
<1>10. \A n \in 1..(l + 1) : n \in 1..l \/ n = l + 1
  OBVIOUS
<1>11. ASSUME NEW m \in 1..(l + 1), NEW n \in 1..(l + 1), levels'[m] \cap levels'[n] # {}
       PROVE  m = n
  <2>1. \A k \in 1..l : levels[k] \cap NextLevel = {}
    BY <1>5, <1>9
  <2> QED
    BY <1>1, <1>3, <1>10, <1>11, <2>1 DEF LevelsInv
<1>12. ASSUME NEW n \in 1..(l + 1), NEW t \in levels'[n]
       PROVE  /\ Len(dependsOn[t]) = Cardinality(Needs(t))
              /\ \A u \in Needs(t) : \E m \in 1..(l + 1) : m < n /\ u \in levels'[m]
              /\ n > 1 => \E u \in Needs(t) : u \in levels'[n - 1]
  <2>1. CASE n \in 1..l
    <3>1. /\ Len(dependsOn[t]) = Cardinality(Needs(t))
          /\ \A u \in Needs(t) : \E m \in 1..l : m < n /\ u \in levels[m]
          /\ n > 1 => \E u \in Needs(t) : u \in levels[n - 1]
      BY <1>1, <1>3, <1>12, <2>1 DEF LevelsInv
    <3>2. n > 1 => n - 1 \in 1..l
      BY <2>1
    <3> QED
      BY <1>3, <1>4, <3>1, <3>2
  <2>2. CASE n = l + 1
    <3>1. t \in NextLevel
      BY <1>3, <1>12, <2>2
    <3>2. \A u \in Needs(t) : \E m \in 1..l : u \in levels[m]
      BY <1>5, <1>9, <3>1
    <3>3. \A m \in 1..l : m \in 1..(l + 1) /\ m < n
      BY <2>2
    <3>4. ASSUME n > 1
          PROVE  \E u \in Needs(t) : u \in levels'[n - 1]
      <4>1. l > 0 /\ n - 1 = l /\ l \in 1..l
        BY <2>2, <3>4
      <4>2. PICK u \in Needs(t) : \A m \in 1..(l - 1) : u \notin levels[m]
        BY <1>1, <1>9, <3>1, <4>1 DEF LevelsInv
      <4>3. PICK m \in 1..l : u \in levels[m]
        BY <3>2
      <4>4. m = l
        <5>1. m \in 1..(l - 1) \/ m = l
          BY <4>1
        <5> QED
          BY <4>2, <4>3, <5>1
      <4> QED
        BY <1>3, <4>1, <4>3, <4>4
    <3> QED
      BY <1>3, <1>9, <3>1, <3>2, <3>3, <3>4
  <2> QED
    BY <1>10, <2>1, <2>2
<1>13. ASSUME NEW t \in Tasks \ Placed', Len(dependsOn[t]) = Cardinality(Needs(t))
       PROVE  \E u \in Needs(t) : \A m \in 1..((l + 1) - 1) : u \notin levels'[m]
  <2>1. t \notin Ready(Placed)
    BY <1>6, <1>13 DEF NextLevel
  <2>2. PICK u \in Needs(t) : u \notin Placed
    BY <1>8, <1>13, <2>1, ReadyMeans
  <2>3. (l + 1) - 1 = l
    OBVIOUS
  <2> QED
    BY <1>3, <1>5, <2>2, <2>3
<1>14. LevelsInv'
  BY <1>3, <1>7, <1>11, <1>12, <1>13 DEF LevelsInv
<1> QED
  BY <1>3, <1>6, <1>14

-----------------------------------------------------------------------------
(* The execution.                                                          *)

LEMMA Smaller ==
    ASSUME NEW a \in Nat, NEW b \in Nat
    PROVE  /\ Min({a, b}) \in Nat /\ Min({a, b}) <= a /\ Min({a, b}) <= b
           /\ Min({a, b}) = a \/ Min({a, b}) = b
<1>1. \E x \in {a, b} : \A y \in {a, b} : x <= y
  OBVIOUS
<1>2. PICK k : k = Min({a, b})
  OBVIOUS
<1>3. k \in {a, b} /\ \A y \in {a, b} : k <= y
  BY <1>1, <1>2 DEF Min
<1> QED
  BY <1>2, <1>3

\* The head of the loop over the levels, with the levels before n executed.
LEMMA BeginKeeps ==
    ASSUME DagTypes, NEW n \in Nat \ {0}, BeginLevel(n),
           runs' = runs, levels' = levels, result' = result, Placed' = Placed,
           executing = {}, batch = {},
           \A t \in Tasks : result[t] # "none" => t \in runs /\ t \in Placed,
           \A m \in 1..Len(levels) : \A t \in levels[m] \cap runs : result[t] = "none" <=> m >= n
    PROVE  /\ RunInv' /\ dagPc' \in {"run", "done"} /\ level' \in Nat
           /\ batch' \in SUBSET Tasks /\ executing' \in SUBSET Tasks
<1>1. /\ Len(levels) \in Nat
      /\ \A m \in 1..Len(levels) : levels[m] \subseteq Tasks
      /\ \A t : t \in Placed <=> \E m \in 1..Len(levels) : t \in levels[m]
  BY PlacedIs
<1>2. MaxConcurrency \in Nat \ {0} /\ IsFiniteSet(Tasks)
  BY DagAssumption
<1>3. CASE n > Len(levels)
  <2>1. dagPc' = "done" /\ level' = level /\ batch' = batch /\ executing' = executing
    BY <1>3 DEF BeginLevel
  <2>2. \A t \in Placed \cap runs : result[t] # "none"
    <3>1. \A m \in 1..Len(levels) : ~ (m >= n)
      BY <1>1, <1>3
    <3> QED
      BY <1>1, <3>1
  <2>3. Cardinality(executing') <= MaxConcurrency
    BY <1>2, <2>1, FS_EmptySet
  <2> QED
    BY <2>1, <2>2, <2>3 DEF RunInv, DagTypes
<1>4. CASE ~ (n > Len(levels))
  <2>1. n \in 1..Len(levels)
    BY <1>1, <1>4
  <2>2. PICK todo : todo = levels[n] \cap runs
    OBVIOUS
  <2>3. todo \in SUBSET Tasks
    BY <1>1, <2>1, <2>2
  <2>4. IsFiniteSet(todo) /\ Cardinality(todo) \in Nat
    BY <1>2, <2>3, FS_Subset, FS_CardinalityType
  <2>5. PICK first \in kSubset(Min({MaxConcurrency, Cardinality(todo)}), todo) :
           /\ dagPc' = "run" /\ level' = n
           /\ executing' = first /\ batch' = todo \ first
    BY <1>4, <2>2, Zenon DEF BeginLevel
  <2>6. first \in SUBSET todo /\ Cardinality(first) = Min({MaxConcurrency, Cardinality(todo)})
    BY <2>5 DEF kSubset
  <2>7. Cardinality(first) <= MaxConcurrency /\ (todo # {} => first # {})
    <3>1. PICK k \in Nat : /\ k = Cardinality(first) /\ k <= MaxConcurrency
                           /\ k = MaxConcurrency \/ k = Cardinality(todo)
      BY <1>2, <2>4, <2>6, Smaller
    <3>2. Cardinality(todo) = 0 <=> todo = {}
      BY <2>4, FS_EmptySet
    <3>3. Cardinality({}) = 0
      BY FS_EmptySet
    <3> QED
      BY <1>2, <3>1, <3>2, <3>3
  <2>8. \A m \in 1..Len(levels) : \A t \in levels[m] \cap runs :
           result[t] = "none" <=> m > n \/ t \in todo
    <3>1. \A m \in 1..Len(levels) : m >= n <=> m > n \/ m = n
      BY <1>1
    <3>2. \A m \in 1..Len(levels) : \A t \in levels[m] \cap runs : t \in todo => result[t] = "none"
      <4>1. n >= n
        OBVIOUS
      <4> QED
        BY <2>1, <2>2, <4>1
    <3> QED
      BY <2>2, <3>1, <3>2
  <2>9. executing' \cup batch' = todo /\ executing' \cap batch' = {}
    BY <2>5, <2>6
  <2>10. executing' = {} => batch' = {}
    BY <2>5, <2>7
  <2> QED
    BY <2>1, <2>2, <2>3, <2>5, <2>6, <2>7, <2>8, <2>9, <2>10 DEF RunInv
<1> QED
  BY <1>3, <1>4

\* A task ends and its worker takes the next one.
LEMMA TaskEndKeeps ==
    ASSUME DagInv, NEW t \in Tasks, NEW status \in {"succeeded", "failed", "retrying"},
           TaskEnds(t, status)
    PROVE  DagTypes' /\ RunInv'
<1>1. /\ t \in executing /\ result' = [result EXCEPT ![t] = status]
      /\ WorkerDone(t)
      /\ dependsOn' = dependsOn /\ runs' = runs /\ dagPc' = dagPc /\ levels' = levels
      /\ level' = level
  BY DEF TaskEnds
<1>2. dagPc = "run" /\ DagTypes /\ RunInv /\ LevelsInv
  BY <1>1 DEF DagInv, RunInv, PlanInv
<1>3. \A u \in Tasks : result'[u] = IF u = t THEN status ELSE result[u]
  BY <1>1, <1>2 DEF DagTypes
<1>4. executing \in SUBSET Tasks /\ batch \in SUBSET Tasks /\ IsFiniteSet(executing)
  BY <1>2, DagAssumption, FS_Subset DEF DagTypes
<1>5. /\ executing' \cup batch' = (executing \cup batch) \ {t}
      /\ executing' \cap batch' = {}
      /\ executing' = {} => batch' = {}
      /\ executing' \subseteq Tasks /\ batch' \subseteq Tasks
  BY <1>1, <1>2, <1>4 DEF WorkerDone, RunInv
<1>6. Cardinality(executing') <= MaxConcurrency
  <2>1. PICK c \in Nat : c = Cardinality(executing) /\ c <= MaxConcurrency
    BY <1>2, <1>4, FS_CardinalityType DEF RunInv
  <2>2. IsFiniteSet(executing \ {t}) /\ Cardinality(executing \ {t}) = c - 1
    BY <1>1, <1>4, <2>1, FS_RemoveElement
  <2>3. CASE executing' = executing \ {t}
    BY <2>1, <2>2, <2>3, DagAssumption
  <2>4. ASSUME NEW next \in batch, executing' = (executing \ {t}) \cup {next}
        PROVE  Cardinality(executing') <= MaxConcurrency
    <3>1. next \notin executing \ {t}
      BY <1>2, <2>4 DEF RunInv
    <3>2. Cardinality(executing') = (c - 1) + 1
      BY <2>2, <2>4, <3>1, FS_AddElement
    <3> QED
      BY <2>1, <3>2
  <2> QED
    BY <1>1, <2>3, <2>4 DEF WorkerDone
<1>7. /\ level \in 1..Len(levels)
      /\ executing \cup batch \subseteq levels[level] \cap runs
      /\ \A n \in 1..Len(levels) : \A u \in levels[n] \cap runs :
            result[u] = "none" <=> n > level \/ u \in executing \cup batch
      /\ \A u \in Tasks : result[u] # "none" => u \in runs /\ u \in Placed
  BY <1>2 DEF RunInv
<1>8. t \in levels[level] \cap runs /\ t \in Placed
  BY <1>1, <1>2, <1>7, PlacedIs
<1>9. ASSUME NEW n \in 1..Len(levels), NEW u \in levels[n] \cap runs
      PROVE  result'[u] = "none" <=> n > level \/ u \in executing' \cup batch'
  <2>1. u \in Tasks
    BY <1>2, <1>9, PlacedIs
  <2>2. CASE u = t
    <3>1. n = level
      BY <1>2, <1>7, <1>8, <2>2 DEF LevelsInv
    <3>2. ~ (n > level)
      BY <1>2, <3>1 DEF DagTypes
    <3> QED
      BY <1>3, <1>5, <2>1, <2>2, <3>2
  <2>3. CASE u # t
    BY <1>3, <1>5, <1>7, <2>1, <2>3
  <2> QED
    BY <2>2, <2>3
<1>10. Placed' = Placed
  BY <1>1 DEF Placed
<1>11. DagTypes'
  BY <1>1, <1>2, <1>5 DEF DagTypes, Status
<1>12. \A u \in Tasks : result'[u] # "none" => u \in runs /\ u \in Placed
  BY <1>3, <1>7, <1>8
<1>13. executing' \cup batch' \subseteq levels[level] \cap runs
  BY <1>5, <1>7
<1> QED
  BY <1>1, <1>2, <1>5, <1>6, <1>7, <1>9, <1>10, <1>11, <1>12, <1>13 DEF RunInv

LEMMA DagStarts == DagInit => DagInv
<1> SUFFICES ASSUME DagInit
             PROVE  DagInv
  OBVIOUS
<1>1. DagTypes
  BY DagAssumption DEF DagInit, DagTypes, Status
<1>2. Len(levels) = 0 /\ Placed = {}
  BY DEF DagInit, Placed, Range
<1>3. PlanInv
  BY <1>2 DEF DagInit, PlanInv, LevelsInv
<1>4. RunInv
  BY <1>2, DagAssumption, FS_EmptySet DEF DagInit, RunInv
<1> QED
  BY <1>1, <1>3, <1>4 DEF DagInv

LEMMA DagStep == DagInv /\ [DagNext]_dagVars => DagInv'
<1> SUFFICES ASSUME DagInv, [DagNext]_dagVars
             PROVE  DagInv'
  OBVIOUS
<1>0. DagTypes /\ PlanInv /\ LevelsInv /\ RunInv
  BY DEF DagInv, PlanInv
<1>1. CASE RejectPlan
  <2>1. /\ dependsOn' = dependsOn /\ runs' = runs /\ levels' = levels /\ level' = level
        /\ batch' = batch /\ executing' = executing /\ result' = result
        /\ dagPc = "plan" /\ dagPc' = "rejected"
    BY <1>1 DEF RejectPlan
  <2>2. PlanInv' /\ Placed' = Placed
    BY <1>0, <2>1, PlanStays
  <2>3. DagTypes'
    BY <1>0, <2>1 DEF DagTypes
  <2>4. RunInv'
    BY <1>0, <2>1, <2>2 DEF RunInv
  <2> QED
    BY <2>2, <2>3, <2>4 DEF DagInv
<1>2. CASE PlanLevel
  <2>1. /\ dependsOn' = dependsOn /\ runs' = runs /\ levels' = Append(levels, NextLevel)
        /\ level' = level /\ batch' = batch /\ executing' = executing /\ result' = result
        /\ dagPc = "plan" /\ dagPc' = "plan"
    BY <1>2 DEF PlanLevel
  <2>2. LevelsInv' /\ levels' \in Seq(SUBSET Tasks) /\ Placed \subseteq Placed'
    BY <1>0, <2>1, LevelAdded
  <2>3. PlanInv'
    BY <2>1, <2>2 DEF PlanInv
  <2>4. DagTypes'
    BY <1>0, <2>1, <2>2 DEF DagTypes
  <2>5. RunInv'
    BY <1>0, <2>1, <2>2 DEF RunInv
  <2> QED
    BY <2>3, <2>4, <2>5 DEF DagInv
<1>3. CASE BeginRun
  <2>1. /\ dependsOn' = dependsOn /\ runs' = runs /\ levels' = levels /\ result' = result
        /\ dagPc = "plan" /\ Acyclic /\ NextLevel = {} /\ BeginLevel(1)
    BY <1>3 DEF BeginRun
  <2>2. PlanInv' /\ Placed' = Placed
    BY <1>0, <2>1, PlanStays
  <2>3. /\ executing = {} /\ batch = {} /\ \A t \in Tasks : result[t] = "none"
        /\ \A t \in Tasks : result[t] # "none" => t \in runs /\ t \in Placed
    BY <1>0, <2>1 DEF RunInv
  <2>4. \A m \in 1..Len(levels) : \A t \in levels[m] \cap runs : result[t] = "none" <=> m >= 1
    <3>1. Len(levels) \in Nat /\ \A m \in 1..Len(levels) : levels[m] \subseteq Tasks
      BY <1>0, PlacedIs
    <3> QED
      BY <2>3, <3>1
  <2>5. 1 \in Nat \ {0}
    OBVIOUS
  <2>6. /\ RunInv' /\ dagPc' \in {"run", "done"} /\ level' \in Nat
        /\ batch' \in SUBSET Tasks /\ executing' \in SUBSET Tasks
    BY <1>0, <2>1, <2>2, <2>3, <2>4, <2>5, BeginKeeps
  <2>7. DagTypes'
    BY <1>0, <2>1, <2>6 DEF DagTypes
  <2> QED
    BY <2>2, <2>6, <2>7 DEF DagInv
<1>4. CASE ExecuteTask
  <2>1. PICK t \in Tasks, status \in {"succeeded", "failed", "retrying"} : TaskEnds(t, status)
    BY <1>4 DEF ExecuteTask
  <2>2. DagTypes' /\ RunInv'
    BY <2>1, TaskEndKeeps
  <2>3. dependsOn' = dependsOn /\ levels' = levels /\ dagPc' = dagPc
    BY <2>1 DEF TaskEnds
  <2>4. PlanInv'
    BY <1>0, <2>3, PlanStays DEF PlanInv
  <2> QED
    BY <2>2, <2>4 DEF DagInv
<1>5. CASE LevelEnds
  <2>1. /\ dependsOn' = dependsOn /\ runs' = runs /\ levels' = levels /\ result' = result
        /\ dagPc = "run" /\ executing = {} /\ BeginLevel(level + 1)
    BY <1>5 DEF LevelEnds
  <2>2. PlanInv' /\ Placed' = Placed
    BY <1>0, <2>1, PlanStays DEF PlanInv
  <2>3. /\ batch = {} /\ level \in 1..Len(levels)
        /\ \A t \in Tasks : result[t] # "none" => t \in runs /\ t \in Placed
        /\ \A n \in 1..Len(levels) : \A t \in levels[n] \cap runs : result[t] = "none" <=> n > level
    BY <1>0, <2>1 DEF RunInv
  <2>4. PICK n \in Nat \ {0} : n = level + 1
    BY <1>0 DEF DagTypes
  <2>5. \A m \in 1..Len(levels) : \A t \in levels[m] \cap runs : result[t] = "none" <=> m >= n
    <3>1. \A m \in 1..Len(levels) : m > level <=> m >= n
      BY <1>0, <2>4 DEF DagTypes
    <3> QED
      BY <2>3, <3>1
  <2>6. /\ RunInv' /\ dagPc' \in {"run", "done"} /\ level' \in Nat
        /\ batch' \in SUBSET Tasks /\ executing' \in SUBSET Tasks
    BY <1>0, <2>1, <2>2, <2>3, <2>4, <2>5, BeginKeeps
  <2>7. DagTypes'
    BY <1>0, <2>1, <2>6 DEF DagTypes
  <2> QED
    BY <2>2, <2>6, <2>7 DEF DagInv
<1>6. CASE UNCHANGED dagVars
  <2>1. /\ dependsOn' = dependsOn /\ runs' = runs /\ levels' = levels /\ result' = result
        /\ dagPc' = dagPc /\ level' = level /\ batch' = batch /\ executing' = executing
    BY <1>6 DEF dagVars
  <2>2. PlanInv' /\ Placed' = Placed
    BY <1>0, <2>1, PlanStays DEF PlanInv
  <2> QED
    BY <1>0, <2>1, <2>2 DEF DagInv, DagTypes, RunInv
<1> QED
  BY <1>1, <1>2, <1>3, <1>4, <1>5, <1>6 DEF DagNext

LEMMA DagAlways == DagSpec => []DagInv
  BY DagStarts, DagStep, PTL DEF DagSpec

\* Whatever the overlap of the workers of a level, a task is executed only once,
\* after every task it waits for that is executed at all, and with at most
\* MaxConcurrency tasks under way.
THEOREM TasksWaitForTheirNeeds == DagSpec => []BegunAfterNeeds
<1>1. DagInv => BegunAfterNeeds
  <2> SUFFICES ASSUME DagInv
               PROVE  BegunAfterNeeds
    OBVIOUS
  <2>1. Cardinality(executing) <= MaxConcurrency
    BY DEF DagInv, RunInv
  <2>2. ASSUME NEW t \in executing
        PROVE  result[t] = "none" /\ \A u \in Needs(t) \cap runs : result[u] # "none"
    <3>1. /\ dagPc = "run" /\ level \in 1..Len(levels)
          /\ executing \cup batch \subseteq levels[level] \cap runs
          /\ \A n \in 1..Len(levels) : \A v \in levels[n] \cap runs :
                result[v] = "none" <=> n > level \/ v \in executing \cup batch
      BY <2>2 DEF DagInv, RunInv
    <3>2. t \in levels[level] \cap runs /\ result[t] = "none"
      BY <3>1
    <3>3. ASSUME NEW u \in Needs(t) \cap runs
          PROVE  result[u] # "none"
      <4>1. PICK m \in 1..Len(levels) : m < level /\ u \in levels[m]
        BY <3>1, <3>2 DEF DagInv, PlanInv, LevelsInv
      <4>2. level \in Nat /\ m # level /\ ~ (m > level)
        BY <4>1 DEF DagInv, DagTypes
      <4>3. u \notin levels[level]
        BY <3>1, <4>1, <4>2 DEF DagInv, PlanInv, LevelsInv
      <4> QED
        BY <3>1, <4>1, <4>2, <4>3
    <3> QED
      BY <3>2, <3>3
  <2> QED
    BY <2>1, <2>2 DEF BegunAfterNeeds
<1> QED
  BY <1>1, DagAlways, PTL

-----------------------------------------------------------------------------
(* Chains of dependencies.                                                 *)

IsChain(c, n) ==
    /\ n \in Nat \ {0}
    /\ c \in [1..n -> Tasks]
    /\ \A i \in 1..(n - 1) : c[i] \in Needs(c[i + 1])

LEMMA ChainLength ==
    ASSUME NEW n \in Nat, NEW c \in [1..n -> Tasks]
    PROVE  c \in Seq(Tasks) /\ Len(c) = n
<1>1. c \in Seq(Tasks)
  BY SeqDef
<1> QED
  BY <1>1, LenProperties

LEMMA ChainsAre ==
    ASSUME NEW c \in Chains
    PROVE  \E n \in Nat : IsChain(c, n) /\ Len(c) = n
<1>1. Cardinality(Tasks) \in Nat
  BY DagAssumption, FS_CardinalityType
<1>2. PICK n \in 1..Cardinality(Tasks) : c \in [1..n -> Tasks]
  BY DEF Chains
<1>3. n \in Nat \ {0}
  BY <1>1
<1>4. Len(c) = n
  BY <1>2, <1>3, ChainLength
<1>5. \A i \in 1..(n - 1) : c[i] \in Needs(c[i + 1])
  BY <1>4 DEF Chains
<1> QED
  BY <1>2, <1>3, <1>4, <1>5 DEF IsChain

\* In an acyclic graph no chain passes a task twice, so none has more tasks than
\* there are.
LEMMA ChainsAreShort ==
    ASSUME Acyclic, NEW n, NEW c, IsChain(c, n)
    PROVE  c \in Chains /\ Len(c) = n
<1>1. /\ n \in Nat \ {0} /\ c \in [1..n -> Tasks]
      /\ \A i \in 1..(n - 1) : c[i] \in Needs(c[i + 1])
  BY DEF IsChain
<1>2. ASSUME NEW i \in 1..n, NEW j \in 1..n, i < j, c[i] = c[j]
      PROVE  FALSE
  <2>1. PICK S : S = {c[k] : k \in (i + 1)..j}
    OBVIOUS
  <2>2. \A k \in (i + 1)..j : k \in 1..n
    BY <1>1
  <2>3. S \in SUBSET Tasks
    BY <1>1, <2>1, <2>2
  <2>4. j \in (i + 1)..j
    BY <1>1, <1>2
  <2>5. S # {} /\ c[j] \in S
    BY <2>1, <2>4
  <2>6. PICK t \in S : Needs(t) \cap S = {}
    BY <2>3, <2>5 DEF Acyclic
  <2>7. PICK k \in (i + 1)..j : t = c[k]
    BY <2>1, <2>6
  <2>8. k - 1 \in 1..(n - 1) /\ (k - 1) + 1 = k
    BY <1>1, <2>7
  <2>9. c[k - 1] \in Needs(t)
    BY <1>1, <2>7, <2>8
  <2>10. CASE k = i + 1
    <3>1. k - 1 = i
      BY <2>10
    <3> QED
      BY <1>2, <2>5, <2>6, <2>9, <3>1
  <2>11. CASE k # i + 1
    <3>1. k - 1 \in (i + 1)..j
      BY <2>7, <2>11
    <3> QED
      BY <2>1, <2>6, <2>9, <3>1
  <2> QED
    BY <2>10, <2>11
<1>3. \A i, j \in 1..n : c[i] = c[j] => i = j
  <2>1. \A i, j \in 1..n : i = j \/ i < j \/ j < i
    BY <1>1
  <2> QED
    BY <1>2, <2>1
<1>4. c \in Injection(1..n, Tasks)
  BY <1>1, <1>3 DEF Injection, IsInjective
<1>5. Cardinality(1..n) <= Cardinality(Tasks) /\ Cardinality(Tasks) \in Nat
  BY <1>4, DagAssumption, FS_Injection, FS_CardinalityType
<1>6. Cardinality(1..n) = n
  <2>1. 1 \in Int /\ n \in Int
    BY <1>1
  <2>2. Cardinality(1..n) = IF 1 > n THEN 0 ELSE n - 1 + 1
    BY <2>1, FS_Interval
  <2> QED
    BY <1>1, <2>2
<1>7. n \in 1..Cardinality(Tasks)
  BY <1>1, <1>5, <1>6
<1>8. Len(c) = n
  BY <1>1, ChainLength
<1> QED
  BY <1>1, <1>7, <1>8 DEF Chains

\* A chain goes on with a task that waits for its last one.
LEMMA ChainExtends ==
    ASSUME NEW n, NEW c, IsChain(c, n), NEW t \in Tasks, c[n] \in Needs(t)
    PROVE  \E d : IsChain(d, n + 1) /\ d[n + 1] = t /\ d[1] = c[1]
<1>1. /\ n \in Nat \ {0} /\ c \in [1..n -> Tasks]
      /\ \A i \in 1..(n - 1) : c[i] \in Needs(c[i + 1])
  BY DEF IsChain
<1>2. PICK d : d = [i \in 1..(n + 1) |-> IF i <= n THEN c[i] ELSE t]
  OBVIOUS
<1>3. /\ \A i \in 1..n : d[i] = c[i]
      /\ d[n + 1] = t
  BY <1>1, <1>2
<1>4. d \in [1..(n + 1) -> Tasks]
  BY <1>1, <1>2
<1>5. ASSUME NEW i \in 1..((n + 1) - 1)
      PROVE  d[i] \in Needs(d[i + 1])
  <2>1. CASE i = n
    BY <1>1, <1>3, <2>1
  <2>2. CASE i # n
    <3>1. i \in 1..(n - 1) /\ i \in 1..n /\ i + 1 \in 1..n
      BY <1>1, <2>2
    <3> QED
      BY <1>1, <1>3, <3>1
  <2> QED
    BY <2>1, <2>2
<1>6. n + 1 \in Nat \ {0} /\ 1 \in 1..n
  BY <1>1
<1> QED
  BY <1>3, <1>4, <1>5, <1>6 DEF IsChain

Less == {p \in Nat \X Nat : p[1] < p[2]}

\* A set of numbers has a least one.
LEMMA LeastExists ==
    ASSUME NEW S \in SUBSET Nat, S # {}
    PROVE  \E x \in S : \A y \in S : x <= y
<1>1. IsWellFoundedOn(Less, Nat)
  BY NatLessThanWellFounded DEF OpToRel, Less
<1>2. PICK x \in S : \A y \in S : ~ (<<y, x>> \in Less)
  BY <1>1, WFMin
<1>3. ASSUME NEW y \in S
      PROVE  x <= y
  <2>1. y < x => <<y, x>> \in Less
    BY DEF Less
  <2> QED
    BY <1>2, <2>1
<1> QED
  BY <1>3

\* Backwards along a chain to a planned task one comes to ever lower levels.
LEMMA ChainDescends ==
    ASSUME DagTypes, LevelsInv, NEW k \in 1..Len(levels), NEW n, NEW c, IsChain(c, n),
           c[n] \in levels[k]
    PROVE  n <= k /\ \E m \in 1..Len(levels) : c[1] \in levels[m]
<1>1. /\ n \in Nat \ {0} /\ c \in [1..n -> Tasks]
      /\ \A i \in 1..(n - 1) : c[i] \in Needs(c[i + 1])
  BY DEF IsChain
<1>2. Len(levels) \in Nat
  BY PlacedIs
<1>3. \A m \in 1..Len(levels) : \A t \in levels[m] : \A u \in Needs(t) :
         \E l \in 1..Len(levels) : l < m /\ u \in levels[l]
  BY DEF LevelsInv
<1> DEFINE Low(j) == \E m \in 1..Len(levels) : m + j <= k /\ c[n - j] \in levels[m]
           D == {j \in 0..(n - 1) : ~ Low(j)}
<1>4. ASSUME D # {}
      PROVE  FALSE
  <2>1. D \in SUBSET Nat
    OBVIOUS
  <2>2. PICK j \in D : \A i \in D : j <= i
    <3> HIDE DEF D
    <3> QED
      BY <1>4, <2>1, LeastExists
  <2>3. j \in 0..(n - 1) /\ ~ Low(j)
    OBVIOUS
  <2>4. Low(0)
    <3>1. n - 0 = n /\ k + 0 <= k
      BY <1>1, <1>2
    <3> QED
      BY <3>1
  <2>5. j # 0 /\ j - 1 \in 0..(n - 1)
    <3> HIDE DEF Low, D
    <3>1. j # 0
      BY <2>3, <2>4
    <3> QED
      BY <1>1, <2>3, <3>1
  <2>6. Low(j - 1)
    <3>1. ~ (j <= j - 1)
      BY <2>3
    <3> QED
      BY <2>2, <2>5, <3>1
  <2>7. PICK m \in 1..Len(levels) : m + (j - 1) <= k /\ c[n - (j - 1)] \in levels[m]
    BY <2>6
  <2>8. n - j \in 1..(n - 1) /\ (n - j) + 1 = n - (j - 1)
    BY <1>1, <2>3, <2>5
  <2>9. c[n - j] \in Needs(c[n - (j - 1)])
    BY <1>1, <2>8
  <2>10. PICK l \in 1..Len(levels) : l < m /\ c[n - j] \in levels[l]
    <3>1. PICK u, t : u = c[n - j] /\ t = c[n - (j - 1)]
      OBVIOUS
    <3>2. t \in levels[m] /\ u \in Needs(t)
      BY <2>7, <2>9, <3>1
    <3>3. \E l \in 1..Len(levels) : l < m /\ u \in levels[l]
      BY <1>3, <3>2, Zenon
    <3> QED
      BY <3>1, <3>3
  <2>11. l + j <= k
    BY <1>2, <2>3, <2>7, <2>10
  <2> QED
    BY <2>3, <2>10, <2>11
<1>5. Low(n - 1)
  <2>1. n - 1 \in 0..(n - 1)
    BY <1>1
  <2> QED
    BY <1>4, <2>1
<1>6. PICK m \in 1..Len(levels) : m + (n - 1) <= k /\ c[n - (n - 1)] \in levels[m]
  BY <1>5
<1>7. n <= k /\ n - (n - 1) = 1
  BY <1>1, <1>2, <1>6
<1> QED
  BY <1>6, <1>7

\* To a task of level k there is a chain of k tasks.
LEMMA ChainReaches ==
    ASSUME DagTypes, LevelsInv
    PROVE  \A k \in 1..Len(levels) : \A t \in levels[k] : \E c : IsChain(c, k) /\ c[k] = t
<1>1. Len(levels) \in Nat /\ \A k \in 1..Len(levels) : levels[k] \subseteq Tasks
  BY PlacedIs
<1> DEFINE Reached(k) == \A t \in levels[k] : \E c : IsChain(c, k) /\ c[k] = t
           D == {k \in 1..Len(levels) : ~ Reached(k)}
<1>2. ASSUME D # {}
      PROVE  FALSE
  <2>1. D \in SUBSET Nat
    BY <1>1
  <2>2. PICK k \in D : \A i \in D : k <= i
    <3> HIDE DEF D
    <3> QED
      BY <1>2, <2>1, LeastExists
  <2>3. PICK t \in levels[k] : ~ \E c : IsChain(c, k) /\ c[k] = t
    OBVIOUS
  <2>4. k \in 1..Len(levels) /\ t \in Tasks
    BY <1>1
  <2>5. CASE k = 1
    <3>1. PICK c : c = [i \in 1..1 |-> t]
      OBVIOUS
    <3>2. c \in [1..1 -> Tasks] /\ c[1] = t
      BY <2>4, <3>1
    <3>3. IsChain(c, 1)
      BY <3>2 DEF IsChain
    <3> QED
      BY <2>3, <2>5, <3>2, <3>3
  <2>6. CASE k # 1
    <3>1. k > 1 /\ k - 1 \in 1..Len(levels) /\ ~ (k <= k - 1) /\ (k - 1) + 1 = k
      BY <1>1, <2>4, <2>6
    <3>2. PICK u \in Needs(t) : u \in levels[k - 1]
      BY <2>4, <3>1 DEF LevelsInv
    <3>3. Reached(k - 1)
      BY <2>2, <3>1
    <3>4. PICK c : IsChain(c, k - 1) /\ c[k - 1] = u
      BY <3>2, <3>3
    <3>5. PICK j : j = k - 1
      OBVIOUS
    <3>6. IsChain(c, j) /\ c[j] \in Needs(t)
      BY <3>2, <3>4, <3>5
    <3>7. PICK d : IsChain(d, j + 1) /\ d[j + 1] = t
      BY <2>4, <3>6, ChainExtends
    <3> QED
      BY <2>3, <3>1, <3>5, <3>7
  <2> QED
    BY <2>5, <2>6
<1> QED
  BY <1>2

-----------------------------------------------------------------------------
(* The plan has a level for every task that can be planned.                *)

LEMMA PlacedArePlannable ==
    ASSUME DagTypes, LevelsInv, NEW t \in Placed
    PROVE  t \in Tasks \ Unplannable
<1>1. PICK k \in 1..Len(levels) : t \in levels[k]
  BY PlacedIs
<1>2. t \in Tasks
  BY <1>1, PlacedIs
<1>3. ASSUME NEW c \in ChainsTo(t)
      PROVE  Needs(c[1]) \subseteq Tasks /\ Len(dependsOn[c[1]]) = Cardinality(Needs(c[1]))
  <2>1. c \in Chains /\ c[Len(c)] = t
    BY DEF ChainsTo
  <2>2. PICK n \in Nat : IsChain(c, n) /\ Len(c) = n
    BY <2>1, ChainsAre
  <2>3. c[n] \in levels[k]
    BY <1>1, <2>1, <2>2
  <2>4. PICK m \in 1..Len(levels) : c[1] \in levels[m]
    BY <2>2, <2>3, ChainDescends
  <2>5. /\ Len(dependsOn[c[1]]) = Cardinality(Needs(c[1]))
        /\ \A u \in Needs(c[1]) : \E l \in 1..Len(levels) : u \in levels[l]
    BY <2>4 DEF LevelsInv
  <2>6. Needs(c[1]) \subseteq Tasks
    BY <2>5, PlacedIs
  <2> QED
    BY <2>5, <2>6
<1> QED
  BY <1>2, <1>3 DEF Unplannable

LEMMA PlannableArePlaced ==
    ASSUME DagTypes, LevelsInv, Acyclic, NextLevel = {}, NEW t \in Tasks \ Unplannable
    PROVE  t \in Placed
<1>1. PICK S : S = Tasks \ (Placed \cup Unplannable)
  OBVIOUS
<1>2. ASSUME S # {}
      PROVE  FALSE
  <2>1. S \in SUBSET Tasks
    BY <1>1
  <2>2. PICK v \in S : Needs(v) \cap S = {}
    BY <1>2, <2>1 DEF Acyclic
  <2>3. v \in Tasks /\ v \notin Placed /\ v \notin Unplannable
    BY <1>1, <2>2
  <2>4. Needs(v) \subseteq Tasks /\ Len(dependsOn[v]) = Cardinality(Needs(v))
    <3>1. PICK c : c = [i \in 1..1 |-> v]
      OBVIOUS
    <3>2. c \in [1..1 -> Tasks] /\ c[1] = v
      BY <2>3, <3>1
    <3>3. IsChain(c, 1)
      BY <3>2 DEF IsChain
    <3>4. c \in ChainsTo(v)
      BY <3>2, <3>3, ChainsAreShort DEF ChainsTo
    <3> QED
      BY <2>3, <3>2, <3>4 DEF Unplannable
  <2>5. ASSUME NEW u \in Needs(v), u \in Unplannable
        PROVE  FALSE
    <3>1. PICK c \in ChainsTo(u) : \/ ~ Needs(c[1]) \subseteq Tasks
                                   \/ Len(dependsOn[c[1]]) # Cardinality(Needs(c[1]))
      BY <2>5 DEF Unplannable
    <3>2. c \in Chains /\ c[Len(c)] = u
      BY <3>1 DEF ChainsTo
    <3>3. PICK n \in Nat : IsChain(c, n) /\ Len(c) = n
      BY <3>2, ChainsAre
    <3>4. c[n] \in Needs(v)
      BY <2>5, <3>2, <3>3
    <3>5. PICK d : IsChain(d, n + 1) /\ d[n + 1] = v /\ d[1] = c[1]
      BY <2>3, <3>3, <3>4, ChainExtends
    <3>6. d \in Chains /\ Len(d) = n + 1
      BY <3>5, ChainsAreShort
    <3>7. d \in ChainsTo(v)
      BY <3>5, <3>6 DEF ChainsTo
    <3> QED
      BY <2>3, <3>1, <3>5, <3>7 DEF Unplannable
  <2>6. Needs(v) \subseteq Placed
    BY <1>1, <2>2, <2>4, <2>5
  <2>7. dependsOn[v] \in Seq(STRING)
    BY <2>3 DEF DagTypes
  <2>8. v \in Ready(Placed)
    BY <2>3, <2>4, <2>6, <2>7, ReadyMeans
  <2> QED
    BY <2>3, <2>8 DEF NextLevel
<1> QED
  BY <1>1, <1>2

\* When the executor is done it has executed every task with a TaskRun that a plan
\* can have, and no other.
THEOREM AllPlannableExecuted == DagSpec => []DoneMeansExecuted
<1>1. DagInv => DoneMeansExecuted
  <2> SUFFICES ASSUME DagInv, dagPc = "done"
               PROVE  {t \in Tasks : result[t] # "none"} = runs \ Unplannable
    BY DEF DoneMeansExecuted
  <2>1. /\ DagTypes /\ LevelsInv /\ Acyclic /\ NextLevel = {} /\ runs \subseteq Tasks
        /\ \A t \in Tasks : result[t] # "none" => t \in runs /\ t \in Placed
        /\ \A t \in Placed \cap runs : result[t] # "none"
    BY DEF DagInv, PlanInv, RunInv, DagTypes
  <2>2. \A t \in Tasks : t \in Placed <=> t \notin Unplannable
    BY <2>1, PlacedArePlannable, PlannableArePlaced
  <2> QED
    BY <2>1, <2>2
<1> QED
  BY <1>1, DagAlways, PTL

LEMMA LevelIsLongest ==
    ASSUME DagTypes, LevelsInv, Acyclic, NEW k \in 1..Len(levels), NEW t \in levels[k]
    PROVE  Max({Len(c) : c \in ChainsTo(t)}) = k
<1>1. PICK S : S = {Len(c) : c \in ChainsTo(t)}
  OBVIOUS
<1>2. Len(levels) \in Nat /\ k \in Nat
  BY PlacedIs
<1>3. k \in S
  <2>1. PICK c : IsChain(c, k) /\ c[k] = t
    BY ChainReaches
  <2>2. c \in Chains /\ Len(c) = k
    BY <2>1, ChainsAreShort
  <2>3. c \in ChainsTo(t)
    BY <2>1, <2>2 DEF ChainsTo
  <2> QED
    BY <1>1, <2>2, <2>3
<1>4. \A s \in S : s \in Nat /\ s <= k
  <2> SUFFICES ASSUME NEW c \in ChainsTo(t)
               PROVE  Len(c) \in Nat /\ Len(c) <= k
    BY <1>1
  <2>1. c \in Chains /\ c[Len(c)] = t
    BY DEF ChainsTo
  <2>2. PICK n \in Nat : IsChain(c, n) /\ Len(c) = n
    BY <2>1, ChainsAre
  <2>3. c[n] \in levels[k]
    BY <2>1, <2>2
  <2>4. n <= k
    BY <2>2, <2>3, ChainDescends
  <2> QED
    BY <2>2, <2>4
<1>5. k \in S /\ \A s \in S : k >= s
  BY <1>2, <1>3, <1>4
<1>6. PICK x : x = Max(S)
  OBVIOUS
<1>7. x \in S /\ \A s \in S : x >= s
  BY <1>5, <1>6 DEF Max
<1>8. x = k
  BY <1>2, <1>3, <1>4, <1>7
<1> QED
  BY <1>1, <1>6, <1>8

\* A plan that is executed puts every task that can be planned into the level that
\* is the length of the longest chain of dependencies to it.
THEOREM LevelsAreLongestChains == DagSpec => [](dagPc \in {"run", "done"} => LevelsAreRight)
<1>1. DagInv => (dagPc \in {"run", "done"} => LevelsAreRight)
  <2> SUFFICES ASSUME DagInv, dagPc \in {"run", "done"}, NEW t \in Tasks \ Unplannable
               PROVE  LET n == Max({Len(c) : c \in ChainsTo(t)})
                      IN  n \in DOMAIN levels /\ t \in levels[n]
    BY Zenon DEF LevelsAreRight
  <2>1. DagTypes /\ LevelsInv /\ Acyclic /\ NextLevel = {}
    BY DEF DagInv, PlanInv
  <2>2. t \in Placed
    BY <2>1, PlannableArePlaced
  <2>3. PICK k \in 1..Len(levels) : t \in levels[k]
    BY <2>1, <2>2, PlacedIs
  <2>4. Max({Len(c) : c \in ChainsTo(t)}) = k
    BY <2>1, <2>3, LevelIsLongest
  <2>5. k \in DOMAIN levels
    BY <2>1, <2>3, LenProperties DEF DagTypes
  <2> QED
    BY <2>3, <2>4, <2>5, Zenon
<1> QED
  BY <1>1, DagAlways, PTL
=============================================================================
