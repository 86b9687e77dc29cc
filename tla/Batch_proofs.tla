---------------------------- MODULE Batch_proofs ----------------------------
(***************************************************************************)
(* Proofs about Batch and its worker pool for any number of batches, items *)
(* and workers.                                                            *)
(*                                                                         *)
(* A step changes the state of one batch.  The invariants of a batch are   *)
(* therefore stated of values: ph, td, wk, cr, oc and pr stand for phase,  *)
(* todo, worker, created, outcome and progress of batch b.                 *)
(***************************************************************************)
EXTENDS Batch, SequenceTheorems, FiniteSetTheorems, TLAPS

Outcome == {"none", "completed", "failed"}

ItemTypes(b, ph, td, wk, cr, oc) ==
    /\ ph \in {"new", "open", "returned"}
    /\ td \in Seq(Item(b))
    /\ wk \in [Worker(b) -> {0} \cup Item(b)]
    /\ cr \in SUBSET Item(b)
    /\ oc \in [Item(b) -> Outcome]

Stopped(b, oc) == \E i \in Item(b) : oc[i] = "failed" /\ ~ Manifest[b].items[i].continueOnError

\* Workers and queue share out the items that have not ended: no item is with two
\* workers, twice in the queue, or in both.  All of them are there, unless the
\* batch was stopped.  A worker ends only when the queue is empty.
ItemsInv(b, ph, td, wk, cr, oc) ==
    /\ \A v, w \in Worker(b) : wk[v] = wk[w] => v = w \/ wk[v] = 0
    /\ \A j, k \in 1..Len(td) : td[j] = td[k] => j = k
    /\ \A w \in Worker(b), k \in 1..Len(td) : wk[w] # td[k]
    /\ \A w \in Worker(b) : wk[w] # 0 => oc[wk[w]] = "none"
    /\ \A k \in 1..Len(td) : oc[td[k]] = "none" /\ td[k] \notin cr
    /\ Stopped(b, oc) => td = << >>
    /\ ph # "new" /\ ~ Stopped(b, oc) =>
         \A i \in Item(b) : oc[i] = "none" => \/ \E w \in Worker(b) : wk[w] = i
                                              \/ \E k \in 1..Len(td) : td[k] = i
    /\ \A w \in Worker(b) : wk[w] = 0 => td = << >>
    /\ ph = "new" => /\ cr = {}
                     /\ \A w \in Worker(b) : wk[w] = 0
                     /\ \A i \in Item(b) : oc[i] = "none"
    /\ ph = "returned" => \A w \in Worker(b) : wk[w] = 0

\* What is left of the queue when item i has ended.
RestAfter(b, i, how, td) ==
    IF how = "failed" /\ ~ Manifest[b].items[i].continueOnError THEN << >> ELSE td

\* What the worker that had it takes, 0 if it ends, and what that leaves.
NextItem(rest)  == IF rest = << >> THEN 0 ELSE Head(rest)
NextQueue(rest) == IF rest = << >> THEN rest ELSE Tail(rest)

HeldBy(b, wk)       == {wk[w] : w \in Worker(b)} \ {0}
EndedAs(b, oc, how) == {i \in Item(b) : oc[i] = how}

Progress == [completed : Int, failed : Int, running : Int, runIds : Seq(Nat)]

\* The counters.
CountInv(b, wk, cr, oc, pr) ==
    /\ pr \in Progress
    /\ pr.running = Cardinality(HeldBy(b, wk))
    /\ pr.completed = Cardinality(EndedAs(b, oc, "completed"))
    /\ pr.failed = Cardinality(EndedAs(b, oc, "failed"))
    /\ Len(pr.runIds) = Cardinality(cr)

-----------------------------------------------------------------------------
(* Items and workers.                                                      *)

LEMMA ManifestFacts ==
    ASSUME NEW b \in Batches
    PROVE  /\ Len(Manifest[b].items) \in Nat
           /\ Manifest[b].maxParallel \in Nat \ {0}
           /\ 1 \in Worker(b)
           /\ 0 \notin Item(b)
           /\ Item(b) \subseteq Nat
           /\ IsFiniteSet(Item(b)) /\ Cardinality(Item(b)) = Len(Manifest[b].items)
<1>1. Len(Manifest[b].items) \in Nat /\ Manifest[b].maxParallel \in Nat \ {0}
  BY ManifestAssumption
<1>2. 1 \in Worker(b) /\ 0 \notin Item(b) /\ \A i \in Item(b) : i \in Nat
  BY <1>1 DEF Worker, Item
<1>3. IsFiniteSet(Item(b)) /\ Cardinality(Item(b)) = Len(Manifest[b].items)
  <2>1. PICK n \in Nat : n = Len(Manifest[b].items)
    BY <1>1
  <2>2. 1 \in Int /\ n \in Int
    OBVIOUS
  <2>3. IsFiniteSet(1..n) /\ Cardinality(1..n) = IF 1 > n THEN 0 ELSE n - 1 + 1
    BY <2>2, FS_Interval
  <2> QED
    BY <2>1, <2>3 DEF Item
<1> QED
  BY <1>1, <1>2, <1>3

\* An item has ended: its worker takes the next one of `rest`, or ends.
LEMMA TakeKeeps ==
    ASSUME NEW b \in Batches, NEW ph, NEW td, NEW wk, NEW cr, NEW oc,
           ItemTypes(b, ph, td, wk, cr, oc), ItemsInv(b, ph, td, wk, cr, oc),
           NEW w \in Worker(b), NEW i \in Item(b), wk[w] = i,
           NEW how \in {"completed", "failed"},
           NEW rest, rest = RestAfter(b, i, how, td),
           NEW oc2, oc2 = [oc EXCEPT ![i] = how],
           NEW wk2, wk2 = [wk EXCEPT ![w] = NextItem(rest)]
    PROVE  /\ ItemTypes(b, ph, NextQueue(rest), wk2, cr, oc2)
           /\ ItemsInv(b, ph, NextQueue(rest), wk2, cr, oc2)
<1> DEFINE td2 == NextQueue(rest)
<1>1. /\ td \in Seq(Item(b)) /\ wk \in [Worker(b) -> {0} \cup Item(b)]
      /\ cr \in SUBSET Item(b) /\ oc \in [Item(b) -> Outcome]
      /\ ph \in {"new", "open", "returned"} /\ i # 0
  BY ManifestFacts DEF ItemTypes
<1>2. ph = "open"
  BY <1>1 DEF ItemsInv
<1>3. /\ \A k \in Item(b) : oc2[k] = IF k = i THEN how ELSE oc[k]
      /\ oc2 \in [Item(b) -> Outcome]
  BY <1>1 DEF Outcome
<1>4. oc[i] = "none"
  BY <1>1 DEF ItemsInv
<1>5. Stopped(b, oc2) <=> Stopped(b, oc) \/ (how = "failed" /\ ~ Manifest[b].items[i].continueOnError)
  BY <1>3, <1>4 DEF Stopped
<1> USE DEF RestAfter, NextQueue, NextItem
<1>6. CASE rest = << >>
  <2>1. /\ td2 = << >> /\ \A v \in Worker(b) : wk2[v] = IF v = w THEN 0 ELSE wk[v]
        /\ wk2 \in [Worker(b) -> {0} \cup Item(b)] /\ Len(td2) = 0 /\ td2 \in Seq(Item(b))
    BY <1>1, <1>6
  <2>2. ItemTypes(b, ph, td2, wk2, cr, oc2)
    BY <1>1, <1>3, <2>1 DEF ItemTypes
  <2>3. \A v, u \in Worker(b) : wk2[v] = wk2[u] => v = u \/ wk2[v] = 0
    BY <2>1 DEF ItemsInv
  <2>4. \A v \in Worker(b) : wk2[v] # 0 => oc2[wk2[v]] = "none"
    BY <1>1, <1>3, <2>1 DEF ItemsInv
  <2>5. ASSUME ~ Stopped(b, oc2), NEW k \in Item(b), oc2[k] = "none"
        PROVE  \E v \in Worker(b) : wk2[v] = k
    <3>1. td = << >> /\ ~ Stopped(b, oc)
      BY <1>5, <1>6, <2>5
    <3>2. k # i /\ oc[k] = "none"
      BY <1>3, <2>5
    <3>3. PICK v \in Worker(b) : wk[v] = k
      BY <1>2, <3>1, <3>2 DEF ItemsInv
    <3> QED
      BY <2>1, <3>2, <3>3
  <2>6. \A k \in 1..Len(td2) : FALSE
    BY <2>1
  <2> QED
    BY <1>2, <2>1, <2>2, <2>3, <2>4, <2>5, <2>6, Zenon DEF ItemsInv
<1>7. CASE rest # << >>
  <2>1. rest = td /\ ~ (how = "failed" /\ ~ Manifest[b].items[i].continueOnError)
    BY <1>7
  <2>2. /\ td2 = Tail(td) /\ Len(td) \in Nat \ {0} /\ Len(td2) = Len(td) - 1
        /\ td2 \in Seq(Item(b))
        /\ Head(td) = td[1] /\ td[1] \in Item(b)
        /\ \A k \in 1..Len(td2) : k + 1 \in 1..Len(td) /\ td2[k] = td[k + 1]
    BY <1>1, <1>7, <2>1
  <2>3. /\ \A v \in Worker(b) : wk2[v] = IF v = w THEN td[1] ELSE wk[v]
        /\ wk2 \in [Worker(b) -> {0} \cup Item(b)]
    BY <1>1, <1>7, <2>1, <2>2
  <2>4. ItemTypes(b, ph, td2, wk2, cr, oc2)
    BY <1>1, <1>3, <2>2, <2>3 DEF ItemTypes
  <2>5. 1 \in 1..Len(td) /\ \A v \in Worker(b) : wk[v] # 0 /\ wk[v] # td[1]
    BY <1>7, <2>1, <2>2 DEF ItemsInv
  <2>6. \A v, u \in Worker(b) : wk2[v] = wk2[u] => v = u \/ wk2[v] = 0
    BY <2>3, <2>5 DEF ItemsInv
  <2>7. \A j, k \in 1..Len(td2) : td2[j] = td2[k] => j = k
    <3>1. \A j, k \in 1..Len(td2) : td2[j] = td2[k] => j + 1 = k + 1
      BY <2>2 DEF ItemsInv
    <3> QED
      BY <2>2, <3>1
  <2>8. \A v \in Worker(b), k \in 1..Len(td2) : wk2[v] # td2[k]
    <3>1. \A k \in 1..Len(td2) : td2[k] # td[1]
      <4>1. \A k \in 1..Len(td2) : k + 1 # 1
        BY <2>2
      <4>2. \A k \in 1..Len(td) : td[k] = td[1] => k = 1
        BY <2>5 DEF ItemsInv
      <4> QED
        BY <2>2, <4>1, <4>2
    <3> QED
      BY <2>2, <2>3, <3>1 DEF ItemsInv
  <2>9. td[1] # i /\ \A k \in 1..Len(td2) : td2[k] # i
    BY <2>2, <2>5 DEF ItemsInv
  <2>10. \A v \in Worker(b) : wk2[v] # 0 => oc2[wk2[v]] = "none"
    BY <1>1, <1>3, <2>3, <2>5, <2>9 DEF ItemsInv
  <2>11. \A k \in 1..Len(td2) : oc2[td2[k]] = "none" /\ td2[k] \notin cr
    BY <1>1, <1>3, <2>2, <2>9 DEF ItemsInv
  <2>12. ~ Stopped(b, oc2)
    BY <1>5, <1>7, <2>1 DEF ItemsInv
  <2>13. ASSUME NEW k \in Item(b), oc2[k] = "none"
         PROVE  \/ \E v \in Worker(b) : wk2[v] = k
                \/ \E j \in 1..Len(td2) : td2[j] = k
    <3>1. k # i /\ oc[k] = "none" /\ ~ Stopped(b, oc)
      BY <1>3, <1>5, <2>12, <2>13
    <3>2. CASE \E v \in Worker(b) : wk[v] = k
      BY <2>3, <3>1, <3>2
    <3>3. ASSUME NEW j \in 1..Len(td), td[j] = k
          PROVE  \/ \E v \in Worker(b) : wk2[v] = k
                 \/ \E n \in 1..Len(td2) : td2[n] = k
      <4>1. CASE j = 1
        BY <2>3, <3>3, <4>1
      <4>2. CASE j # 1
        <5>1. j - 1 \in 1..Len(td2) /\ (j - 1) + 1 = j
          BY <2>2, <4>2
        <5> QED
          BY <2>2, <3>3, <5>1
      <4> QED
        BY <4>1, <4>2
    <3> QED
      BY <1>2, <3>1, <3>2, <3>3 DEF ItemsInv
  <2>14. \A v \in Worker(b) : wk2[v] # 0
    BY <2>2, <2>3, <2>5, ManifestFacts
  <2> QED
    BY <1>2, <2>4, <2>6, <2>7, <2>8, <2>10, <2>11, <2>12, <2>13, <2>14 DEF ItemsInv
<1> QED
  BY <1>6, <1>7

\* What the counters count when an item has ended.
LEMMA TakeCounts ==
    ASSUME NEW b \in Batches, NEW ph, NEW td, NEW wk, NEW cr, NEW oc,
           ItemTypes(b, ph, td, wk, cr, oc), ItemsInv(b, ph, td, wk, cr, oc),
           NEW w \in Worker(b), NEW i \in Item(b), wk[w] = i,
           NEW how \in {"completed", "failed"},
           NEW rest, rest = RestAfter(b, i, how, td),
           NEW wk2, wk2 = [wk EXCEPT ![w] = IF rest = << >> THEN 0 ELSE Head(rest)],
           NEW oc2, oc2 = [oc EXCEPT ![i] = how]
    PROVE  /\ Cardinality(HeldBy(b, wk)) \in Nat
           /\ Cardinality(HeldBy(b, wk2)) =
                IF rest = << >> THEN Cardinality(HeldBy(b, wk)) - 1 ELSE Cardinality(HeldBy(b, wk))
           /\ \A h \in {"completed", "failed"} :
                Cardinality(EndedAs(b, oc2, h)) =
                  IF h = how THEN Cardinality(EndedAs(b, oc, h)) + 1 ELSE Cardinality(EndedAs(b, oc, h))
<1> DEFINE H == HeldBy(b, wk)
           E(h) == EndedAs(b, oc, h)
<1>1. /\ td \in Seq(Item(b)) /\ wk \in [Worker(b) -> {0} \cup Item(b)]
      /\ oc \in [Item(b) -> Outcome] /\ i # 0
  BY ManifestFacts DEF ItemTypes
<1>2. oc[i] = "none"
  BY <1>1 DEF ItemsInv
<1>3. H \subseteq Item(b) /\ i \in H /\ \A v \in Worker(b) : wk[v] = i => v = w
  BY <1>1, ManifestFacts DEF HeldBy, ItemsInv
<1>4. IsFiniteSet(H) /\ Cardinality(H) \in Nat
  <2>1. H \in SUBSET Item(b) /\ IsFiniteSet(Item(b))
    BY <1>3, ManifestFacts
  <2> HIDE DEF H
  <2> QED
    BY <2>1, FS_Subset, FS_CardinalityType
<1>5. IsFiniteSet(H \ {i}) /\ Cardinality(H \ {i}) = Cardinality(H) - 1
  <2> HIDE DEF H
  <2> QED
    BY <1>3, <1>4, FS_RemoveElement
<1>6. ASSUME rest = << >>
      PROVE  Cardinality(HeldBy(b, wk2)) = Cardinality(H) - 1
  <2>1. \A v \in Worker(b) : wk2[v] = IF v = w THEN 0 ELSE wk[v]
    BY <1>1, <1>6
  <2>2. HeldBy(b, wk2) = H \ {i}
    BY <1>3, <2>1 DEF HeldBy
  <2> QED
    BY <1>5, <2>2
<1>7. ASSUME rest # << >>
      PROVE  Cardinality(HeldBy(b, wk2)) = Cardinality(H)
  <2>1. rest = td /\ Len(td) \in Nat \ {0} /\ Head(td) = td[1] /\ td[1] \in Item(b)
    BY <1>1, <1>7 DEF RestAfter
  <2>2. 1 \in 1..Len(td) /\ td[1] # 0
    BY <2>1, ManifestFacts
  <2>3. \A v \in Worker(b) : wk2[v] = IF v = w THEN td[1] ELSE wk[v]
    BY <1>1, <1>7, <2>1
  <2>4. \A v \in Worker(b) : wk[v] # td[1]
    BY <2>2 DEF ItemsInv
  <2>5. HeldBy(b, wk2) = (H \ {i}) \cup {td[1]} /\ td[1] \notin H
    BY <1>3, <2>2, <2>3, <2>4 DEF HeldBy
  <2>6. Cardinality((H \ {i}) \cup {td[1]}) = Cardinality(H \ {i}) + 1
    <3> HIDE DEF H
    <3> QED
      BY <1>5, <2>5, FS_AddElement
  <2>7. PICK c \in Nat : c = Cardinality(H)
    BY <1>4
  <2>8. Cardinality(HeldBy(b, wk2)) = (c - 1) + 1
    BY <1>5, <2>5, <2>6, <2>7, Zenon
  <2> QED
    BY <2>7, <2>8
<1>8. ASSUME NEW h \in {"completed", "failed"}
      PROVE  Cardinality(EndedAs(b, oc2, h)) =
                IF h = how THEN Cardinality(E(h)) + 1 ELSE Cardinality(E(h))
  <2>1. E(h) \in SUBSET Item(b) /\ i \notin E(h)
    BY <1>2 DEF EndedAs
  <2>2. EndedAs(b, oc2, h) = IF h = how THEN E(h) \cup {i} ELSE E(h)
    BY <1>1, <1>2 DEF EndedAs
  <2> HIDE DEF E
  <2>3. IsFiniteSet(E(h))
    BY <2>1, ManifestFacts, FS_Subset
  <2>4. Cardinality(E(h) \cup {i}) = Cardinality(E(h)) + 1
    BY <2>1, <2>3, FS_AddElement
  <2> QED
    BY <2>2, <2>4
<1> QED
  BY <1>4, <1>6, <1>7, <1>8

-----------------------------------------------------------------------------
(* The invariant.                                                          *)

BatchOK(b) ==
    /\ ItemTypes(b, phase[b], todo[b], worker[b], created[b], outcome[b])
    /\ ItemsInv(b, phase[b], todo[b], worker[b], created[b], outcome[b])
    /\ CountInv(b, worker[b], created[b], outcome[b], progress[b])

Domains ==
    /\ DOMAIN phase = Batches /\ DOMAIN todo = Batches /\ DOMAIN worker = Batches
    /\ DOMAIN created = Batches /\ DOMAIN progress = Batches /\ DOMAIN outcome = Batches

\* What getProgress shows.
ShownInv ==
    /\ shown \in [Ids -> SUBSET Batches]
    /\ \A d \in Ids :
         /\ \A b \in shown[d] : Manifest[b].id = d /\ phase[b] # "new"
         /\ shown[d] = {} => \A b \in Batches : Manifest[b].id = d => phase[b] = "new"

\* Run ids i and j of a batch were noted in this order.
Noted(ids, i, j) == \E x, y \in 1..Len(ids) : x < y /\ ids[x] = i /\ ids[y] = j

\* A pooled item is among the run ids of its batch, ids[b] for batch b.
Known(ids, x) == \E n \in 1..Len(ids[x[1]]) : ids[x[1]][n] = x[2]

\* A queue is sorted, and equal priorities of a batch are in the order of its run
\* ids; what is in the queue is among the run ids.
Ordered(q, ids) ==
    /\ \A m \in 1..Len(q) : Known(ids, q[m])
    /\ \A m, n \in 1..Len(q) :
         m < n => /\ ~ Pool!Before(q[n], q[m])
                  /\ q[m][1] = q[n][1] /\ ~ Pool!Before(q[m], q[n]) =>
                       Noted(ids[q[m][1]], q[m][2], q[n][2])

RunIds == [b \in Batches |-> progress[b].runIds]

PoolInv ==
    /\ running \in Nat /\ running <= Concurrency
    /\ queue \in Seq(PoolItems)
    /\ Ordered(queue, RunIds)

CoordinatorInv == Domains /\ ShownInv /\ \A b \in Batches : BatchOK(b)

LEMMA NothingHeld ==
    ASSUME NEW b \in Batches
    PROVE  CountInv(b, [w \in Worker(b) |-> 0], {}, [i \in Item(b) |-> "none"], NoProgress)
<1>1. HeldBy(b, [w \in Worker(b) |-> 0]) = {}
  BY DEF HeldBy
<1>2. \A how \in {"completed", "failed"} : EndedAs(b, [i \in Item(b) |-> "none"], how) = {}
  BY DEF EndedAs
<1> QED
  BY <1>1, <1>2, FS_EmptySet DEF CountInv, NoProgress, Progress

LEMMA CoordinatorInit == BatchInit => CoordinatorInv /\ PoolInv
<1> SUFFICES ASSUME BatchInit
             PROVE  CoordinatorInv /\ PoolInv
  OBVIOUS
<1>1. ASSUME NEW b \in Batches
      PROVE  BatchOK(b)
  <2>1. /\ phase[b] = "new" /\ todo[b] = << >> /\ worker[b] = [w \in Worker(b) |-> 0]
        /\ created[b] = {} /\ progress[b] = NoProgress
        /\ outcome[b] = [i \in Item(b) |-> "none"]
    BY DEF BatchInit
  <2>2. CountInv(b, worker[b], created[b], outcome[b], progress[b])
    BY <2>1, NothingHeld
  <2>3. ItemTypes(b, phase[b], todo[b], worker[b], created[b], outcome[b])
    BY <2>1 DEF ItemTypes, Outcome
  <2>4. ItemsInv(b, phase[b], todo[b], worker[b], created[b], outcome[b])
    BY <2>1 DEF ItemsInv, Stopped
  <2> QED
    BY <2>2, <2>3, <2>4 DEF BatchOK
<1>2. Domains /\ ShownInv
  BY DEF BatchInit, Domains, ShownInv
<1>3. PoolInv
  BY ManifestAssumption DEF BatchInit, Pool!PoolInit, PoolInv, Ordered
<1> QED
  BY <1>1, <1>2, <1>3 DEF CoordinatorInv

-----------------------------------------------------------------------------
(* One lemma per action: what it makes of the batch it is about.           *)

\* Batches that a step leaves alone.
LEMMA OthersStay ==
    ASSUME NEW c \in Batches, BatchOK(c),
           phase'[c] = phase[c], todo'[c] = todo[c], worker'[c] = worker[c],
           created'[c] = created[c], outcome'[c] = outcome[c], progress'[c] = progress[c]
    PROVE  BatchOK(c)'
  BY DEF BatchOK

\* The numbers k + 1, ..., n as the queue holds them.
LEMMA Remaining ==
    ASSUME NEW k \in Nat, NEW n \in Nat, k <= n, NEW td, td = [i \in 1..(n - k) |-> k + i]
    PROVE  /\ td \in Seq(1..n) /\ Len(td) = n - k
           /\ \A j \in 1..Len(td) : td[j] = k + j /\ td[j] > k
<1>1. PICK m \in Nat : m = n - k
  OBVIOUS
<1>2. td \in [1..m -> 1..n] /\ \A j \in 1..m : td[j] = k + j /\ td[j] > k
  BY <1>1
<1>3. td \in Seq(1..n)
  BY <1>2, SeqDef
<1>4. Len(td) = m
  BY <1>2, <1>3, LenProperties
<1> QED
  BY <1>1, <1>2, <1>3, <1>4

LEMMA ExecuteKeeps ==
    ASSUME CoordinatorInv, NEW b \in Batches, ExecuteBatch(b)
    PROVE  BatchOK(b)'
<1>1. PICK n \in Nat : n = Len(Manifest[b].items)
  BY ManifestFacts
<1>2. PICK p \in Nat \ {0} : p = Manifest[b].maxParallel
  BY ManifestFacts
<1>3. PICK k \in Nat : k = (IF n < p THEN n ELSE p) /\ k <= n /\ k <= p
  OBVIOUS
<1>4. /\ phase[b] = "new" /\ phase'[b] = "open"
      /\ todo'[b] = [i \in 1..(n - k) |-> k + i]
      /\ worker'[b] = [w \in Worker(b) |-> IF w <= k THEN w ELSE 0]
      /\ progress'[b] = [progress[b] EXCEPT !.running = k]
      /\ created' = created /\ outcome' = outcome
  BY <1>1, <1>2, <1>3 DEF ExecuteBatch, CoordinatorInv, Domains
<1>5. Item(b) = 1..n /\ Worker(b) = 1..p
  BY <1>1, <1>2 DEF Item, Worker
<1>6. /\ created[b] = {} /\ \A i \in Item(b) : outcome[b][i] = "none"
      /\ outcome[b] \in [Item(b) -> Outcome]
      /\ CountInv(b, worker[b], created[b], outcome[b], progress[b])
  BY <1>4 DEF CoordinatorInv, BatchOK, ItemsInv, ItemTypes
<1>7. /\ todo'[b] \in Seq(1..n) /\ Len(todo'[b]) = n - k
      /\ \A j \in 1..Len(todo'[b]) : todo'[b][j] = k + j /\ todo'[b][j] > k
  BY <1>3, <1>4, Remaining
<1>8. /\ worker'[b] \in [1..p -> 0..n]
      /\ \A w \in 1..p : worker'[b][w] = IF w <= k THEN w ELSE 0
  BY <1>3, <1>4, <1>5
<1>9. ItemTypes(b, phase[b], todo[b], worker[b], created[b], outcome[b])'
  <2>1. 0..n = {0} \cup 1..n
    OBVIOUS
  <2> QED
    BY <1>4, <1>5, <1>6, <1>7, <1>8, <2>1 DEF ItemTypes
<1>10. ItemsInv(b, phase[b], todo[b], worker[b], created[b], outcome[b])'
  <2> DEFINE td == todo'[b]
             wk == worker'[b]
  <2>1. \A v, w \in 1..p : wk[v] = wk[w] => v = w \/ wk[v] = 0
    BY <1>8
  <2>2. \A i, j \in 1..Len(td) : td[i] = td[j] => i = j
    BY <1>7
  <2>3. \A w \in 1..p, j \in 1..Len(td) : wk[w] # td[j]
    <3>1. \A w \in 1..p : wk[w] <= k
      BY <1>8
    <3>2. \A j \in 1..Len(td) : ~ (td[j] <= k)
      BY <1>7
    <3> QED
      BY <3>1, <3>2
  <2>4. \A w \in 1..p : wk[w] # 0 => wk[w] \in 1..n
    BY <1>8
  <2>5. \A j \in 1..Len(td) : td[j] \in 1..n
    BY <1>7
  <2>6. \A i \in 1..n : (\E w \in 1..p : wk[w] = i) \/ (\E j \in 1..Len(td) : td[j] = i)
    <3> SUFFICES ASSUME NEW i \in 1..n
                 PROVE  (\E w \in 1..p : wk[w] = i) \/ (\E j \in 1..Len(td) : td[j] = i)
      OBVIOUS
    <3>1. CASE i <= k
      BY <1>3, <1>8, <3>1
    <3>2. CASE i > k
      <4>1. i - k \in 1..Len(td) /\ k + (i - k) = i
        BY <1>7, <3>2
      <4> QED
        BY <1>7, <4>1
    <3> QED
      BY <3>1, <3>2
  <2>7. \A w \in 1..p : wk[w] = 0 => td = << >>
    <3> SUFFICES ASSUME NEW w \in 1..p, wk[w] = 0
                 PROVE  td = << >>
      OBVIOUS
    <3>1. w > k
      BY <1>8
    <3>2. k = n
      BY <1>3, <3>1
    <3>3. Len(td) = 0
      BY <1>7, <3>2
    <3> QED
      BY <1>7, <3>3, EmptySeq
  <2>8. ~ Stopped(b, outcome'[b])
    BY <1>4, <1>6 DEF Stopped
  <2> HIDE DEF td, wk
  <2>9. ItemsInv(b, "open", td, wk, {}, outcome[b])
    BY <1>4, <1>5, <1>6, <2>1, <2>2, <2>3, <2>4, <2>5, <2>6, <2>7, <2>8 DEF ItemsInv
  <2> QED
    BY <1>4, <1>6, <2>9 DEF td, wk
<1>11. CountInv(b, worker[b], created[b], outcome[b], progress[b])'
  <2>1. HeldBy(b, worker'[b]) = 1..k
    <3>1. \A w \in 1..p : worker'[b][w] \in 0..k /\ (w <= k => worker'[b][w] = w)
      BY <1>3, <1>8
    <3>2. \A i \in 1..k : i \in 1..p /\ i <= k /\ i # 0
      BY <1>3
    <3>3. 0..k = {0} \cup 1..k /\ 0 \notin 1..k
      OBVIOUS
    <3>4. HeldBy(b, worker'[b]) \subseteq 1..k
      BY <1>5, <3>1, <3>3 DEF HeldBy
    <3>5. ASSUME NEW i \in 1..k
          PROVE  i \in HeldBy(b, worker'[b])
      BY <1>5, <3>1, <3>2 DEF HeldBy
    <3> QED
      BY <3>4, <3>5
  <2>2. Cardinality(1..k) = k
    <3>1. 1 \in Int /\ k \in Int
      OBVIOUS
    <3>2. Cardinality(1..k) = IF 1 > k THEN 0 ELSE k - 1 + 1
      BY <3>1, FS_Interval
    <3> QED
      BY <3>2
  <2>3. k \in Int
    OBVIOUS
  <2> QED
    BY <1>4, <1>6, <2>1, <2>2, <2>3 DEF CountInv, Progress
<1> QED
  BY <1>9, <1>10, <1>11 DEF BatchOK

LEMMA CreatedKeeps ==
    ASSUME CoordinatorInv, NEW b \in Batches, NEW w \in Worker(b), RunCreated(b, w)
    PROVE  BatchOK(b)'
<1>1. PICK i : i = worker[b][w]
  OBVIOUS
<1>2. /\ i # 0 /\ i \notin created[b]
      /\ created'[b] = created[b] \cup {i}
      /\ progress'[b] = [progress[b] EXCEPT !.runIds = Append(@, i)]
      /\ phase' = phase /\ todo' = todo /\ worker' = worker /\ outcome' = outcome
  BY <1>1 DEF RunCreated, CoordinatorInv, Domains
<1>3. /\ ItemTypes(b, phase[b], todo[b], worker[b], created[b], outcome[b])
      /\ ItemsInv(b, phase[b], todo[b], worker[b], created[b], outcome[b])
      /\ CountInv(b, worker[b], created[b], outcome[b], progress[b])
  BY DEF CoordinatorInv, BatchOK
<1>4. i \in Item(b) /\ i \in Nat
  BY <1>1, <1>2, <1>3, ManifestFacts DEF ItemTypes
<1>5. ItemTypes(b, phase[b], todo[b], worker[b], created[b] \cup {i}, outcome[b])
  BY <1>3, <1>4 DEF ItemTypes
<1>6. ItemsInv(b, phase[b], todo[b], worker[b], created[b] \cup {i}, outcome[b])
  <2>1. \A k \in 1..Len(todo[b]) : todo[b][k] # i
    BY <1>1, <1>3 DEF ItemsInv
  <2>2. phase[b] # "new"
    BY <1>1, <1>2, <1>3 DEF ItemsInv
  <2> QED
    BY <1>3, <2>1, <2>2 DEF ItemsInv
<1>7. CountInv(b, worker[b], created[b] \cup {i}, outcome[b], progress'[b])
  <2>1. created[b] \in SUBSET Item(b) /\ IsFiniteSet(Item(b))
    BY <1>3, ManifestFacts DEF ItemTypes
  <2>2. IsFiniteSet(created[b])
    BY <2>1, FS_Subset
  <2>3. Cardinality(created[b] \cup {i}) = Cardinality(created[b]) + 1
    BY <1>2, <2>2, FS_AddElement
  <2>4. PICK pr : pr = progress[b]
    OBVIOUS
  <2>5. /\ pr \in Progress
        /\ progress'[b] = [pr EXCEPT !.runIds = Append(pr.runIds, i)]
    BY <1>2, <1>3, <2>4 DEF CountInv
  <2>6. Append(pr.runIds, i) \in Seq(Nat) /\ Len(Append(pr.runIds, i)) = Len(pr.runIds) + 1
    BY <1>4, <2>5, AppendProperties DEF Progress
  <2> QED
    BY <1>3, <2>3, <2>4, <2>5, <2>6 DEF CountInv, Progress
<1> QED
  BY <1>2, <1>5, <1>6, <1>7 DEF BatchOK


\* CountCompleted and CountFailed: what they make of the record pr of counters.
AfterCount(pr, how, rest, q) ==
    /\ q \in Progress
    /\ q.completed = IF how = "completed" THEN pr.completed + 1 ELSE pr.completed
    /\ q.failed = IF how = "failed" THEN pr.failed + 1 ELSE pr.failed
    /\ q.running = IF rest = << >> THEN pr.running - 1 ELSE pr.running
    /\ q.runIds = pr.runIds

\* What becomes of the record of counters.
LEMMA Counted ==
    ASSUME NEW pr \in Progress,
           NEW r \in Int
    PROVE  /\ \A q : q = [pr EXCEPT !.completed = pr.completed + 1, !.running = r] =>
                /\ q \in Progress
                /\ q.running = r /\ q.completed = pr.completed + 1
                /\ q.failed = pr.failed /\ q.runIds = pr.runIds
           /\ \A q : q = [pr EXCEPT !.failed = pr.failed + 1, !.running = r] =>
                /\ q \in Progress
                /\ q.running = r /\ q.failed = pr.failed + 1
                /\ q.completed = pr.completed /\ q.runIds = pr.runIds
<1>1. ASSUME NEW q \in Progress
      PROVE  /\ [q EXCEPT !.running = r] \in Progress
             /\ [q EXCEPT !.running = r].running = r
             /\ [q EXCEPT !.running = r].completed = q.completed
             /\ [q EXCEPT !.running = r].failed = q.failed
             /\ [q EXCEPT !.running = r].runIds = q.runIds
  BY DEF Progress
<1>2. PICK c : c = [pr EXCEPT !.completed = pr.completed + 1]
  OBVIOUS
<1>3. /\ c \in Progress /\ c.completed = pr.completed + 1 /\ c.failed = pr.failed
      /\ c.runIds = pr.runIds
  BY <1>2 DEF Progress
<1>4. PICK f : f = [pr EXCEPT !.failed = pr.failed + 1]
  OBVIOUS
<1>5. /\ f \in Progress /\ f.failed = pr.failed + 1 /\ f.completed = pr.completed
      /\ f.runIds = pr.runIds
  BY <1>4 DEF Progress
<1> QED
  BY <1>1, <1>2, <1>3, <1>4, <1>5, Zenon

LEMMA CountedOnce ==
    ASSUME NEW b \in Batches, DOMAIN progress = Batches, progress[b] \in Progress, NEW rest
    PROVE  /\ CountCompleted(b, rest) => AfterCount(progress[b], "completed", rest, progress'[b])
           /\ CountFailed(b, rest) => AfterCount(progress[b], "failed", rest, progress'[b])
<1>1. PICK pr \in Progress : pr = progress[b]
  OBVIOUS
<1>2. PICK r \in Int : r = (IF rest = << >> THEN pr.running - 1 ELSE pr.running)
  BY DEF Progress
<1>3. ASSUME CountCompleted(b, rest)
      PROVE  progress'[b] = [pr EXCEPT !.completed = pr.completed + 1, !.running = r]
  BY <1>1, <1>2, <1>3, Zenon DEF CountCompleted
<1>4. ASSUME CountFailed(b, rest)
      PROVE  progress'[b] = [pr EXCEPT !.failed = pr.failed + 1, !.running = r]
  BY <1>1, <1>2, <1>4, Zenon DEF CountFailed
<1>5. PICK q : q = progress'[b]
  OBVIOUS
<1>6. ASSUME CountCompleted(b, rest)
      PROVE  AfterCount(pr, "completed", rest, q)
  <2>1. /\ q \in Progress
        /\ q.running = r /\ q.completed = pr.completed + 1
        /\ q.failed = pr.failed /\ q.runIds = pr.runIds
    <3>1. q = [pr EXCEPT !.completed = pr.completed + 1, !.running = r]
      BY <1>3, <1>5, <1>6, Zenon
    <3>2. \A z : z = [pr EXCEPT !.completed = pr.completed + 1, !.running = r] =>
            /\ z \in Progress
            /\ z.running = r /\ z.completed = pr.completed + 1
            /\ z.failed = pr.failed /\ z.runIds = pr.runIds
      BY Counted, Zenon
    <3> QED
      BY <3>1, <3>2, Zenon
  <2> QED
    BY <1>2, <2>1 DEF AfterCount
<1>7. ASSUME CountFailed(b, rest)
      PROVE  AfterCount(pr, "failed", rest, q)
  <2>1. /\ q \in Progress
        /\ q.running = r /\ q.failed = pr.failed + 1
        /\ q.completed = pr.completed /\ q.runIds = pr.runIds
    <3>1. q = [pr EXCEPT !.failed = pr.failed + 1, !.running = r]
      BY <1>4, <1>5, <1>7, Zenon
    <3>2. \A z : z = [pr EXCEPT !.failed = pr.failed + 1, !.running = r] =>
            /\ z \in Progress
            /\ z.running = r /\ z.failed = pr.failed + 1
            /\ z.completed = pr.completed /\ z.runIds = pr.runIds
      BY Counted, Zenon
    <3> QED
      BY <3>1, <3>2, Zenon
  <2> QED
    BY <1>2, <2>1 DEF AfterCount
<1> QED
  BY <1>1, <1>5, <1>6, <1>7, Zenon

\* An item ends as `how`, and the counters are moved as CountCompleted or CountFailed does.
LEMMA EndKeeps ==
    ASSUME CoordinatorInv, NEW b \in Batches, NEW w \in Worker(b),
           NEW i, i = worker[b][w], i # 0,
           NEW how \in {"completed", "failed"},
           NEW rest, rest = RestAfter(b, i, how, todo[b]),
           NEW pr, pr = progress[b],
           outcome' = [outcome EXCEPT ![b][i] = how],
           Take(b, w, rest),
           AfterCount(pr, how, rest, progress'[b]),
           phase' = phase, created' = created
    PROVE  BatchOK(b)'
<1>1. /\ ItemTypes(b, phase[b], todo[b], worker[b], created[b], outcome[b])
      /\ ItemsInv(b, phase[b], todo[b], worker[b], created[b], outcome[b])
      /\ CountInv(b, worker[b], created[b], outcome[b], progress[b])
  BY DEF CoordinatorInv, BatchOK
<1>2. i \in Item(b)
  BY <1>1 DEF ItemTypes
<1>3. /\ todo'[b] = (IF rest = << >> THEN rest ELSE Tail(rest))
      /\ worker'[b] = [worker[b] EXCEPT ![w] = IF rest = << >> THEN 0 ELSE Head(rest)]
      /\ outcome'[b] = [outcome[b] EXCEPT ![i] = how]
  BY DEF Take, CoordinatorInv, Domains
<1>4. /\ ItemTypes(b, phase[b], todo'[b], worker'[b], created[b], outcome'[b])
      /\ ItemsInv(b, phase[b], todo'[b], worker'[b], created[b], outcome'[b])
  <2>1. PICK td2, wk2, oc2 : td2 = todo'[b] /\ wk2 = worker'[b] /\ oc2 = outcome'[b]
    OBVIOUS
  <2>2. PICK ph, td, wk, cr, oc : /\ ph = phase[b] /\ td = todo[b] /\ wk = worker[b]
                                  /\ cr = created[b] /\ oc = outcome[b]
    OBVIOUS
  <2>3. ItemTypes(b, ph, td2, wk2, cr, oc2) /\ ItemsInv(b, ph, td2, wk2, cr, oc2)
    <3>1. /\ ItemTypes(b, ph, td, wk, cr, oc) /\ ItemsInv(b, ph, td, wk, cr, oc)
          /\ wk[w] = i /\ rest = RestAfter(b, i, how, td)
          /\ td2 = NextQueue(rest)
          /\ wk2 = [wk EXCEPT ![w] = NextItem(rest)]
          /\ oc2 = [oc EXCEPT ![i] = how]
      BY <1>1, <1>3, <2>1, <2>2 DEF NextQueue, NextItem
    <3>2. /\ ItemTypes(b, ph, NextQueue(rest), wk2, cr, oc2)
          /\ ItemsInv(b, ph, NextQueue(rest), wk2, cr, oc2)
      BY <1>2, <3>1, TakeKeeps
    <3> QED
      BY <3>1, <3>2
  <2> QED
    BY <2>1, <2>2, <2>3
<1>5. /\ Cardinality(HeldBy(b, worker[b])) \in Nat
      /\ Cardinality(HeldBy(b, worker'[b])) =
           IF rest = << >> THEN Cardinality(HeldBy(b, worker[b])) - 1
                           ELSE Cardinality(HeldBy(b, worker[b]))
      /\ \A h \in {"completed", "failed"} :
           Cardinality(EndedAs(b, outcome'[b], h)) =
             IF h = how THEN Cardinality(EndedAs(b, outcome[b], h)) + 1
                        ELSE Cardinality(EndedAs(b, outcome[b], h))
  BY <1>1, <1>2, <1>3, TakeCounts
<1>6. /\ pr \in Progress
      /\ pr.running = Cardinality(HeldBy(b, worker[b]))
      /\ pr.completed = Cardinality(EndedAs(b, outcome[b], "completed"))
      /\ pr.failed = Cardinality(EndedAs(b, outcome[b], "failed"))
      /\ Len(pr.runIds) = Cardinality(created[b])
  BY <1>1 DEF CountInv
<1>7. CountInv(b, worker'[b], created[b], outcome'[b], progress'[b])
  <2>1. /\ progress'[b] \in Progress
        /\ progress'[b].running = Cardinality(HeldBy(b, worker'[b]))
        /\ progress'[b].runIds = pr.runIds
    BY <1>5, <1>6 DEF AfterCount
  <2>2. /\ progress'[b].completed = Cardinality(EndedAs(b, outcome'[b], "completed"))
        /\ progress'[b].failed = Cardinality(EndedAs(b, outcome'[b], "failed"))
    BY <1>5, <1>6 DEF AfterCount
  <2> QED
    BY <1>6, <2>1, <2>2 DEF CountInv
<1> QED
  BY <1>4, <1>7 DEF BatchOK

LEMMA CompletedKeeps ==
    ASSUME CoordinatorInv, NEW b \in Batches, NEW w \in Worker(b), ItemCompleted(b, w)
    PROVE  BatchOK(b)'
<1>1. PICK i, rest, pr : i = worker[b][w] /\ rest = todo[b] /\ pr = progress[b]
  OBVIOUS
<1>2. /\ i \in created[b] /\ outcome' = [outcome EXCEPT ![b][i] = "completed"]
      /\ CountCompleted(b, rest) /\ Take(b, w, rest) /\ phase' = phase /\ created' = created
  BY <1>1, Zenon DEF ItemCompleted
<1>3. created[b] \in SUBSET Item(b) /\ pr \in Progress /\ DOMAIN progress = Batches
  BY <1>1 DEF CoordinatorInv, BatchOK, ItemTypes, CountInv, Domains
<1>4. i # 0
  BY <1>2, <1>3, ManifestFacts
<1>5. rest = RestAfter(b, i, "completed", todo[b])
  BY <1>1 DEF RestAfter
<1>6. AfterCount(pr, "completed", rest, progress'[b])
  BY <1>1, <1>2, <1>3, CountedOnce, Zenon
<1>7. "completed" \in {"completed", "failed"}
  OBVIOUS
<1> QED
  BY <1>1, <1>2, <1>4, <1>5, <1>6, <1>7, EndKeeps, Zenon

LEMMA FailedKeeps ==
    ASSUME CoordinatorInv, NEW b \in Batches, NEW w \in Worker(b), ItemFailed(b, w)
    PROVE  BatchOK(b)'
<1>1. PICK i, rest, pr : i = worker[b][w] /\ rest = RestAfterFailure(b, i) /\ pr = progress[b]
  OBVIOUS
<1>2. /\ i # 0 /\ outcome' = [outcome EXCEPT ![b][i] = "failed"]
      /\ CountFailed(b, rest) /\ Take(b, w, rest) /\ phase' = phase /\ created' = created
  BY <1>1, Zenon DEF ItemFailed
<1>3. pr \in Progress /\ DOMAIN progress = Batches
  BY <1>1 DEF CoordinatorInv, BatchOK, CountInv, Domains
<1>5. rest = RestAfter(b, i, "failed", todo[b])
  BY <1>1 DEF RestAfter, RestAfterFailure
<1>6. AfterCount(pr, "failed", rest, progress'[b])
  BY <1>1, <1>2, <1>3, CountedOnce, Zenon
<1>7. "failed" \in {"completed", "failed"}
  OBVIOUS
<1> QED
  BY <1>1, <1>2, <1>5, <1>6, <1>7, EndKeeps, Zenon

LEMMA ReturnKeeps ==
    ASSUME CoordinatorInv, NEW b \in Batches, ReturnBatch(b)
    PROVE  BatchOK(b)'
<1>1. /\ phase[b] = "open" /\ phase'[b] = "returned" /\ \A w \in Worker(b) : worker[b][w] = 0
      /\ todo' = todo /\ worker' = worker /\ created' = created /\ progress' = progress
      /\ outcome' = outcome
  BY DEF ReturnBatch, CoordinatorInv, Domains
<1>2. BatchOK(b)
  BY DEF CoordinatorInv
<1>3. ItemTypes(b, phase'[b], todo[b], worker[b], created[b], outcome[b])
  BY <1>1, <1>2 DEF BatchOK, ItemTypes
<1>4. ItemsInv(b, phase'[b], todo[b], worker[b], created[b], outcome[b])
  BY <1>1, <1>2 DEF BatchOK, ItemsInv
<1> QED
  BY <1>1, <1>2, <1>3, <1>4 DEF BatchOK

StaysAsIs(c) ==
    /\ phase'[c] = phase[c] /\ todo'[c] = todo[c] /\ worker'[c] = worker[c]
    /\ created'[c] = created[c] /\ outcome'[c] = outcome[c] /\ progress'[c] = progress[c]

\* The actions leave the other batches alone.
LEMMA OneBatchMoves ==
    ASSUME CoordinatorInv, NEW b \in Batches, NEW c \in Batches \ {b},
           ExecuteBatch(b) \/ WorkerStep(b) \/ ReturnBatch(b)
    PROVE  StaysAsIs(c) /\ BatchOK(c)'
<1>1. StaysAsIs(c)
  <2>1. CASE ExecuteBatch(b)
    BY <2>1 DEF ExecuteBatch, CoordinatorInv, Domains, StaysAsIs
  <2>2. ASSUME NEW w \in Worker(b), RunCreated(b, w)
        PROVE  StaysAsIs(c)
    BY <2>2 DEF RunCreated, CoordinatorInv, Domains, StaysAsIs
  <2>3. ASSUME NEW w \in Worker(b), ItemCompleted(b, w)
        PROVE  StaysAsIs(c)
    BY <2>3 DEF ItemCompleted, CountCompleted, Take, CoordinatorInv, Domains, StaysAsIs
  <2>4. ASSUME NEW w \in Worker(b), ItemFailed(b, w)
        PROVE  StaysAsIs(c)
    BY <2>4 DEF ItemFailed, CountFailed, Take, CoordinatorInv, Domains, StaysAsIs
  <2>5. CASE ReturnBatch(b)
    BY <2>5 DEF ReturnBatch, CoordinatorInv, Domains, StaysAsIs
  <2> QED
    BY <2>1, <2>2, <2>3, <2>4, <2>5 DEF WorkerStep
<1>2. BatchOK(c)
  BY DEF CoordinatorInv
<1> QED
  BY <1>1, <1>2, OthersStay DEF StaysAsIs

\* Once started, a batch is never new again, so what is shown stays true.
LEMMA ShownStays ==
    ASSUME ShownInv, shown' = shown,
           \A c \in Batches : phase'[c] = "new" <=> phase[c] = "new"
    PROVE  ShownInv'
<1>1. \A d \in Ids : shown[d] \in SUBSET Batches
  BY DEF ShownInv
<1> QED
  BY <1>1 DEF ShownInv, Ids

LEMMA CoordinatorStep == CoordinatorInv /\ [BatchNext]_batchVars => CoordinatorInv'
<1> SUFFICES ASSUME CoordinatorInv, [BatchNext]_batchVars
             PROVE  CoordinatorInv'
  OBVIOUS
<1>1. ASSUME NEW b \in Batches, ExecuteBatch(b)
      PROVE  CoordinatorInv'
  <2>1. \A c \in Batches : BatchOK(c)'
    BY <1>1, ExecuteKeeps, OneBatchMoves
  <2>2. Domains'
    BY <1>1 DEF ExecuteBatch, CoordinatorInv, Domains
  <2>3. ShownInv'
    <3>1. /\ shown' = [shown EXCEPT ![Manifest[b].id] = {b}]
          /\ phase' = [phase EXCEPT ![b] = "open"]
          /\ Manifest[b].id \in Ids
      BY <1>1 DEF ExecuteBatch, Ids
    <3>2. /\ shown' \in [Ids -> SUBSET Batches]
          /\ \A d \in Ids : shown'[d] = IF d = Manifest[b].id THEN {b} ELSE shown[d]
          /\ \A c \in Batches : phase'[c] = IF c = b THEN "open" ELSE phase[c]
      BY <3>1 DEF CoordinatorInv, ShownInv, Domains
    <3>3. \A d \in Ids : shown[d] \in SUBSET Batches
      BY DEF CoordinatorInv, ShownInv
    <3>4. ASSUME NEW d \in Ids
          PROVE  /\ \A c \in shown'[d] : Manifest[c].id = d /\ phase'[c] # "new"
                 /\ shown'[d] = {} => \A c \in Batches : Manifest[c].id = d => phase'[c] = "new"
      BY <3>2, <3>3 DEF CoordinatorInv, ShownInv
    <3> QED
      BY <3>2, <3>4 DEF ShownInv, Ids
  <2> QED
    BY <2>1, <2>2, <2>3 DEF CoordinatorInv
<1>2. ASSUME NEW b \in Batches, NEW w \in Worker(b),
             RunCreated(b, w) \/ ItemCompleted(b, w) \/ ItemFailed(b, w)
      PROVE  CoordinatorInv'
  <2>1. \A c \in Batches : BatchOK(c)'
    <3>1. BatchOK(b)'
      BY <1>2, CreatedKeeps, CompletedKeeps, FailedKeeps
    <3>2. WorkerStep(b)
      BY <1>2 DEF WorkerStep
    <3> QED
      BY <3>1, <3>2, OneBatchMoves
  <2>2. Domains' /\ phase' = phase /\ shown' = shown
    <3>1. CASE RunCreated(b, w)
      BY <3>1 DEF RunCreated, CoordinatorInv, Domains
    <3>2. CASE ItemCompleted(b, w)
      BY <3>2 DEF ItemCompleted, CountCompleted, Take, CoordinatorInv, Domains
    <3>3. CASE ItemFailed(b, w)
      BY <3>3 DEF ItemFailed, CountFailed, Take, CoordinatorInv, Domains
    <3> QED
      BY <1>2, <3>1, <3>2, <3>3
  <2> QED
    BY <2>1, <2>2, ShownStays DEF CoordinatorInv
<1>3. ASSUME NEW b \in Batches, ReturnBatch(b)
      PROVE  CoordinatorInv'
  <2>1. \A c \in Batches : BatchOK(c)'
    BY <1>3, ReturnKeeps, OneBatchMoves
  <2>2. Domains' /\ shown' = shown /\ \A c \in Batches : phase'[c] = "new" <=> phase[c] = "new"
    BY <1>3 DEF ReturnBatch, CoordinatorInv, Domains
  <2> QED
    BY <2>1, <2>2, ShownStays DEF CoordinatorInv
<1>4. CASE PoolStep \/ UNCHANGED batchVars
  <2>1. /\ phase' = phase /\ todo' = todo /\ worker' = worker /\ created' = created
        /\ progress' = progress /\ shown' = shown /\ outcome' = outcome
    BY <1>4 DEF PoolStep, batchVars
  <2>2. \A c \in Batches : BatchOK(c)'
    BY <2>1, OthersStay DEF CoordinatorInv
  <2> QED
    BY <2>1, <2>2, ShownStays DEF CoordinatorInv, Domains
<1> QED
  BY <1>1, <1>2, <1>3, <1>4 DEF BatchNext, WorkerStep

-----------------------------------------------------------------------------
(* The worker pool.                                                        *)

\* Only createRun adds to the run ids.
LEMMA RunIdsStay ==
    ASSUME CoordinatorInv, NEW b \in Batches,
           \/ ExecuteBatch(b)
           \/ \E w \in Worker(b) : ItemCompleted(b, w) \/ ItemFailed(b, w)
           \/ ReturnBatch(b)
    PROVE  /\ queue' = queue /\ running' = running
           /\ \A c \in Batches : progress'[c].runIds = progress[c].runIds
<1>1. DOMAIN progress = Batches /\ progress[b] \in Progress
  BY DEF CoordinatorInv, Domains, BatchOK, CountInv
<1>2. queue' = queue /\ running' = running
  BY DEF ExecuteBatch, ItemCompleted, ItemFailed, ReturnBatch
<1>3. progress'[b].runIds = progress[b].runIds
  <2>1. CASE ExecuteBatch(b)
    <3>1. PICK k : progress' = [progress EXCEPT ![b].running = k]
      BY <2>1 DEF ExecuteBatch
    <3>2. PICK pr \in Progress : pr = progress[b]
      BY <1>1
    <3>3. progress'[b] = [pr EXCEPT !.running = k]
      BY <1>1, <3>1, <3>2
    <3> QED
      BY <3>2, <3>3 DEF Progress
  <2>2. ASSUME NEW w \in Worker(b), ItemCompleted(b, w)
        PROVE  progress'[b].runIds = progress[b].runIds
    <3>1. CountCompleted(b, todo[b])
      BY <2>2, Zenon DEF ItemCompleted
    <3> QED
      BY <1>1, <3>1, CountedOnce DEF AfterCount
  <2>3. ASSUME NEW w \in Worker(b), ItemFailed(b, w)
        PROVE  progress'[b].runIds = progress[b].runIds
    <3>1. CountFailed(b, RestAfterFailure(b, worker[b][w]))
      BY <2>3, Zenon DEF ItemFailed
    <3> QED
      BY <1>1, <3>1, CountedOnce DEF AfterCount
  <2>4. CASE ReturnBatch(b)
    BY <2>4 DEF ReturnBatch
  <2> QED
    BY <2>1, <2>2, <2>3, <2>4
<1>4. ExecuteBatch(b) \/ WorkerStep(b) \/ ReturnBatch(b)
  BY DEF WorkerStep
<1> QED
  BY <1>2, <1>3, <1>4, OneBatchMoves DEF StaysAsIs

LEMMA PoolItemsAre ==
    ASSUME NEW x \in PoolItems
    PROVE  x[1] \in Batches /\ x[2] \in Item(x[1]) /\ Manifest[x[1]].items[x[2]].priority \in Nat
<1>1. PICK b \in Batches : x \in {b} \X Item(b)
  BY DEF PoolItems
<1>2. x[1] = b /\ x[2] \in Item(b)
  BY <1>1
<1>3. /\ Manifest[b].items \in Seq([priority : Nat, continueOnError : BOOLEAN])
      /\ x[2] \in 1..Len(Manifest[b].items)
  BY <1>2, ManifestAssumption DEF Item
<1>4. Manifest[b].items[x[2]] \in [priority : Nat, continueOnError : BOOLEAN]
  BY <1>3, ElementOfSeq
<1> QED
  BY <1>2, <1>4

PriorityOf(x) == Manifest[x[1]].items[x[2]].priority

LEMMA BeforeIs ==
    ASSUME NEW x \in PoolItems, NEW y \in PoolItems
    PROVE  /\ Pool!Before(x, y) <=> PriorityOf(x) > PriorityOf(y)
           /\ PriorityOf(x) \in Nat /\ PriorityOf(y) \in Nat
<1>1. PriorityOf(x) \in Nat /\ PriorityOf(y) \in Nat
  BY PoolItemsAre DEF PriorityOf
<1>2. /\ [z \in PoolItems |-> PriorityOf(z)][x] = PriorityOf(x)
      /\ [z \in PoolItems |-> PriorityOf(z)][y] = PriorityOf(y)
  OBVIOUS
<1> QED
  BY <1>1, <1>2 DEF Pool!Before, PriorityOf

\* Run ids are only ever appended.
LEMMA NotedStays ==
    ASSUME NEW ids \in Seq(Nat), NEW i \in Nat
    PROVE  /\ \A x \in 1..Len(ids) : x \in 1..Len(Append(ids, i)) /\ Append(ids, i)[x] = ids[x]
           /\ Len(ids) + 1 \in 1..Len(Append(ids, i)) /\ Append(ids, i)[Len(ids) + 1] = i
           /\ \A u, v : Noted(ids, u, v) => Noted(Append(ids, i), u, v)
<1>1. /\ Len(Append(ids, i)) = Len(ids) + 1 /\ Len(ids) \in Nat
      /\ \A x \in 1..Len(ids) : Append(ids, i)[x] = ids[x]
      /\ Append(ids, i)[Len(ids) + 1] = i
  BY AppendProperties, LenProperties
<1>2. /\ \A x \in 1..Len(ids) : x \in 1..(Len(ids) + 1)
      /\ Len(ids) + 1 \in 1..(Len(ids) + 1)
  BY <1>1
<1> QED
  BY <1>1, <1>2 DEF Noted

LEMMA FunctionIsSeq ==
    ASSUME NEW S, NEW N \in Nat, NEW f \in [1..N -> S]
    PROVE  f \in Seq(S) /\ Len(f) = N
<1>1. f \in Seq(S)
  BY SeqDef
<1> QED
  BY <1>1, LenProperties

\* The queue with the new item behind, not yet sorted.
Appended(q, b, i, s) ==
    /\ s \in Seq(PoolItems) /\ DOMAIN s = 1..(Len(q) + 1)
    /\ \A k \in 1..Len(q) : s[k] = q[k]
    /\ s[Len(q) + 1][1] = b /\ s[Len(q) + 1][2] = i

\* ids2 are the run ids after i has been noted for batch b.
NotedAlso(ids, ids2, b, i) ==
    \A c \in Batches : ids2[c] = IF c = b THEN Append(ids[b], i) ELSE ids[c]

LEMMA AppendedKnown ==
    ASSUME NEW q \in Seq(PoolItems), NEW ids, Ordered(q, ids),
           NEW b \in Batches, NEW i \in Nat, ids[b] \in Seq(Nat),
           NEW ids2, NotedAlso(ids, ids2, b, i),
           NEW s, Appended(q, b, i, s),
           NEW k \in 1..(Len(q) + 1)
    PROVE  Known(ids2, s[k])
<1>1. PICK l \in Nat : l = Len(q)
  BY LenProperties
<1>2. CASE k = l + 1
  <2>1. s[k][1] = b /\ s[k][2] = i /\ ids2[b] = Append(ids[b], i)
    BY <1>1, <1>2 DEF Appended, NotedAlso
  <2>2. Len(ids[b]) + 1 \in 1..Len(Append(ids[b], i)) /\ Append(ids[b], i)[Len(ids[b]) + 1] = i
    BY NotedStays
  <2> QED
    BY <2>1, <2>2, Zenon DEF Known
<1>3. CASE k # l + 1
  <2>1. k \in 1..l
    BY <1>1, <1>3
  <2>2. s[k] = q[k] /\ q[k] \in PoolItems
    BY <1>1, <2>1, ElementOfSeq DEF Appended
  <2>3. q[k][1] \in Batches
    BY <2>2, PoolItemsAre
  <2>4. PICK c \in Batches : c = q[k][1]
    BY <2>3
  <2>5. PICK x \in 1..Len(ids[c]) : ids[c][x] = q[k][2]
    BY <1>1, <2>1, <2>4, Zenon DEF Ordered, Known
  <2>6. CASE c = b
    <3>1. ids2[b] = Append(ids[b], i)
      BY DEF NotedAlso
    <3>2. x \in 1..Len(Append(ids[b], i)) /\ Append(ids[b], i)[x] = ids[b][x]
      BY <2>5, <2>6, NotedStays
    <3> QED
      BY <2>2, <2>4, <2>5, <2>6, <3>1, <3>2, Zenon DEF Known
  <2>7. CASE c # b
    <3>1. ids2[c] = ids[c]
      BY <2>7 DEF NotedAlso
    <3> QED
      BY <2>2, <2>4, <2>5, <3>1, Zenon DEF Known
  <2> QED
    BY <2>6, <2>7
<1> QED
  BY <1>2, <1>3

LEMMA AppendedOrdered ==
    ASSUME NEW q \in Seq(PoolItems), NEW ids, Ordered(q, ids),
           NEW b \in Batches, NEW i \in Nat, ids[b] \in Seq(Nat),
           NEW ids2, NotedAlso(ids, ids2, b, i),
           NEW s, Appended(q, b, i, s),
           NEW m \in 1..(Len(q) + 1), NEW n \in 1..(Len(q) + 1), m < n,
           s[m][1] = s[n][1], ~ Pool!Before(s[m], s[n])
    PROVE  Noted(ids2[s[m][1]], s[m][2], s[n][2])
<1>1. PICK l \in Nat : l = Len(q)
  BY LenProperties
<1>2. m \in 1..l
  BY <1>1
<1>3. s[m] = q[m] /\ q[m] \in PoolItems
  BY <1>1, <1>2, ElementOfSeq DEF Appended
<1>4. PICK c \in Batches : c = q[m][1]
  BY <1>3, PoolItemsAre
<1>5. ids2[b] = Append(ids[b], i) /\ (c # b => ids2[c] = ids[c])
  BY DEF NotedAlso
<1>6. CASE n = l + 1
  <2>1. s[n][1] = b /\ s[n][2] = i /\ c = b
    BY <1>1, <1>3, <1>4, <1>6 DEF Appended
  <2>2. PICK x \in 1..Len(ids[b]) : ids[b][x] = q[m][2]
    BY <1>1, <1>2, <1>4, <2>1, Zenon DEF Ordered, Known
  <2>3. PICK y \in Nat : y = Len(ids[b])
    BY LenProperties
  <2>4. x < y + 1
    BY <2>3
  <2>5. /\ x \in 1..Len(Append(ids[b], i)) /\ Append(ids[b], i)[x] = q[m][2]
        /\ y + 1 \in 1..Len(Append(ids[b], i)) /\ Append(ids[b], i)[y + 1] = i
    BY <2>2, <2>3, NotedStays
  <2>6. Noted(Append(ids[b], i), q[m][2], i)
    BY <2>4, <2>5, Zenon DEF Noted
  <2> QED
    BY <1>3, <1>4, <1>5, <2>1, <2>6
<1>7. CASE n # l + 1
  <2>1. n \in 1..l
    BY <1>1, <1>7
  <2>2. s[n] = q[n]
    BY <1>1, <2>1 DEF Appended
  <2>3. Noted(ids[c], q[m][2], q[n][2])
    BY <1>1, <1>2, <1>3, <1>4, <2>1, <2>2, Zenon DEF Ordered
  <2>4. CASE c = b
    <3>1. Noted(Append(ids[b], i), q[m][2], q[n][2])
      BY <2>3, <2>4, NotedStays
    <3> QED
      BY <1>3, <1>4, <1>5, <2>2, <2>4, <3>1
  <2>5. CASE c # b
    BY <1>3, <1>4, <1>5, <2>2, <2>3, <2>5
  <2> QED
    BY <2>4, <2>5
<1> QED
  BY <1>6, <1>7

\* q2 is s, sorted as the pool sorts.
SortedInto(s, q2) ==
    \E p \in [DOMAIN s -> DOMAIN s] :
        Pool!SortsStably(p, s) /\ q2 = [k \in DOMAIN s |-> s[p[k]]]

\* Enqueueing keeps the order: the new item goes behind those of its priority.
LEMMA SortedKeeps ==
    ASSUME NEW q \in Seq(PoolItems), NEW ids, Ordered(q, ids),
           NEW b \in Batches, NEW i \in Nat, ids[b] \in Seq(Nat),
           NEW ids2, NotedAlso(ids, ids2, b, i),
           NEW s, Appended(q, b, i, s),
           NEW q2, SortedInto(s, q2)
    PROVE  q2 \in Seq(PoolItems) /\ Ordered(q2, ids2)
<1>0. PICK p \in [DOMAIN s -> DOMAIN s] :
         Pool!SortsStably(p, s) /\ q2 = [k \in DOMAIN s |-> s[p[k]]]
  BY Zenon DEF SortedInto
<1>1. PICK N \in Nat : N = Len(q) + 1
  BY LenProperties
<1>2. DOMAIN s = 1..N /\ s \in Seq(PoolItems)
  BY <1>1 DEF Appended
<1>3. \A k \in 1..N : s[k] \in PoolItems
  <2>1. Len(s) \in Nat /\ DOMAIN s = 1..Len(s)
    BY <1>2, LenProperties
  <2> QED
    BY <1>2, <2>1, ElementOfSeq
<1>4. \A k \in 1..N : p[k] \in 1..N /\ q2[k] = s[p[k]]
  BY <1>0, <1>2
<1>5. \A k \in 1..N : q2[k] \in PoolItems
  BY <1>3, <1>4
<1>6. q2 \in [1..N -> PoolItems]
  BY <1>0, <1>2, <1>5
<1>7. q2 \in Seq(PoolItems) /\ Len(q2) = N
  BY <1>6, FunctionIsSeq
<1>8. ASSUME NEW m \in 1..N, NEW n \in 1..N, m < n
      PROVE  /\ ~ Pool!Before(q2[n], q2[m])
             /\ q2[m][1] = q2[n][1] /\ ~ Pool!Before(q2[m], q2[n]) =>
                  Noted(ids2[q2[m][1]], q2[m][2], q2[n][2])
  <2>1. \/ Pool!Before(q2[m], q2[n])
        \/ ~ Pool!Before(q2[n], q2[m]) /\ p[m] < p[n]
    BY <1>0, <1>2, <1>4, <1>8, Zenon DEF Pool!SortsStably
  <2>2. Pool!Before(q2[m], q2[n]) => ~ Pool!Before(q2[n], q2[m])
    <3>1. PICK x, y \in PoolItems : x = q2[m] /\ y = q2[n]
      BY <1>5
    <3>2. PICK j, k \in Nat : j = PriorityOf(x) /\ k = PriorityOf(y)
      BY BeforeIs
    <3>3. (Pool!Before(x, y) <=> j > k) /\ (Pool!Before(y, x) <=> k > j)
      BY <3>2, BeforeIs
    <3>4. ~ (j > k /\ k > j)
      OBVIOUS
    <3> QED
      BY <3>1, <3>3, <3>4, Zenon
  <2>3. ASSUME q2[m][1] = q2[n][1], ~ Pool!Before(q2[m], q2[n])
        PROVE  Noted(ids2[q2[m][1]], q2[m][2], q2[n][2])
    <3>1. PICK j, k \in 1..N : j = p[m] /\ k = p[n] /\ j < k
      BY <1>4, <2>1, <2>3
    <3>2. q2[m] = s[j] /\ q2[n] = s[k]
      BY <1>4, <3>1
    <3>3. s[j][1] = s[k][1] /\ ~ Pool!Before(s[j], s[k])
      BY <2>3, <3>2
    <3>4. Noted(ids2[s[j][1]], s[j][2], s[k][2])
      BY <1>1, <3>1, <3>3, AppendedOrdered
    <3> QED
      BY <3>2, <3>4
  <2> QED
    BY <2>1, <2>2, <2>3
<1>9. ASSUME NEW k \in 1..N
      PROVE  Known(ids2, q2[k])
  <2>1. PICK j \in 1..N : j = p[k] /\ q2[k] = s[j]
    BY <1>4
  <2>2. Known(ids2, s[j])
    <3>1. j \in 1..(Len(q) + 1)
      BY <1>1
    <3> QED
      BY <3>1, AppendedKnown, Zenon
  <2> QED
    BY <2>1, <2>2
<1> QED
  BY <1>7, <1>8, <1>9 DEF Ordered

LEMMA TailOrdered ==
    ASSUME NEW q \in Seq(PoolItems), q # << >>, NEW ids, Ordered(q, ids)
    PROVE  Tail(q) \in Seq(PoolItems) /\ Ordered(Tail(q), ids)
<1>1. PICK t \in Seq(PoolItems) : t = Tail(q)
  BY HeadTailProperties
<1>2. /\ Len(t) \in Nat /\ Len(q) = Len(t) + 1
      /\ \A k \in 1..Len(t) : k + 1 \in 1..Len(q) /\ t[k] = q[k + 1]
  BY <1>1, HeadTailProperties, LenProperties
<1>3. \A m, n \in 1..Len(t) : m < n => m + 1 < n + 1
  BY <1>2
<1>4. \A m \in 1..Len(t) : Known(ids, t[m])
  BY <1>2 DEF Ordered
<1>5. ASSUME NEW m \in 1..Len(t), NEW n \in 1..Len(t), m < n
      PROVE  /\ ~ Pool!Before(t[n], t[m])
             /\ t[m][1] = t[n][1] /\ ~ Pool!Before(t[m], t[n]) =>
                  Noted(ids[t[m][1]], t[m][2], t[n][2])
  <2>1. PICK j, k \in 1..Len(q) : j = m + 1 /\ k = n + 1 /\ j < k /\ t[m] = q[j] /\ t[n] = q[k]
    BY <1>2, <1>3, <1>5
  <2>2. /\ ~ Pool!Before(q[k], q[j])
        /\ q[j][1] = q[k][1] /\ ~ Pool!Before(q[j], q[k]) =>
                  Noted(ids[q[j][1]], q[j][2], q[k][2])
    BY <2>1, Zenon DEF Ordered
  <2> QED
    BY <2>1, <2>2
<1> QED
  BY <1>1, <1>4, <1>5 DEF Ordered

LEMMA EnqueueKeeps ==
    ASSUME CoordinatorInv, PoolInv, NEW b \in Batches, NEW w \in Worker(b), RunCreated(b, w)
    PROVE  PoolInv'
<1>1. PICK i : i = worker[b][w]
  OBVIOUS
<1>2. /\ i # 0 /\ progress' = [progress EXCEPT ![b].runIds = Append(@, i)]
      /\ Pool!Enqueue(<<b, i>>)
  BY <1>1, Zenon DEF RunCreated
<1>3. BatchOK(b) /\ DOMAIN progress = Batches
  BY DEF CoordinatorInv, Domains
<1>4. i \in Item(b) /\ i \in Nat /\ progress[b].runIds \in Seq(Nat) /\ progress[b] \in Progress
  BY <1>1, <1>2, <1>3, ManifestFacts DEF BatchOK, ItemTypes, CountInv, Progress
<1>5. PICK s : s = Append(queue, <<b, i>>)
  OBVIOUS
<1>6. SortedInto(s, queue')
  BY <1>2, <1>5, Zenon DEF Pool!Enqueue, SortedInto
<1>7. running' = running
  BY <1>2 DEF Pool!Enqueue
<1>8. queue \in Seq(PoolItems) /\ Ordered(queue, RunIds)
  BY DEF PoolInv
<1>9. Appended(queue, b, i, s)
  <2>1. <<b, i>> \in PoolItems /\ <<b, i>>[1] = b /\ <<b, i>>[2] = i
    BY <1>4 DEF PoolItems
  <2> QED
    BY <1>5, <1>8, <2>1, AppendProperties, LenProperties DEF Appended
<1>10. NotedAlso(RunIds, RunIds', b, i)
  <2>1. PICK pr \in Progress : pr = progress[b]
    BY <1>4
  <2>2. progress'[b] = [pr EXCEPT !.runIds = Append(pr.runIds, i)]
    BY <1>2, <1>3, <2>1
  <2>3. progress'[b].runIds = Append(progress[b].runIds, i)
    BY <2>1, <2>2 DEF Progress
  <2>4. \A c \in Batches \ {b} : progress'[c] = progress[c]
    BY <1>2, <1>3
  <2> QED
    BY <2>3, <2>4 DEF NotedAlso, RunIds
<1>11. RunIds[b] \in Seq(Nat)
  BY <1>4 DEF RunIds
<1>12. PICK q, q2, ids, ids2 : q = queue /\ q2 = queue' /\ ids = RunIds /\ ids2 = RunIds'
  OBVIOUS
<1>13. q2 \in Seq(PoolItems) /\ Ordered(q2, ids2)
  <2>1. /\ q \in Seq(PoolItems) /\ Ordered(q, ids) /\ ids[b] \in Seq(Nat)
        /\ NotedAlso(ids, ids2, b, i) /\ Appended(q, b, i, s)
    BY <1>8, <1>9, <1>10, <1>11, <1>12, Zenon
  <2>2. SortedInto(s, q2)
    BY <1>6, <1>12, Zenon
  <2> QED
    BY <1>4, <2>1, <2>2, SortedKeeps, Zenon
<1> QED
  BY <1>7, <1>12, <1>13 DEF PoolInv

LEMMA PoolMoves == CoordinatorInv /\ PoolInv /\ [BatchNext]_batchVars => PoolInv'
<1> SUFFICES ASSUME CoordinatorInv, PoolInv, [BatchNext]_batchVars
             PROVE  PoolInv'
  OBVIOUS
<1>1. ASSUME queue' = queue, running' = running, RunIds' = RunIds
      PROVE  PoolInv'
  BY <1>1 DEF PoolInv
<1>2. ASSUME NEW b \in Batches,
             \/ ExecuteBatch(b)
             \/ \E w \in Worker(b) : ItemCompleted(b, w) \/ ItemFailed(b, w)
             \/ ReturnBatch(b)
      PROVE  PoolInv'
  <2>1. /\ queue' = queue /\ running' = running
        /\ \A c \in Batches : progress'[c].runIds = progress[c].runIds
    BY <1>2, RunIdsStay
  <2>2. RunIds' = RunIds
    BY <2>1 DEF RunIds
  <2> QED
    BY <1>1, <2>1, <2>2
<1>3. CASE PoolStep
  <2>1. RunIds' = RunIds
    BY <1>3 DEF PoolStep, RunIds
  <2>2. CASE Pool!Start
    <3>1. running < Concurrency /\ queue # << >> /\ running' = running + 1 /\ queue' = Tail(queue)
      BY <2>2 DEF Pool!Start, Pool!CanAccept
    <3>2. running' \in Nat /\ running' <= Concurrency
      BY <3>1, ManifestAssumption DEF PoolInv
    <3>3. queue' \in Seq(PoolItems) /\ Ordered(queue', RunIds)
      BY <3>1, TailOrdered DEF PoolInv
    <3> QED
      BY <2>1, <3>2, <3>3 DEF PoolInv
  <2>3. CASE Pool!Complete
    <3>1. queue' = queue /\ running' \in Nat /\ running' <= Concurrency
      BY <2>3, ManifestAssumption DEF Pool!Complete, PoolInv
    <3> QED
      BY <2>1, <3>1 DEF PoolInv
  <2> QED
    BY <1>3, <2>2, <2>3 DEF PoolStep
<1>4. CASE UNCHANGED batchVars
  BY <1>1, <1>4 DEF batchVars, RunIds
<1> QED
  BY <1>2, <1>3, <1>4, EnqueueKeeps DEF BatchNext, WorkerStep

LEMMA CoordinatorAlways == BatchSpec => [](CoordinatorInv /\ PoolInv)
  BY CoordinatorInit, CoordinatorStep, PoolMoves, PTL DEF BatchSpec

-----------------------------------------------------------------------------
(* The theorems.                                                           *)

LEMMA AllEnded ==
    ASSUME NEW b \in Batches, NEW oc \in [Item(b) -> Outcome],
           \A i \in Item(b) : oc[i] # "none"
    PROVE  Cardinality(EndedAs(b, oc, "completed")) + Cardinality(EndedAs(b, oc, "failed"))
             = Len(Manifest[b].items)
<1>1. PICK S, F : S = EndedAs(b, oc, "completed") /\ F = EndedAs(b, oc, "failed")
  OBVIOUS
<1>2. S \in SUBSET Item(b) /\ F \in SUBSET Item(b) /\ S \cup F = Item(b) /\ S \cap F = {}
  BY <1>1 DEF EndedAs, Outcome
<1>3. IsFiniteSet(S) /\ IsFiniteSet(F)
  BY <1>2, ManifestFacts, FS_Subset
<1>4. Cardinality(S \cup F) = Cardinality(S) + Cardinality(F) - Cardinality(S \cap F)
  BY <1>3, FS_Union
<1>5. Cardinality(S \cap F) = 0 /\ Cardinality(S) \in Nat /\ Cardinality(F) \in Nat
  BY <1>2, <1>3, FS_EmptySet, FS_CardinalityType
<1>6. Cardinality(S \cup F) = Len(Manifest[b].items)
  BY <1>2, ManifestFacts
<1> QED
  BY <1>1, <1>4, <1>5, <1>6

LEMMA OnceEach ==
    ASSUME NEW b \in Batches, BatchOK(b)
    PROVE  /\ \A v, w \in Worker(b) : worker[b][v] = worker[b][w] => v = w \/ worker[b][v] = 0
           /\ Held(b) \cap Waiting(b) = {}
           /\ \A i \in Held(b) \cup Waiting(b) : outcome[b][i] = "none"
           /\ Waiting(b) \cap created[b] = {}
           /\ phase[b] = "returned" =>
                 /\ Held(b) = {} /\ Waiting(b) = {} /\ progress[b].running = 0
                 /\ \/ progress[b].completed + progress[b].failed = Len(Manifest[b].items)
                    \/ Aborted(b)
<1>1. PICK td, wk, cr, oc, pr : /\ td = todo[b] /\ wk = worker[b] /\ cr = created[b]
                                /\ oc = outcome[b] /\ pr = progress[b]
  OBVIOUS
<1>2. /\ ItemTypes(b, phase[b], td, wk, cr, oc) /\ ItemsInv(b, phase[b], td, wk, cr, oc)
      /\ CountInv(b, wk, cr, oc, pr)
  BY <1>1 DEF BatchOK
<1>3. /\ Held(b) = {wk[w] : w \in Worker(b)} \ {0} /\ Held(b) = HeldBy(b, wk)
      /\ Waiting(b) = {td[k] : k \in 1..Len(td)}
      /\ Aborted(b) <=> Stopped(b, oc)
  BY <1>1 DEF Held, HeldBy, Waiting, Aborted, Stopped, Ended
<1>4. \A v, w \in Worker(b) : wk[v] = wk[w] => v = w \/ wk[v] = 0
  BY <1>2 DEF ItemsInv
<1>5. Held(b) \cap Waiting(b) = {}
  BY <1>2, <1>3 DEF ItemsInv
<1>6. \A i \in Held(b) \cup Waiting(b) : oc[i] = "none"
  BY <1>2, <1>3 DEF ItemsInv
<1>7. Waiting(b) \cap cr = {}
  BY <1>2, <1>3 DEF ItemsInv
<1>8. ASSUME phase[b] = "returned"
      PROVE  /\ Held(b) = {} /\ Waiting(b) = {} /\ pr.running = 0
             /\ pr.completed + pr.failed = Len(Manifest[b].items) \/ Stopped(b, oc)
  <2>1. (\A w \in Worker(b) : wk[w] = 0) /\ td = << >>
    BY <1>2, <1>8, ManifestFacts DEF ItemsInv
  <2>2. Held(b) = {} /\ Waiting(b) = {}
    BY <1>3, <2>1
  <2>3. pr.running = 0
    BY <1>2, <1>3, <2>2, FS_EmptySet DEF CountInv
  <2>4. ASSUME ~ Stopped(b, oc)
        PROVE  pr.completed + pr.failed = Len(Manifest[b].items)
    <3>1. \A i \in Item(b) : oc[i] # "none"
      BY <1>2, <1>8, <2>1, <2>4, ManifestFacts DEF ItemsInv
    <3>2. oc \in [Item(b) -> Outcome]
      BY <1>2 DEF ItemTypes
    <3> QED
      BY <1>2, <3>1, <3>2, AllEnded DEF CountInv
  <2> QED
    BY <2>2, <2>3, <2>4
<1> QED
  BY <1>1, <1>3, <1>4, <1>5, <1>6, <1>7, <1>8

\* No item is held by two workers, or held and still waiting, or executed after it
\* has ended; a batch that has returned has dealt with all its items, unless an
\* item that does not continue on error failed.
THEOREM ItemsAreTakenOnce == BatchSpec => []ItemsOnce
<1>1. CoordinatorInv => ItemsOnce
  BY OnceEach DEF CoordinatorInv, ItemsOnce
<1> QED
  BY <1>1, CoordinatorAlways, PTL

\* The progress record a client polls says how many items are under way, completed
\* and failed, for every interleaving of the workers of any number of batches.
THEOREM ProgressIsTrue == BatchSpec => []CountersAgree
<1>1. CoordinatorInv => CountersAgree
  <2> SUFFICES ASSUME CoordinatorInv
               PROVE  CountersAgree
    OBVIOUS
  <2>1. ASSUME NEW b \in Batches
        PROVE  /\ progress[b].running = Cardinality(Held(b))
               /\ progress[b].completed = Cardinality(Ended(b, "completed"))
               /\ progress[b].failed = Cardinality(Ended(b, "failed"))
               /\ Len(progress[b].runIds) = Cardinality(created[b])
    <3>1. /\ Held(b) = HeldBy(b, worker[b])
          /\ \A how : Ended(b, how) = EndedAs(b, outcome[b], how)
      BY DEF Held, HeldBy, Ended, EndedAs
    <3>2. CountInv(b, worker[b], created[b], outcome[b], progress[b])
      BY DEF CoordinatorInv, BatchOK
    <3> QED
      BY <3>1, <3>2 DEF CountInv
  <2>2. ShownInv
    BY DEF CoordinatorInv
  <2> QED
    BY <2>1, <2>2, Zenon DEF CountersAgree, ShownInv
<1> QED
  BY <1>1, CoordinatorAlways, PTL

\* The pool keeps its runs sorted by priority and, for the runs of a batch, in the
\* order they were enqueued; it never hands out more than it has slots.
THEOREM PoolKeepsOrder == BatchSpec => []PoolOrdered
<1>1. PoolInv => PoolOrdered
  <2> SUFFICES ASSUME PoolInv
               PROVE  PoolOrdered
    OBVIOUS
  <2>1. ASSUME NEW m \in 1..Len(queue), NEW n \in 1..Len(queue), m < n
        PROVE  /\ ~ Pool!Before(queue[n], queue[m])
               /\ queue[m][1] = queue[n][1] /\ ~ Pool!Before(queue[m], queue[n]) =>
                    LET ids == progress[queue[m][1]].runIds
                    IN  \E x, y \in 1..Len(ids) :
                           x < y /\ ids[x] = queue[m][2] /\ ids[y] = queue[n][2]
    <3>1. queue[m] \in PoolItems
      BY ElementOfSeq DEF PoolInv
    <3>2. queue[m][1] \in Batches
      BY <3>1, PoolItemsAre
    <3>3. RunIds[queue[m][1]] = progress[queue[m][1]].runIds
      BY <3>2 DEF RunIds
    <3>4. /\ ~ Pool!Before(queue[n], queue[m])
          /\ queue[m][1] = queue[n][1] /\ ~ Pool!Before(queue[m], queue[n]) =>
                Noted(RunIds[queue[m][1]], queue[m][2], queue[n][2])
      BY <2>1, Zenon DEF PoolInv, Ordered
    <3> QED
      BY <3>3, <3>4, Zenon DEF Noted
  <2>2. running <= Concurrency
    BY DEF PoolInv
  <2> QED
    BY <2>1, <2>2, Zenon DEF PoolOrdered
<1> QED
  BY <1>1, CoordinatorAlways, PTL

\* The worker whose item stopped the batch, or that ends an item of a stopped one,
\* finds the queue empty.
LEMMA NothingToTake ==
    ASSUME NEW b \in Batches, BatchOK(b), DOMAIN outcome = Batches, DOMAIN worker = Batches,
           NEW w \in Worker(b), NEW i, i = worker[b][w], i \in Item(b),
           NEW how \in {"completed", "failed"},
           outcome' = [outcome EXCEPT ![b][i] = how],
           Take(b, w, RestAfter(b, i, how, todo[b])),
           Stopped(b, outcome'[b])
    PROVE  HeldBy(b, worker'[b]) \subseteq HeldBy(b, worker[b])
<1>1. PICK rest : rest = RestAfter(b, i, how, todo[b])
  OBVIOUS
<1>2. PICK wk, oc : wk = worker[b] /\ oc = outcome[b]
  OBVIOUS
<1>3. /\ wk \in [Worker(b) -> {0} \cup Item(b)] /\ oc \in [Item(b) -> Outcome]
      /\ Stopped(b, oc) => todo[b] = << >>
  BY <1>2 DEF BatchOK, ItemTypes, ItemsInv
<1>4. outcome'[b] = [oc EXCEPT ![i] = how]
  BY <1>2
<1>5. rest = << >>
  <2>1. Stopped(b, oc) \/ (how = "failed" /\ ~ Manifest[b].items[i].continueOnError)
    BY <1>3, <1>4 DEF Stopped
  <2> QED
    BY <1>1, <1>3, <2>1 DEF RestAfter
<1>6. worker'[b] = [wk EXCEPT ![w] = 0]
  BY <1>1, <1>2, <1>5 DEF Take
<1>7. \A v \in Worker(b) : worker'[b][v] = IF v = w THEN 0 ELSE wk[v]
  BY <1>3, <1>6
<1> QED
  BY <1>2, <1>7 DEF HeldBy

LEMMA StoppedTakesNothing ==
    ASSUME CoordinatorInv, [BatchNext]_batchVars, NEW b \in Batches, Stopped(b, outcome'[b])
    PROVE  HeldBy(b, worker'[b]) \subseteq HeldBy(b, worker[b])
<1>1. BatchOK(b) /\ DOMAIN outcome = Batches /\ DOMAIN worker = Batches
  BY DEF CoordinatorInv, Domains
<1>2. ASSUME NEW w \in Worker(b), ItemCompleted(b, w)
      PROVE  HeldBy(b, worker'[b]) \subseteq HeldBy(b, worker[b])
  <2>1. PICK i : i = worker[b][w]
    OBVIOUS
  <2>2. /\ i \in created[b] /\ outcome' = [outcome EXCEPT ![b][i] = "completed"]
        /\ Take(b, w, todo[b])
    BY <1>2, <2>1, Zenon DEF ItemCompleted
  <2>3. i \in Item(b)
    BY <1>1, <2>2 DEF BatchOK, ItemTypes
  <2>4. todo[b] = RestAfter(b, i, "completed", todo[b])
    BY DEF RestAfter
  <2>5. Take(b, w, RestAfter(b, i, "completed", todo[b]))
    BY <2>2, <2>4
  <2> QED
    BY <1>1, <2>1, <2>2, <2>3, <2>5, NothingToTake
<1>3. ASSUME NEW w \in Worker(b), ItemFailed(b, w)
      PROVE  HeldBy(b, worker'[b]) \subseteq HeldBy(b, worker[b])
  <2>1. PICK i : i = worker[b][w]
    OBVIOUS
  <2>2. /\ i # 0 /\ outcome' = [outcome EXCEPT ![b][i] = "failed"]
        /\ Take(b, w, RestAfterFailure(b, i))
    BY <1>3, <2>1, Zenon DEF ItemFailed
  <2>3. i \in Item(b)
    BY <1>1, <2>1, <2>2 DEF BatchOK, ItemTypes
  <2>4. RestAfterFailure(b, i) = RestAfter(b, i, "failed", todo[b])
    BY DEF RestAfter, RestAfterFailure
  <2>5. Take(b, w, RestAfter(b, i, "failed", todo[b]))
    BY <2>2, <2>4
  <2> QED
    BY <1>1, <2>1, <2>2, <2>3, <2>5, NothingToTake
<1>4. ASSUME NEW w \in Worker(b), RunCreated(b, w)
      PROVE  worker' = worker
  BY <1>4, Zenon DEF RunCreated
<1>5. CASE ExecuteBatch(b)
  <2>1. outcome' = outcome /\ phase[b] = "new"
    BY <1>5 DEF ExecuteBatch
  <2>2. ~ Stopped(b, outcome[b])
    BY <1>1, <2>1 DEF BatchOK, ItemsInv, Stopped
  <2> QED
    BY <2>1, <2>2
<1>6. ASSUME NEW c \in Batches \ {b}, ExecuteBatch(c) \/ WorkerStep(c) \/ ReturnBatch(c)
      PROVE  worker'[b] = worker[b]
  BY <1>6, OneBatchMoves DEF StaysAsIs
<1>7. CASE PoolStep \/ ReturnBatch(b) \/ UNCHANGED batchVars
  BY <1>7 DEF PoolStep, ReturnBatch, batchVars
<1> QED
  BY <1>2, <1>3, <1>4, <1>5, <1>6, <1>7 DEF BatchNext, WorkerStep

\* Once an item that does not continue on error has failed no worker of its batch
\* takes another item, not even one that was at its await meanwhile.
THEOREM FailureStopsTheBatch == BatchSpec => StopsAfterFailure
<1>1. CoordinatorInv /\ CoordinatorInv' /\ [BatchNext]_batchVars =>
        [\A b \in Batches : Aborted(b)' => Waiting(b)' = {} /\ Held(b)' \subseteq Held(b)]_batchVars
  <2> SUFFICES ASSUME CoordinatorInv, CoordinatorInv', [BatchNext]_batchVars,
                      NEW b \in Batches, Aborted(b)'
               PROVE  Waiting(b)' = {} /\ Held(b)' \subseteq Held(b)
    OBVIOUS
  <2>1. Stopped(b, outcome'[b])
    BY DEF Aborted, Ended, Stopped
  <2>2. Held(b)' = HeldBy(b, worker'[b]) /\ Held(b) = HeldBy(b, worker[b])
    BY DEF Held, HeldBy
  <2>3. Waiting(b)' = {}
    <3>1. todo'[b] = << >>
      BY <2>1 DEF CoordinatorInv, BatchOK, ItemsInv
    <3> QED
      BY <3>1 DEF Waiting
  <2> QED
    BY <2>1, <2>2, <2>3, StoppedTakesNothing
<1> QED
  BY <1>1, CoordinatorAlways, CoordinatorStep, PTL DEF BatchSpec, StopsAfterFailure
=============================================================================
