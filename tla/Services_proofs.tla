-------------------------- MODULE Services_proofs ---------------------------
(***************************************************************************)
(* Proofs about what surrounds the engine: the rate limit of Gateway, for  *)
(* every limit, window and number of addresses; the file journal, whatever *)
(* calls overlap, stop short or are cut off by the end of the process, for *)
(* every number of writers, calls and processes; and the webhooks, for     *)
(* every number of runs, endpoints and attempts and every timing of        *)
(* answers and registrations; and the pages of run queries, for every      *)
(* number of runs, every page size and every lasting filter.               *)
(***************************************************************************)
EXTENDS Gateway, Webhooks, Journal, RunQueries, Functions, SequenceTheorems, FiniteSetTheorems, TLAPS

-----------------------------------------------------------------------------
(* Gateway: the rate limit.                                                *)

\* How many of the requests that passed belong to the present bucket.
Own(b) == IF b.count <= MaxPerMinute THEN b.count ELSE MaxPerMinute

Begin(b) == b.resetAt - Window

\* A bucket b, the times p at which its address passed, and the time t.  The last
\* Own(b) of them lie in the present window, the ones before them earlier, and all
\* but MaxPerMinute of these more than a minute before the window began.
BucketInv(b, p, t) ==
    /\ b.count = 0 => p = << >> /\ b.resetAt = -1
    /\ b.count > 0 => 0 <= Begin(b) /\ Begin(b) <= t
    /\ Own(b) <= Len(p)
    /\ \A i \in 1..Len(p) :
         /\ p[i] <= b.resetAt /\ p[i] <= t
         /\ i > Len(p) - Own(b) => p[i] >= Begin(b)
         /\ i <= Len(p) - Own(b) => p[i] < Begin(b)
         /\ i <= Len(p) - Own(b) - MaxPerMinute => p[i] + Window < Begin(b)

\* SpanLimited of one address.
Spread(p) ==
    \A i \in 1..Len(p) : i + 2 * MaxPerMinute <= Len(p) => p[i + 2 * MaxPerMinute] > p[i] + Window

LimitInv ==
    /\ TypeOK
    /\ \A ip \in Ips : BucketInv(bucket[ip], passed[ip], now)
    /\ SpanLimited
    /\ RefusalIsEarned

-----------------------------------------------------------------------------
BucketType == [count : Nat, resetAt : Int]

\* What appending does to the times.
LEMMA Appending ==
    ASSUME NEW p \in Seq(Nat), NEW t \in Nat
    PROVE  /\ Len(p) \in Nat
           /\ Append(p, t) \in Seq(Nat)
           /\ Len(Append(p, t)) = Len(p) + 1
           /\ Append(p, t)[Len(p) + 1] = t
           /\ \A i \in 1..Len(p) : Append(p, t)[i] = p[i] /\ p[i] \in Nat
OBVIOUS

LEMMA Limits ==
    MaxPerMinute \in Nat /\ MaxPerMinute >= 1 /\ Window \in Nat /\ Window >= 1
BY GatewayAssumption

\* If what lies 2 * MaxPerMinute back from the end, and before it, is more than a minute
\* ago, one more request keeps the times spread.
LEMMA SpreadOn ==
    ASSUME NEW p \in Seq(Nat), NEW t \in Nat, Spread(p),
           \A i \in 1..Len(p) : i + 2 * MaxPerMinute = Len(p) + 1 => p[i] + Window < t
    PROVE  Spread(Append(p, t))
<1> DEFINE q == Append(p, t)
<1>1. /\ Len(p) \in Nat /\ Len(q) = Len(p) + 1 /\ q[Len(p) + 1] = t
      /\ \A i \in 1..Len(p) : q[i] = p[i] /\ p[i] \in Nat
  BY Appending
<1> SUFFICES ASSUME NEW i \in 1..Len(q), i + 2 * MaxPerMinute <= Len(q)
             PROVE  q[i + 2 * MaxPerMinute] > q[i] + Window
  BY DEF Spread
<1> HIDE DEF q
<1>2. i \in 1..Len(p) /\ i + 2 * MaxPerMinute \in 1..Len(q)
  BY <1>1, Limits
<1>3. CASE i + 2 * MaxPerMinute = Len(p) + 1
  BY <1>1, <1>2, <1>3, Limits
<1>4. CASE i + 2 * MaxPerMinute # Len(p) + 1
  <2>1. i + 2 * MaxPerMinute \in 1..Len(p)
    <3> DEFINE k == i + 2 * MaxPerMinute
    <3>1. k \in 1..Len(q) /\ k # Len(p) + 1
      BY <1>2, <1>4
    <3>2. Len(p) \in Nat /\ Len(q) = Len(p) + 1
      BY <1>1
    <3> HIDE DEF k
    <3>3. k \in 1..Len(p)
      BY <3>1, <3>2
    <3> QED BY <3>3 DEF k
  <2>2. p[i + 2 * MaxPerMinute] > p[i] + Window
    BY <1>1, <1>2, <2>1, Limits DEF Spread
  <2> QED BY <1>1, <1>2, <2>1, <2>2
<1> QED BY <1>3, <1>4

\* An expired bucket is renewed, and the request passes.
LEMMA Renewal ==
    ASSUME NEW b \in BucketType, NEW p \in Seq(Nat), NEW t \in Nat,
           BucketInv(b, p, t), Spread(p), t > b.resetAt
    PROVE  /\ BucketInv([count |-> 1, resetAt |-> t + Window], Append(p, t), t)
           /\ Spread(Append(p, t))
<1> DEFINE q == Append(p, t)
           c == [count |-> 1, resetAt |-> t + Window]
<1>1. /\ Len(p) \in Nat /\ Len(q) = Len(p) + 1 /\ q[Len(p) + 1] = t
      /\ \A i \in 1..Len(p) : q[i] = p[i] /\ p[i] \in Nat
  BY Appending
<1>2. c.count = 1 /\ c.resetAt = t + Window /\ Own(c) = 1 /\ Begin(c) = t
  BY Limits DEF Own, Begin
<1>3. Own(b) \in Nat /\ Own(b) <= MaxPerMinute /\ Begin(b) = b.resetAt - Window /\ b.resetAt \in Int
  BY Limits DEF Own, Begin, BucketType
<1>4. \A i \in 1..Len(p) : p[i] < t /\ (i <= Len(p) - MaxPerMinute => p[i] + Window < t)
  <2> SUFFICES ASSUME NEW i \in 1..Len(p)
               PROVE  p[i] < t /\ (i <= Len(p) - MaxPerMinute => p[i] + Window < t)
    OBVIOUS
  <2>1. p[i] <= b.resetAt /\ (i <= Len(p) - Own(b) => p[i] < Begin(b))
    BY DEF BucketInv
  <2>2. p[i] \in Nat /\ Len(p) \in Nat
    BY <1>1
  <2>3. p[i] < t
    BY <1>3, <2>1, <2>2
  <2>4. ASSUME i <= Len(p) - MaxPerMinute PROVE p[i] + Window < t
    <3>1. i <= Len(p) - Own(b)
      BY <1>3, <2>2, <2>4, Limits
    <3>2. p[i] < b.resetAt - Window
      BY <1>3, <2>1, <3>1
    <3> QED BY <1>3, <2>2, <3>2, Limits
  <2> QED BY <2>3, <2>4
<1> HIDE DEF q, c
<1>5. ASSUME NEW i \in 1..Len(q)
      PROVE  /\ q[i] <= c.resetAt /\ q[i] <= t
             /\ i > Len(q) - Own(c) => q[i] >= Begin(c)
             /\ i <= Len(q) - Own(c) => q[i] < Begin(c)
             /\ i <= Len(q) - Own(c) - MaxPerMinute => q[i] + Window < Begin(c)
  <2>1. CASE i = Len(p) + 1
    BY <1>1, <1>2, <2>1, Limits
  <2>2. CASE i \in 1..Len(p)
    BY <1>1, <1>2, <1>4, <2>2, Limits
  <2> QED BY <1>1, <2>1, <2>2
<1>6. BucketInv(c, q, t)
  BY <1>1, <1>2, <1>5 DEF BucketInv
<1>7. Spread(q)
  BY <1>1, <1>4, SpreadOn, Limits DEF q
<1> QED BY <1>6, <1>7 DEF q, c

\* A request that passes in the present window.
LEMMA Passing ==
    ASSUME NEW b \in BucketType, NEW p \in Seq(Nat), NEW t \in Nat,
           BucketInv(b, p, t), Spread(p), t <= b.resetAt, b.count < MaxPerMinute
    PROVE  /\ BucketInv([count |-> b.count + 1, resetAt |-> b.resetAt], Append(p, t), t)
           /\ Spread(Append(p, t))
<1> DEFINE q == Append(p, t)
           c == [count |-> b.count + 1, resetAt |-> b.resetAt]
<1>1. /\ Len(p) \in Nat /\ Len(q) = Len(p) + 1 /\ q[Len(p) + 1] = t
      /\ \A i \in 1..Len(p) : q[i] = p[i] /\ p[i] \in Nat
  BY Appending
<1>2. /\ c.count = b.count + 1 /\ c.resetAt = b.resetAt /\ b.count \in Nat /\ b.resetAt \in Int
      /\ Own(b) = b.count /\ Own(c) = b.count + 1
      /\ Begin(c) = b.resetAt - Window /\ Begin(b) = b.resetAt - Window
  BY Limits DEF Own, Begin, BucketType
<1>3. /\ b.count > 0 /\ 0 <= Begin(b) /\ Begin(b) <= t /\ b.count <= Len(p)
  BY <1>2 DEF BucketInv
<1>4. \A i \in 1..Len(p) :
        /\ p[i] <= b.resetAt /\ p[i] <= t
        /\ i > Len(p) - b.count => p[i] >= Begin(b)
        /\ i <= Len(p) - b.count => p[i] < Begin(b)
        /\ i <= Len(p) - b.count - MaxPerMinute => p[i] + Window < Begin(b)
  BY <1>2 DEF BucketInv
<1> HIDE DEF q, c
<1>5. ASSUME NEW i \in 1..Len(q)
      PROVE  /\ q[i] <= c.resetAt /\ q[i] <= t
             /\ i > Len(q) - Own(c) => q[i] >= Begin(c)
             /\ i <= Len(q) - Own(c) => q[i] < Begin(c)
             /\ i <= Len(q) - Own(c) - MaxPerMinute => q[i] + Window < Begin(c)
  <2>1. CASE i = Len(p) + 1
    BY <1>1, <1>2, <1>3, <2>1, Limits
  <2>2. CASE i \in 1..Len(p)
    <3>1. q[i] = p[i] /\ q[i] \in Nat /\ Len(q) - Own(c) = Len(p) - b.count
      BY <1>1, <1>2, <2>2
    <3>2. Begin(c) = Begin(b)
      BY <1>2
    <3> QED BY <1>2, <1>4, <2>2, <3>1, <3>2
  <2> QED BY <1>1, <2>1, <2>2
<1>6. BucketInv(c, q, t)
  BY <1>1, <1>2, <1>3, <1>5 DEF BucketInv
<1>7. \A i \in 1..Len(p) : i + 2 * MaxPerMinute = Len(p) + 1 => p[i] + Window < t
  <2> SUFFICES ASSUME NEW i \in 1..Len(p), i + 2 * MaxPerMinute = Len(p) + 1
               PROVE  p[i] + Window < t
    OBVIOUS
  <2>1. p[i] \in Nat /\ Len(p) \in Nat
    BY <1>1
  <2>2. i <= Len(p) - b.count - MaxPerMinute
    BY <1>2, <2>1, Limits
  <2>3. p[i] + Window < Begin(b)
    BY <1>4, <2>2
  <2> QED BY <1>2, <1>3, <2>1, <2>3, Limits
<1>8. Spread(q)
  BY <1>7, SpreadOn DEF q
<1> QED BY <1>6, <1>8 DEF q, c

\* A request that is refused: it is counted, and was earned.
LEMMA Refusal ==
    ASSUME NEW b \in BucketType, NEW p \in Seq(Nat), NEW t \in Nat,
           BucketInv(b, p, t), t <= b.resetAt, b.count >= MaxPerMinute
    PROVE  /\ BucketInv([count |-> b.count + 1, resetAt |-> b.resetAt], p, t)
           /\ Len(p) >= MaxPerMinute
           /\ p[Len(p) - MaxPerMinute + 1] >= t - Window
<1> DEFINE c == [count |-> b.count + 1, resetAt |-> b.resetAt]
<1>1. /\ c.count = b.count + 1 /\ c.resetAt = b.resetAt /\ b.count \in Nat /\ b.resetAt \in Int
      /\ Own(b) = MaxPerMinute /\ Own(c) = MaxPerMinute /\ Begin(c) = Begin(b)
      /\ Begin(b) = b.resetAt - Window
  BY Limits DEF Own, Begin, BucketType
<1>2. BucketInv(c, p, t)
  <2> HIDE DEF c
  <2>1. b.count > 0 /\ c.count > 0
    BY <1>1, Limits
  <2> QED BY <1>1, <2>1 DEF BucketInv
<1>3. Len(p) \in Nat /\ Len(p) >= MaxPerMinute
  BY <1>1 DEF BucketInv
<1>4. Len(p) - MaxPerMinute + 1 \in 1..Len(p)
  BY <1>3, Limits
<1>5. p[Len(p) - MaxPerMinute + 1] >= Begin(b) /\ p[Len(p) - MaxPerMinute + 1] \in Nat
  <2> DEFINE k == Len(p) - MaxPerMinute + 1
  <2>1. \A i \in 1..Len(p) : i > Len(p) - MaxPerMinute => p[i] >= Begin(b)
    BY <1>1 DEF BucketInv
  <2>2. k \in 1..Len(p) /\ k > Len(p) - MaxPerMinute
    BY <1>3, <1>4, Limits
  <2> HIDE DEF k
  <2>3. p[k] >= Begin(b) /\ p[k] \in Nat
    BY <2>1, <2>2
  <2> QED BY <2>3 DEF k
<1> QED BY <1>1, <1>2, <1>3, <1>5, Limits

-----------------------------------------------------------------------------
LEMMA GatewayInit == Init => LimitInv
<1> SUFFICES ASSUME Init PROVE LimitInv
  OBVIOUS
<1>1. TypeOK
  BY DEF Init, TypeOK, NoBucket, NoAnswer
<1>2. ASSUME NEW ip \in Ips PROVE BucketInv(bucket[ip], passed[ip], now)
  <2> DEFINE b == bucket[ip]
             p == passed[ip]
  <2>1. b.count = 0 /\ b.resetAt = -1 /\ p = << >> /\ Len(p) = 0
    BY DEF Init, NoBucket
  <2>2. Own(b) = 0
    BY <2>1, Limits DEF Own
  <2> HIDE DEF b, p
  <2>3. BucketInv(b, p, now)
    BY <2>1, <2>2 DEF BucketInv
  <2> QED BY <2>3 DEF b, p
<1>3. SpanLimited /\ RefusalIsEarned
  BY DEF Init, SpanLimited, RefusalIsEarned, NoAnswer
<1> QED BY <1>1, <1>2, <1>3 DEF LimitInv

\* A request, for the address it comes from.
LEMMA RequestOwn ==
    ASSUME LimitInv, NEW ip \in Ips, NEW kind \in Kinds, Request(ip, kind)
    PROVE  /\ bucket'[ip] \in BucketType /\ passed'[ip] \in Seq(Nat)
           /\ BucketInv(bucket'[ip], passed'[ip], now)
           /\ Spread(passed'[ip])
           /\ answer'.code = 429 =>
                /\ Len(passed'[ip]) >= MaxPerMinute
                /\ passed'[ip][Len(passed'[ip]) - MaxPerMinute + 1] >= now - Window
<1> DEFINE b == bucket[ip]
           c == Counted(b)
           p == passed[ip]
<1>1. /\ b \in BucketType /\ p \in Seq(Nat) /\ now \in Nat /\ b.count \in Nat /\ b.resetAt \in Int
      /\ BucketInv(b, p, now) /\ Spread(p)
  BY DEF LimitInv, TypeOK, BucketType, SpanLimited, Spread
<1>2. /\ bucket'[ip] = c
      /\ passed'[ip] = IF Within(c) THEN Append(p, now) ELSE p
      /\ answer'.code = 429 => ~ Within(c)
  BY DEF Request, LimitInv, TypeOK
<1>3. CASE now > b.resetAt
  <2>1. c = [count |-> 1, resetAt |-> now + Window]
    BY <1>3 DEF Counted, Expired
  <2>2. Within(c)
    BY <2>1, Limits DEF Within
  <2>3. c \in BucketType /\ Append(p, now) \in Seq(Nat)
    BY <1>1, <2>1, Limits DEF BucketType
  <2> QED BY <1>1, <1>2, <1>3, <2>1, <2>2, <2>3, Renewal
<1>4. CASE now <= b.resetAt
  <2>1. c = [count |-> b.count + 1, resetAt |-> b.resetAt]
    BY <1>1, <1>4 DEF Counted, Expired
  <2>2. c \in BucketType /\ Append(p, now) \in Seq(Nat) /\ (Within(c) <=> b.count < MaxPerMinute)
    BY <1>1, <2>1, Limits DEF BucketType, Within
  <2>3. CASE b.count < MaxPerMinute
    BY <1>1, <1>2, <1>4, <2>1, <2>2, <2>3, Passing
  <2>4. CASE b.count >= MaxPerMinute
    <3>1. ~ Within(c)
      BY <1>1, <2>2, <2>4, Limits
    <3> QED BY <1>1, <1>2, <1>4, <2>1, <2>2, <2>4, <3>1, Refusal
  <2> QED BY <1>1, <2>3, <2>4, Limits
<1> QED BY <1>1, <1>3, <1>4

LEMMA RequestStep ==
    ASSUME LimitInv, NEW ip \in Ips, NEW kind \in Kinds, Request(ip, kind)
    PROVE  LimitInv'
<1>1. /\ now' = now /\ now \in Nat /\ answer'.ip = ip
      /\ answer' \in [ip : Ips \cup {"none"}, code : {0, 200, 401, 429}]
      /\ bucket' = [bucket EXCEPT ![ip] = bucket'[ip]]
      /\ passed' = [passed EXCEPT ![ip] = passed'[ip]]
  <2>1. now' = now /\ now \in Nat
    BY DEF Request, LimitInv, TypeOK
  <2>2. answer' = [ip |-> ip, code |-> answer'.code] /\ answer'.code \in {200, 401, 429}
    BY DEF Request
  <2>3. bucket' = [bucket EXCEPT ![ip] = bucket'[ip]]
    BY DEF Request, LimitInv, TypeOK
  <2>4. passed' = [passed EXCEPT ![ip] = passed'[ip]]
    <3>1. passed \in [Ips -> Seq(Nat)]
      BY DEF LimitInv, TypeOK
    <3>2. passed' = [passed EXCEPT ![ip] = Append(@, now)] \/ passed' = passed
      BY DEF Request
    <3> QED BY <3>1, <3>2
  <2> QED BY <2>1, <2>2, <2>3, <2>4
<1>2. ASSUME NEW o \in Ips, o # ip PROVE bucket'[o] = bucket[o] /\ passed'[o] = passed[o]
  BY <1>1, <1>2 DEF LimitInv, TypeOK
<1>3. TypeOK'
  <2>1. bucket \in [Ips -> BucketType] /\ passed \in [Ips -> Seq(Nat)]
    BY DEF LimitInv, TypeOK, BucketType
  <2>2. bucket'[ip] \in BucketType /\ passed'[ip] \in Seq(Nat)
    BY RequestOwn
  <2> DEFINE nb == bucket'[ip]
             np == passed'[ip]
  <2>3. nb \in BucketType /\ np \in Seq(Nat)
        /\ bucket' = [bucket EXCEPT ![ip] = nb] /\ passed' = [passed EXCEPT ![ip] = np]
    BY <1>1, <2>2
  <2> HIDE DEF nb, np
  <2>4. bucket' \in [Ips -> BucketType] /\ passed' \in [Ips -> Seq(Nat)]
    BY <2>1, <2>3
  <2> QED BY <1>1, <2>4 DEF TypeOK, BucketType
<1>4. ASSUME NEW o \in Ips PROVE BucketInv(bucket'[o], passed'[o], now') /\ Spread(passed'[o])
  <2>1. CASE o = ip
    BY <1>1, <2>1, RequestOwn
  <2>2. CASE o # ip
    BY <1>1, <1>2, <2>2 DEF LimitInv, SpanLimited, Spread
  <2> QED BY <2>1, <2>2
<1>5. SpanLimited'
  BY <1>4 DEF SpanLimited, Spread
<1>6. RefusalIsEarned'
  BY <1>1, RequestOwn DEF RefusalIsEarned
<1> QED BY <1>3, <1>4, <1>5, <1>6 DEF LimitInv

LEMMA TickStep == ASSUME LimitInv, Tick PROVE LimitInv'
<1>1. now \in Nat /\ now' = now + 1 /\ bucket' = bucket /\ passed' = passed /\ answer' = NoAnswer
  BY DEF Tick, LimitInv, TypeOK
<1>2. TypeOK'
  BY <1>1 DEF LimitInv, TypeOK, NoAnswer
<1>3. ASSUME NEW ip \in Ips PROVE BucketInv(bucket[ip], passed[ip], now + 1)
  <2>1. /\ BucketInv(bucket[ip], passed[ip], now) /\ passed[ip] \in Seq(Nat)
        /\ Begin(bucket[ip]) \in Int
    BY Limits DEF LimitInv, TypeOK, Begin
  <2> QED BY <1>1, <2>1 DEF BucketInv
<1>4. SpanLimited'
  BY <1>1 DEF LimitInv, SpanLimited
<1>5. RefusalIsEarned'
  BY <1>1 DEF RefusalIsEarned, NoAnswer
<1> QED BY <1>1, <1>2, <1>3, <1>4, <1>5 DEF LimitInv

LEMMA GatewayStep == LimitInv /\ [Next]_vars => LimitInv'
<1> SUFFICES ASSUME LimitInv, [Next]_vars PROVE LimitInv'
  OBVIOUS
<1>1. CASE Tick
  BY <1>1, TickStep
<1>2. ASSUME NEW ip \in Ips, NEW kind \in Kinds, Request(ip, kind) PROVE LimitInv'
  BY <1>2, RequestStep
<1>3. CASE UNCHANGED vars
  BY <1>3 DEF vars, LimitInv, TypeOK, SpanLimited, RefusalIsEarned
<1> QED BY <1>1, <1>2, <1>3 DEF Next

\* For every limit, window and set of addresses, no minute sees more than twice the
\* limit pass the rate limiter, wherever the resets fall.
THEOREM AtMostTwiceTheLimit == Spec => []SpanLimited
<1>1. LimitInv => SpanLimited
  BY DEF LimitInv
<1> QED BY <1>1, GatewayInit, GatewayStep, PTL DEF Spec

\* Every 429 follows a full quota of requests that passed within the last minute:
\* counting refused requests never prolongs a refusal.
THEOREM RefusalsAreEarned == Spec => []RefusalIsEarned
<1>1. LimitInv => RefusalIsEarned
  BY DEF LimitInv
<1> QED BY <1>1, GatewayInit, GatewayStep, PTL DEF Spec

-----------------------------------------------------------------------------
(* Journal: the invariant.                                                 *)

Entries == [seq : Nat, life : Nat, id : Nat, after : SUBSET Nat]
Calls   == [id : Nat, after : SUBSET Nat]
Lines   == [entry : Entries, text : {"whole", "cut", "bare"}]
Labels  == {"idle", "mkdir", "write", "written", "failed"}

JournalTypes ==
    /\ file \in Seq(Lines)
    /\ seq \in Nat /\ life \in Nat /\ begun \in Nat
    /\ pc \in [Writers -> Labels]
    /\ entry \in [Writers -> Entries]
    /\ call \in [Writers -> Calls]
    /\ returned \in SUBSET Nat
    /\ torn \in BOOLEAN

\* The calls of which there is something on disk.
OnDisk == {file[i].entry.id : i \in DOMAIN file}

\* What is on disk is of a call that was made and of a process that ran, numbered
\* below the counter of its process; a call waits for nothing that is not on disk.
LineInv ==
    \A i \in DOMAIN file :
        /\ file[i].entry.id <= begun
        /\ file[i].entry.life <= life
        /\ file[i].entry.life = life => file[i].entry.seq <= seq
        /\ file[i].entry.after \subseteq OnDisk
        /\ file[i].text # "whole" => torn

\* The lines relate as JournalIsKept says of the entries that are read.
OrderInv ==
    \A i, j \in DOMAIN file :
        /\ file[i].entry.id = file[j].entry.id => i = j
        /\ file[i].entry.life = file[j].entry.life /\ file[i].entry.seq = file[j].entry.seq => i = j
        /\ file[i].entry.id \in file[j].entry.after =>
              /\ i < j
              /\ file[i].entry.life = file[j].entry.life => file[i].entry.seq < file[j].entry.seq

Busy(w) == pc[w] \in {"mkdir", "write"}

\* A call that may still write is not on disk yet.
CallInv ==
    /\ returned \subseteq OnDisk
    /\ \A w \in Writers :
         /\ Busy(w) => /\ call[w].id <= begun
                       /\ call[w].id \notin OnDisk
                       /\ call[w].after \subseteq returned
         /\ pc[w] = "written" => call[w].id \in OnDisk
    /\ \A v, w \in Writers : Busy(v) /\ Busy(w) /\ call[v].id = call[w].id => v = w

\* A stamped entry that waits to be written has a number of its own, above those
\* of the entries its call came after.
StampInv ==
    /\ \A w \in Writers : pc[w] = "write" =>
         /\ entry[w].id = call[w].id /\ entry[w].after = call[w].after
         /\ entry[w].life = life /\ entry[w].seq <= seq
         /\ \A i \in DOMAIN file : file[i].entry.life = life =>
               /\ file[i].entry.seq # entry[w].seq
               /\ file[i].entry.id \in entry[w].after => file[i].entry.seq < entry[w].seq
    /\ \A v, w \in Writers :
         pc[v] = "write" /\ pc[w] = "write" /\ entry[v].seq = entry[w].seq => v = w

JournalInv == JournalTypes /\ LineInv /\ OrderInv /\ CallInv /\ StampInv

-----------------------------------------------------------------------------
(* Journal: every step keeps it.                                           *)

LEMMA JournalStart == JournalInit => JournalInv
<1> SUFFICES ASSUME JournalInit PROVE JournalInv
    OBVIOUS
<1>0. NoCall \in Calls /\ NoEntry \in Entries
    BY DEF NoCall, NoEntry, Entries, Calls
<1>1. JournalTypes
    <2>1. file \in Seq(Lines) /\ seq \in Nat /\ life \in Nat /\ begun \in Nat
        BY DEF JournalInit
    <2>2. pc \in [Writers -> Labels] /\ entry \in [Writers -> Entries] /\ call \in [Writers -> Calls]
        BY <1>0 DEF JournalInit, Labels
    <2>3. returned \in SUBSET Nat /\ torn \in BOOLEAN
        BY DEF JournalInit
    <2> QED
        BY <2>1, <2>2, <2>3 DEF JournalTypes
<1>2. DOMAIN file = {}
    BY DEF JournalInit
<1>3. \A w \in Writers : pc[w] = "idle"
    BY DEF JournalInit
<1>4. LineInv /\ OrderInv
    BY <1>2 DEF LineInv, OrderInv
<1>5. CallInv
    BY <1>3 DEF CallInv, Busy, JournalInit
<1>6. StampInv
    BY <1>3 DEF StampInv
<1> QED
    BY <1>1, <1>4, <1>5, <1>6 DEF JournalInv

\* The steps that leave the file alone keep what is said of its lines, if the counters grow
\* and seq starts again only in a new process.
LEMMA LinesKept ==
    ASSUME JournalInv, file' = file, torn' = torn,
           begun' \in Nat, begun <= begun', life' \in Nat, seq' \in Nat,
           \/ life' = life /\ seq <= seq'
           \/ life' = life + 1
    PROVE  LineInv' /\ OrderInv' /\ OnDisk' = OnDisk
<1>1. OnDisk' = OnDisk
    BY DEF OnDisk
<1>2. \A i \in DOMAIN file : file[i].entry \in Entries
    <2> TAKE i \in DOMAIN file
    <2>1. file[i] \in Lines
        BY DEF JournalInv, JournalTypes
    <2> QED
        BY <2>1 DEF Lines
<1>3. LineInv'
    <2> SUFFICES ASSUME NEW i \in DOMAIN file
                 PROVE  /\ file[i].entry.id <= begun'
                        /\ file[i].entry.life <= life'
                        /\ file[i].entry.life = life' => file[i].entry.seq <= seq'
                        /\ file[i].entry.after \subseteq OnDisk
                        /\ file[i].text # "whole" => torn
        BY <1>1 DEF LineInv
    <2>1. PICK e \in Entries : e = file[i].entry
        BY <1>2
    <2>2. /\ e.id \in Nat /\ e.life \in Nat /\ e.seq \in Nat
          /\ begun \in Nat /\ life \in Nat /\ seq \in Nat
        BY DEF Entries, JournalInv, JournalTypes
    <2>3. /\ e.id <= begun
          /\ e.life <= life
          /\ e.life = life => e.seq <= seq
          /\ e.after \subseteq OnDisk
          /\ file[i].text # "whole" => torn
        BY <2>1 DEF JournalInv, LineInv
    <2>4. e.id <= begun' /\ e.life <= life' /\ (e.life = life' => e.seq <= seq')
        BY <2>2, <2>3
    <2> QED
        BY <2>1, <2>3, <2>4
<1>4. OrderInv'
    BY DEF JournalInv, OrderInv
<1> QED
    BY <1>1, <1>3, <1>4

LEMMA AppendCalledKeeps ==
    ASSUME JournalInv, NEW w \in Writers, AppendCalled(w)
    PROVE  JournalInv'
<1> USE DEF AppendCalled, Goto
<1>t. JournalTypes
    BY DEF JournalInv
<1>1. JournalTypes'
    BY <1>t DEF JournalTypes, Calls, Labels
<1>2. LineInv' /\ OrderInv' /\ OnDisk' = OnDisk
    BY <1>t, LinesKept DEF JournalTypes
<1>3. begun + 1 \notin OnDisk /\ \A v \in Writers : Busy(v) => call[v].id # begun + 1
    <2>1. \A i \in DOMAIN file : file[i].entry.id <= begun /\ file[i].entry.id \in Nat
        <3> TAKE i \in DOMAIN file
        <3>1. file[i] \in Lines /\ file[i].entry.id <= begun
            BY <1>t DEF JournalInv, LineInv, JournalTypes
        <3> QED
            BY <3>1 DEF Lines, Entries
    <2>2. begun \in Nat /\ \A v \in Writers : call[v].id \in Nat
        BY <1>t DEF JournalTypes, Calls
    <2> QED
        BY <2>1, <2>2 DEF OnDisk, JournalInv, CallInv
<1>4. \A v \in Writers : v # w => pc'[v] = pc[v] /\ call'[v] = call[v]
    BY <1>t DEF JournalTypes
<1>5. pc'[w] = "mkdir" /\ call'[w].id = begun + 1 /\ call'[w].after = returned
    BY <1>t DEF JournalTypes
<1>6. CallInv'
    <2>0. begun \in Nat /\ \A v \in Writers : call[v].id \in Nat
        BY <1>t DEF JournalTypes, Calls
    <2>1. returned' \subseteq OnDisk'
        BY <1>2 DEF JournalInv, CallInv
    <2>2. ASSUME NEW v \in Writers
          PROVE  /\ Busy(v)' => /\ call'[v].id <= begun'
                                /\ call'[v].id \notin OnDisk'
                                /\ call'[v].after \subseteq returned'
                 /\ pc'[v] = "written" => call'[v].id \in OnDisk'
        <3>1. CASE v = w
            BY <3>1, <1>2, <1>3, <1>5, <2>0
        <3>2. CASE v # w
            BY <3>2, <1>2, <1>4, <2>0 DEF JournalInv, CallInv, Busy
        <3> QED
            BY <3>1, <3>2
    <2>3. ASSUME NEW u \in Writers, NEW v \in Writers, Busy(u)', Busy(v)', call'[u].id = call'[v].id
          PROVE  u = v
        BY <2>3, <1>3, <1>4, <1>5 DEF JournalInv, CallInv, Busy
    <2> QED
        BY <2>1, <2>2, <2>3 DEF CallInv
<1>7. StampInv'
    BY <1>4, <1>5 DEF JournalInv, StampInv
<1> QED
    BY <1>1, <1>2, <1>6, <1>7 DEF JournalInv

LEMMA MkdirDoneKeeps ==
    ASSUME JournalInv, NEW w \in Writers, MkdirDone(w)
    PROVE  JournalInv'
<1> USE DEF MkdirDone, Stamped, Entry, Goto
<1>t. JournalTypes
    BY DEF JournalInv
<1>n. seq \in Nat /\ life \in Nat /\ begun \in Nat /\ seq' = seq + 1
    BY <1>t DEF JournalTypes
<1>0. call[w] \in Calls
    BY <1>t DEF JournalTypes
<1>1. JournalTypes'
    BY <1>t, <1>0 DEF JournalTypes, Calls, Entries, Labels
<1>2. LineInv' /\ OrderInv' /\ OnDisk' = OnDisk
    BY <1>n, LinesKept
<1>3. \A v \in Writers : v # w => pc'[v] = pc[v] /\ entry'[v] = entry[v]
    BY <1>t DEF JournalTypes
<1>4. /\ pc'[w] = "write" /\ pc[w] = "mkdir"
      /\ entry'[w].seq = seq + 1 /\ entry'[w].life = life
      /\ entry'[w].id = call[w].id /\ entry'[w].after = call[w].after
    BY <1>t DEF JournalTypes
<1>5. \A v \in Writers : (Busy(v)' <=> Busy(v)) /\ (pc'[v] = "written" <=> pc[v] = "written")
    BY <1>3, <1>4 DEF Busy
<1>6. CallInv'
    BY <1>2, <1>5 DEF JournalInv, CallInv
<1>7. \A i \in DOMAIN file : file[i].entry.seq \in Nat /\ (file[i].entry.life = life => file[i].entry.seq <= seq)
    <2> TAKE i \in DOMAIN file
    <2>1. file[i] \in Lines
        BY <1>t DEF JournalTypes
    <2> QED
        BY <2>1 DEF Lines, Entries, JournalInv, LineInv
<1>8. \A v \in Writers : entry[v].seq \in Nat
    BY <1>t DEF JournalTypes, Entries
<1>9. StampInv'
    <2>1. ASSUME NEW v \in Writers, pc'[v] = "write"
          PROVE  /\ entry'[v].id = call'[v].id /\ entry'[v].after = call'[v].after
                 /\ entry'[v].life = life' /\ entry'[v].seq <= seq'
                 /\ \A i \in DOMAIN file' : file'[i].entry.life = life' =>
                      /\ file'[i].entry.seq # entry'[v].seq
                      /\ file'[i].entry.id \in entry'[v].after => file'[i].entry.seq < entry'[v].seq
        <3>1. CASE v = w
            BY <3>1, <1>n, <1>4, <1>7
        <3>2. CASE v # w
            BY <3>2, <2>1, <1>n, <1>3, <1>8 DEF JournalInv, StampInv
        <3> QED
            BY <3>1, <3>2
    <2>2. ASSUME NEW u \in Writers, NEW v \in Writers,
                 pc'[u] = "write", pc'[v] = "write", entry'[u].seq = entry'[v].seq
          PROVE  u = v
        BY <2>2, <1>n, <1>3, <1>4, <1>8 DEF JournalInv, StampInv
    <2> QED
        BY <2>1, <2>2 DEF StampInv
<1> QED
    BY <1>1, <1>2, <1>6, <1>9 DEF JournalInv

\* What one line more does to the file.
LEMMA OneLineMore ==
    ASSUME JournalInv, NEW w \in Writers, NEW text \in {"whole", "cut", "bare"}, pc[w] = "write",
           file' = Append(file, [entry |-> entry[w], text |-> text]),
           torn' \in BOOLEAN, torn => torn', text # "whole" => torn',
           UNCHANGED <<seq, entry, life, begun, call, returned>>,
           NEW label \in {"written", "failed"}, pc' = [pc EXCEPT ![w] = label]
    PROVE  JournalInv'
<1>t. JournalTypes
    BY DEF JournalInv
<1>0. entry[w] \in Entries
    BY <1>t DEF JournalTypes
<1>1. [entry |-> entry[w], text |-> text] \in Lines
    BY <1>0 DEF Lines
<1>2. PICK line \in Lines : line.entry = entry[w] /\ line.text = text /\ file' = Append(file, line)
    BY <1>1
<1>3. /\ file' \in Seq(Lines)
      /\ DOMAIN file = 1..Len(file) /\ Len(file) \in Nat
      /\ DOMAIN file' = 1..(Len(file) + 1)
      /\ \A i \in DOMAIN file : i \in DOMAIN file' /\ file'[i] = file[i]
      /\ file'[Len(file) + 1] = line
    BY <1>2, <1>t DEF JournalTypes
<1>4. \A i \in DOMAIN file' : i \in DOMAIN file \/ i = Len(file) + 1
    BY <1>3
<1>5. JournalTypes'
    BY <1>t, <1>3 DEF JournalTypes, Labels
<1>6. OnDisk' = OnDisk \cup {entry[w].id}
    BY <1>2, <1>3, <1>4 DEF OnDisk
<1>7. /\ entry[w].id = call[w].id /\ entry[w].after = call[w].after
      /\ entry[w].life = life /\ entry[w].seq <= seq
      /\ entry[w].id <= begun /\ entry[w].id \notin OnDisk
      /\ entry[w].after \subseteq OnDisk
    BY DEF JournalInv, CallInv, StampInv, Busy
<1>8. LineInv'
    <2> SUFFICES ASSUME NEW i \in DOMAIN file'
                 PROVE  /\ file'[i].entry.id <= begun'
                        /\ file'[i].entry.life <= life'
                        /\ file'[i].entry.life = life' => file'[i].entry.seq <= seq'
                        /\ file'[i].entry.after \subseteq OnDisk'
                        /\ file'[i].text # "whole" => torn'
        BY DEF LineInv
    <2>1. CASE i \in DOMAIN file
        BY <2>1, <1>3, <1>6 DEF JournalInv, LineInv
    <2>2. CASE i = Len(file) + 1
        <3>1. file'[i].entry = entry[w] /\ file'[i].text = text
            BY <2>2, <1>2, <1>3
        <3>2. life <= life
            BY <1>t DEF JournalTypes
        <3> QED
            BY <3>1, <3>2, <1>6, <1>7
    <2> QED
        BY <2>1, <2>2, <1>4
<1>9. OrderInv'
    <2> SUFFICES ASSUME NEW i \in DOMAIN file', NEW j \in DOMAIN file'
                 PROVE  /\ file'[i].entry.id = file'[j].entry.id => i = j
                        /\ file'[i].entry.life = file'[j].entry.life
                             /\ file'[i].entry.seq = file'[j].entry.seq => i = j
                        /\ file'[i].entry.id \in file'[j].entry.after =>
                             /\ i < j
                             /\ file'[i].entry.life = file'[j].entry.life =>
                                   file'[i].entry.seq < file'[j].entry.seq
        BY DEF OrderInv
    <2>n. file'[Len(file) + 1].entry = entry[w]
        BY <1>2, <1>3
    <2>s. /\ \A k \in DOMAIN file : file[k].entry.life = life =>
                  /\ file[k].entry.seq # entry[w].seq
                  /\ file[k].entry.id \in entry[w].after => file[k].entry.seq < entry[w].seq
          /\ \A k \in DOMAIN file : file[k].entry.after \subseteq OnDisk /\ file[k].entry.id \in OnDisk
        BY DEF JournalInv, StampInv, LineInv, OnDisk
    <2>1. CASE i \in DOMAIN file /\ j \in DOMAIN file
        BY <2>1, <1>3 DEF JournalInv, OrderInv
    <2>2. CASE i \in DOMAIN file /\ j = Len(file) + 1
        <3>1. i < j
            BY <2>2, <1>3
        <3>2. file'[i] = file[i] /\ file'[j].entry = entry[w]
            BY <2>2, <2>n, <1>3
        <3> QED
            BY <3>1, <3>2, <2>2, <2>s, <1>7
    <2>3. CASE i = Len(file) + 1 /\ j \in DOMAIN file
        <3>2. file'[j] = file[j] /\ file'[i].entry = entry[w]
            BY <2>3, <2>n, <1>3
        <3> QED
            BY <3>2, <2>3, <2>s, <1>7
    <2>4. CASE i = Len(file) + 1 /\ j = Len(file) + 1
        BY <2>4, <2>n, <1>7
    <2> QED
        BY <2>1, <2>2, <2>3, <2>4, <1>4
<1>10. \A v \in Writers : v # w => pc'[v] = pc[v]
    BY <1>t DEF JournalTypes
<1>11. pc'[w] = label
    BY <1>t DEF JournalTypes
<1>12. CallInv'
    <2>1. returned' \subseteq OnDisk'
        BY <1>6 DEF JournalInv, CallInv
    <2>2. ASSUME NEW v \in Writers
          PROVE  /\ Busy(v)' => /\ call'[v].id <= begun'
                                /\ call'[v].id \notin OnDisk'
                                /\ call'[v].after \subseteq returned'
                 /\ pc'[v] = "written" => call'[v].id \in OnDisk'
        <3>1. CASE v = w
            BY <3>1, <1>6, <1>7, <1>11 DEF Busy
        <3>2. CASE v # w
            <4>1. Busy(v)' => call[v].id # call[w].id
                BY <3>2, <1>10 DEF JournalInv, CallInv, Busy
            <4> QED
                BY <4>1, <3>2, <1>6, <1>7, <1>10 DEF JournalInv, CallInv, Busy
        <3> QED
            BY <3>1, <3>2
    <2>3. \A v \in Writers : Busy(v)' => Busy(v)
        BY <1>10, <1>11 DEF Busy
    <2> QED
        BY <2>1, <2>2, <2>3 DEF JournalInv, CallInv
<1>13. StampInv'
    <2>1. ASSUME NEW v \in Writers, pc'[v] = "write"
          PROVE  /\ entry'[v].id = call'[v].id /\ entry'[v].after = call'[v].after
                 /\ entry'[v].life = life' /\ entry'[v].seq <= seq'
                 /\ \A i \in DOMAIN file' : file'[i].entry.life = life' =>
                      /\ file'[i].entry.seq # entry'[v].seq
                      /\ file'[i].entry.id \in entry'[v].after => file'[i].entry.seq < entry'[v].seq
        <3>0. v # w /\ pc[v] = "write"
            BY <2>1, <1>10, <1>11
        <3>1. /\ entry[v].id = call[v].id /\ entry[v].after = call[v].after
              /\ entry[v].life = life /\ entry[v].seq <= seq
              /\ \A i \in DOMAIN file : file[i].entry.life = life =>
                    /\ file[i].entry.seq # entry[v].seq
                    /\ file[i].entry.id \in entry[v].after => file[i].entry.seq < entry[v].seq
              /\ entry[v].seq # entry[w].seq
            BY <3>0 DEF JournalInv, StampInv
        <3>2. entry[w].id \notin entry[v].after
            BY <3>0, <3>1, <1>7 DEF JournalInv, CallInv, Busy
        <3>3. ASSUME NEW i \in DOMAIN file', file'[i].entry.life = life'
              PROVE  /\ file'[i].entry.seq # entry'[v].seq
                     /\ file'[i].entry.id \in entry'[v].after => file'[i].entry.seq < entry'[v].seq
            <4>1. CASE i \in DOMAIN file
                BY <4>1, <3>1, <3>3, <1>3
            <4>2. CASE i = Len(file) + 1
                BY <4>2, <3>1, <3>2, <1>2, <1>3
            <4> QED
                BY <4>1, <4>2, <1>4
        <3> QED
            BY <3>1, <3>3
    <2>2. \A v \in Writers : pc'[v] = "write" => pc[v] = "write"
        BY <1>10, <1>11
    <2> QED
        BY <2>1, <2>2 DEF JournalInv, StampInv
<1> QED
    BY <1>5, <1>8, <1>9, <1>12, <1>13 DEF JournalInv

\* A step after which nobody has anything more to write than before.
LEMMA EndsKeep ==
    ASSUME JournalInv, UNCHANGED <<file, entry, begun, call, torn>>,
           pc' \in [Writers -> Labels],
           \A v \in Writers : pc'[v] = pc[v] \/ pc'[v] \in {"idle", "failed"},
           returned \subseteq returned', returned' \subseteq OnDisk,
           \/ seq' = seq /\ life' = life
           \/ seq' = 0 /\ life' = life + 1 /\ \A v \in Writers : pc'[v] = "idle"
    PROVE  JournalInv'
<1>t. JournalTypes
    BY DEF JournalInv
<1>n. seq \in Nat /\ life \in Nat /\ begun \in Nat /\ seq' \in Nat /\ life' \in Nat
    BY <1>t DEF JournalTypes
<1>1. OnDisk \subseteq Nat
    <2>1. \A i \in DOMAIN file : file[i] \in Lines
        BY <1>t DEF JournalTypes
    <2> QED
        BY <2>1 DEF OnDisk, Lines, Entries
<1>2. JournalTypes'
    BY <1>t, <1>1, <1>n DEF JournalTypes
<1>3. LineInv' /\ OrderInv' /\ OnDisk' = OnDisk
    BY <1>n, LinesKept
<1>4. \A v \in Writers : /\ Busy(v)' => Busy(v)
                         /\ pc'[v] = "written" => pc[v] = "written"
                         /\ pc'[v] = "write" => pc[v] = "write" /\ seq' = seq /\ life' = life
    BY DEF Busy
<1>5. CallInv'
    BY <1>3, <1>4 DEF JournalInv, CallInv
<1>6. StampInv'
    BY <1>4 DEF JournalInv, StampInv
<1> QED
    BY <1>2, <1>3, <1>5, <1>6 DEF JournalInv

LEMMA JournalStep == JournalInv /\ [JournalNext]_journalVars => JournalInv'
<1> SUFFICES ASSUME JournalInv, [JournalNext]_journalVars PROVE JournalInv'
    OBVIOUS
<1>t. JournalTypes /\ returned \subseteq OnDisk
    BY DEF JournalInv, CallInv
<1>1. ASSUME NEW w \in Writers, AppendCalled(w) PROVE JournalInv'
    BY <1>1, AppendCalledKeeps
<1>2. ASSUME NEW w \in Writers, MkdirDone(w) PROVE JournalInv'
    BY <1>2, MkdirDoneKeeps
<1>3. ASSUME NEW w \in Writers, Written(w) PROVE JournalInv'
    BY <1>3, <1>t, OneLineMore DEF Written, Goto, JournalTypes
<1>4. ASSUME NEW w \in Writers, NEW text \in {"nothing", "cut", "bare"}, WrittenShort(w, text)
      PROVE  JournalInv'
    <2>1. CASE text = "nothing"
        <3>1. /\ UNCHANGED <<file, entry, begun, call, seq, life, returned>>
              /\ pc' = [pc EXCEPT ![w] = "failed"] /\ torn' = (torn \/ FALSE)
            BY <1>4, <2>1 DEF WrittenShort, Goto
        <3>2. torn' = torn
            BY <3>1, <1>t, Zenon DEF JournalTypes
        <3>3. /\ pc' \in [Writers -> Labels]
              /\ \A v \in Writers : pc'[v] = pc[v] \/ pc'[v] \in {"idle", "failed"}
            BY <3>1, <1>t DEF JournalTypes, Labels
        <3> QED
            BY <3>1, <3>2, <3>3, <1>t, EndsKeep
    <2>2. CASE text # "nothing"
        <3>1. /\ UNCHANGED <<seq, entry, life, begun, call, returned>> /\ pc[w] = "write"
              /\ pc' = [pc EXCEPT ![w] = "failed"] /\ torn' = TRUE
              /\ file' = Append(file, [entry |-> entry[w], text |-> text])
              /\ text \in {"whole", "cut", "bare"}
            BY <1>4, <2>2 DEF WrittenShort, Goto
        <3> QED
            BY <3>1, <1>t, OneLineMore
    <2> QED
        BY <2>1, <2>2
<1>5. ASSUME NEW w \in Writers, AppendReturns(w) PROVE JournalInv'
    <2>1. returned \subseteq returned' /\ returned' \subseteq OnDisk
        BY <1>5 DEF AppendReturns, JournalInv, CallInv
    <2>2. /\ pc' \in [Writers -> Labels]
          /\ \A v \in Writers : pc'[v] = pc[v] \/ pc'[v] \in {"idle", "failed"}
        BY <1>5, <1>t DEF AppendReturns, Goto, JournalTypes, Labels
    <2> QED
        BY <1>5, <2>1, <2>2, EndsKeep DEF AppendReturns
<1>6. ASSUME NEW w \in Writers, AppendRejects(w) PROVE JournalInv'
    <2>1. /\ pc' \in [Writers -> Labels]
          /\ \A v \in Writers : pc'[v] = pc[v] \/ pc'[v] \in {"idle", "failed"}
        BY <1>6, <1>t DEF AppendRejects, Goto, JournalTypes, Labels
    <2> QED
        BY <1>6, <2>1, <1>t, EndsKeep DEF AppendRejects
<1>7. CASE Restart
    <2>1. /\ pc' \in [Writers -> Labels]
          /\ \A v \in Writers : pc'[v] = "idle"
        BY <1>7 DEF Restart, Labels
    <2> QED
        BY <1>7, <2>1, <1>t, EndsKeep DEF Restart
<1>8. CASE UNCHANGED journalVars
    <2>1. /\ UNCHANGED <<file, entry, begun, call, torn, seq, life, pc, returned>>
        BY <1>8 DEF journalVars
    <2> QED
        BY <2>1, <1>t, EndsKeep DEF JournalTypes
<1> QED
    BY <1>1, <1>2, <1>3, <1>4, <1>5, <1>6, <1>7, <1>8 DEF JournalNext

LEMMA JournalInvKept == JournalInv => JournalIsKept
<1> SUFFICES ASSUME JournalInv PROVE JournalIsKept
    OBVIOUS
<1> DEFINE all == ReadAll
<1>1. CASE Parses
    <2>1. DOMAIN all = DOMAIN file /\ \A i \in DOMAIN file : all[i] = file[i].entry
        BY <1>1 DEF ReadAll
    <2>2. returned \subseteq {all[i].id : i \in DOMAIN all}
        BY <2>1 DEF JournalInv, CallInv, OnDisk
    <2>3. \A i, j \in DOMAIN all :
            /\ all[i].id = all[j].id => i = j
            /\ all[i].life = all[j].life /\ all[i].seq = all[j].seq => i = j
            /\ all[i].id \in all[j].after =>
                  /\ i < j
                  /\ all[i].life = all[j].life => all[i].seq < all[j].seq
        BY <2>1 DEF JournalInv, OrderInv
    <2> QED
        BY <2>2, <2>3 DEF JournalIsKept
<1>2. CASE ~ Parses
    <2>1. DOMAIN all = {}
        BY <1>2 DEF ReadAll
    <2>2. torn
        BY <1>2 DEF Parses, JournalInv, LineInv
    <2> QED
        BY <2>1, <2>2 DEF JournalIsKept
<1> QED
    BY <1>1, <1>2

\* As long as no append stopped short, readAll gives every entry whose append
\* returned, once, before or after any number of restarts; the entries of one process
\* have distinct numbers, in the order in which the calls followed each other.
THEOREM JournalKeepsEntries == JournalSpec => []JournalIsKept
<1>1. JournalInit => JournalInv
    BY JournalStart
<1>2. JournalInv /\ [JournalNext]_journalVars => JournalInv'
    BY JournalStep
<1>3. JournalInv => JournalIsKept
    BY JournalInvKept
<1> QED
    BY <1>1, <1>2, <1>3, PTL DEF JournalSpec

-----------------------------------------------------------------------------
(* Webhooks: the invariant.                                                *)

Sends   == [attempts : Nat, began : Times \cup {None}, status : {"pending", "delivered", "failed"}]
Records == [run : Runs, endpoint : EndpointIds, status : {"delivered", "failed"}, attempts : Nat]

HookTypes ==
    /\ endpoints \in Seq([tenant : Tenants, events : Subscriptions])
    /\ Len(endpoints) <= MaxEndpoints
    /\ published \in [Runs -> Events \cup {None}]
    /\ known \in [Runs -> Nat]
    /\ todo \in [Runs -> Seq(EndpointIds)]
    /\ delivery \in [Runs -> [id : Times \cup {None}, attempts : Nat]]
    /\ deliveries \in [Times -> Records \cup {None}]
    /\ sent \in [Runs -> [EndpointIds -> Sends]]
    /\ hookNow \in Times

\* An event finds the endpoints there are; there is no run of which nothing was published
\* and that has subscribers.
KnownInv ==
    \A r \in Runs : known[r] <= Len(endpoints) /\ (published[r] = None => known[r] = 0)

\* A delivery that came to its end after the allowed number of attempts.
Ended(s) ==
    /\ s.status \in {"delivered", "failed"}
    /\ s.attempts \in 1..MaxAttempts /\ s.began \in Times
    /\ s.status = "failed" => s.attempts = MaxAttempts

\* Of the subscribers `subs`, those in `rest` were sent nothing yet and all others
\* are dealt with.
Waiting(subs, rest, sends) ==
    /\ \A j, k \in DOMAIN rest : rest[j] = rest[k] => j = k
    /\ \A k \in DOMAIN rest : rest[k] \in subs /\ sends[rest[k]] = Unsent
    /\ \A e \in EndpointIds \ subs : sends[e] = Unsent
    /\ \A e \in subs : Ended(sends[e]) \/ \E k \in DOMAIN rest : rest[k] = e

\* The same, while the first of the list is being served.
Serving(subs, list, under, sends) ==
    /\ \A j, k \in DOMAIN list : list[j] = list[k] => j = k
    /\ \A k \in DOMAIN list : list[k] \in subs /\ (k # 1 => sends[list[k]] = Unsent)
    /\ \A e \in EndpointIds \ subs : sends[e] = Unsent
    /\ \A e \in subs : Ended(sends[e]) \/ \E k \in DOMAIN list : list[k] = e
    /\ list # << >> =>
         /\ under.attempts \in 1..MaxAttempts /\ under.id \in Times
         /\ sends[list[1]] = [attempts |-> under.attempts, began |-> under.id, status |-> "pending"]

ServedInv == \A r \in Runs : Serving(Subscribers(r), todo[r], delivery[r], sent[r])

\* The store tells the truth of the deliveries it has, and of every delivery that
\* ended it has one that began in the same millisecond.
RecordsInv ==
    /\ \A t \in Times : deliveries[t] # None =>
         sent[deliveries[t].run][deliveries[t].endpoint] =
             [attempts |-> deliveries[t].attempts, began |-> t, status |-> deliveries[t].status]
    /\ \A r \in Runs, e \in EndpointIds :
         sent[r][e].status # "pending" => deliveries[sent[r][e].began] # None

HookInv == HookTypes /\ KnownInv /\ ServedInv /\ RecordsInv

-----------------------------------------------------------------------------
(* Webhooks: what the parts of an emit do.                                 *)

LEMMA SubscribersAreEndpoints ==
    ASSUME HookTypes, KnownInv, NEW r \in Runs
    PROVE  Subscribers(r) \subseteq EndpointIds
<1>1. known[r] \in Nat /\ known[r] <= Len(endpoints) /\ Len(endpoints) <= MaxEndpoints
    BY DEF HookTypes, KnownInv
<1>2. Len(endpoints) \in Nat /\ MaxEndpoints \in Nat
    BY HookAssumption DEF HookTypes
<1> QED
    BY <1>1, <1>2 DEF Subscribers, EndpointIds

\* The list of listForEvent holds every endpoint that is wanted, once.
LEMMA ListIsComplete ==
    ASSUME HookTypes, NEW type, NEW list \in ListForEvent(type)
    PROVE  /\ list \in Seq(EndpointIds)
           /\ \A j, k \in DOMAIN list : list[j] = list[k] => j = k
           /\ \A k \in DOMAIN list : list[k] \in Wanted(type)
           /\ \A e \in Wanted(type) : \E k \in DOMAIN list : list[k] = e
<1> DEFINE W == Wanted(type)
<1>1. Len(endpoints) \in Nat /\ DOMAIN endpoints = 1..Len(endpoints) /\ Len(endpoints) <= MaxEndpoints
    BY DEF HookTypes
<1>2. W \subseteq 1..Len(endpoints) /\ W \subseteq EndpointIds /\ W \subseteq Nat
    BY <1>1, HookAssumption DEF Wanted, EndpointIds
<1>3. IsFiniteSet(W)
    <2>1. IsFiniteSet(1..Len(endpoints))
        BY <1>1, FS_Interval
    <2> QED
        BY <2>1, <1>2, FS_Subset
<1>4. Cardinality(W) \in Nat
    BY <1>3, FS_CardinalityType
<1>5. PICK n \in Nat : n = Cardinality(W)
    BY <1>4
<1>6. list \in [1..n -> W] /\ \A j, k \in DOMAIN list : j < k => list[j] < list[k]
    BY <1>5 DEF ListForEvent
<1>7. \A j, k \in 1..n : list[j] = list[k] => j = k
    <2> SUFFICES ASSUME NEW j \in 1..n, NEW k \in 1..n, list[j] = list[k] PROVE j = k
        OBVIOUS
    <2>1. list[j] \in Nat /\ list[k] \in Nat
        BY <1>2, <1>6
    <2>2. (j < k => list[j] < list[k]) /\ (k < j => list[k] < list[j])
        BY <1>6
    <2> QED
        BY <2>1, <2>2
<1>8. list \in Injection(1..n, W)
    BY <1>6, <1>7 DEF Injection, IsInjective
<1>9. Cardinality(1..n) = n
    BY FS_Interval
<1>10. list \in Surjection(1..n, W)
    BY <1>3, <1>5, <1>8, <1>9, FS_Injection
<1>11. list \in Seq(EndpointIds)
    <2>1. list \in [1..n -> EndpointIds]
        BY <1>2, <1>6
    <2> QED
        BY <2>1, SeqDef
<1> QED
    BY <1>6, <1>7, <1>10, <1>11 DEF Surjection

\* The head of the loop of emit: from a list that waits to its first endpoint being served.
LEMMA DispatchServes ==
    ASSUME HookTypes, NEW r \in Runs, NEW subs \in SUBSET EndpointIds,
           NEW rest \in Seq(EndpointIds), NEW done \in [EndpointIds -> Sends],
           Waiting(subs, rest, done), DispatchNext(r, rest, done)
    PROVE  /\ todo' \in [Runs -> Seq(EndpointIds)]
           /\ delivery' \in [Runs -> [id : Times \cup {None}, attempts : Nat]]
           /\ sent' \in [Runs -> [EndpointIds -> Sends]]
           /\ \A q \in Runs : q # r => todo'[q] = todo[q] /\ delivery'[q] = delivery[q] /\ sent'[q] = sent[q]
           /\ Serving(subs, todo'[r], delivery'[r], sent'[r])
           /\ \A e \in EndpointIds : \/ sent'[r][e] = done[e]
                                     \/ done[e] = Unsent /\ sent'[r][e].status = "pending"
<1>1. /\ todo' = [todo EXCEPT ![r] = rest]
      /\ todo' \in [Runs -> Seq(EndpointIds)] /\ todo'[r] = rest
      /\ \A q \in Runs : q # r => todo'[q] = todo[q]
    BY DEF DispatchNext, HookTypes
<1>2. CASE rest = << >>
    <2>1. delivery' = [delivery EXCEPT ![r] = NoDelivery] /\ sent' = [sent EXCEPT ![r] = done]
        BY <1>2 DEF DispatchNext
    <2>2. NoDelivery \in [id : Times \cup {None}, attempts : Nat]
        BY DEF NoDelivery
    <2>3. /\ delivery' \in [Runs -> [id : Times \cup {None}, attempts : Nat]]
          /\ \A q \in Runs : q # r => delivery'[q] = delivery[q] /\ sent'[q] = sent[q]
          /\ sent' \in [Runs -> [EndpointIds -> Sends]] /\ sent'[r] = done
        BY <2>1, <2>2 DEF HookTypes
    <2>4. Serving(subs, todo'[r], delivery'[r], sent'[r])
        BY <1>1, <1>2, <2>3 DEF Waiting, Serving
    <2> QED
        BY <1>1, <2>3, <2>4
<1>3. CASE rest # << >>
    <2> DEFINE dl == [id |-> hookNow, attempts |-> 1]
               s1 == [attempts |-> 1, began |-> hookNow, status |-> "pending"]
               sn == [done EXCEPT ![Head(rest)] = s1]
    <2>0. Head(rest) = rest[1] /\ rest[1] \in EndpointIds /\ 1 \in DOMAIN rest
        BY <1>3
    <2>1. delivery' = [delivery EXCEPT ![r] = dl] /\ sent' = [sent EXCEPT ![r] = sn]
        BY <1>3 DEF DispatchNext
    <2>2. /\ dl \in [id : Times \cup {None}, attempts : Nat]
          /\ dl.id = hookNow /\ dl.attempts = 1 /\ hookNow \in Times
          /\ s1 \in Sends /\ s1.status = "pending"
          /\ s1 = [attempts |-> dl.attempts, began |-> dl.id, status |-> "pending"]
        BY DEF HookTypes, Sends
    <2> HIDE DEF dl, s1
    <2>3. /\ sn \in [EndpointIds -> Sends] /\ sn[rest[1]] = s1
          /\ \A e \in EndpointIds : e # rest[1] => sn[e] = done[e]
        BY <2>0, <2>2
    <2> HIDE DEF sn
    <2>4. /\ delivery' \in [Runs -> [id : Times \cup {None}, attempts : Nat]] /\ delivery'[r] = dl
          /\ \A q \in Runs : q # r => delivery'[q] = delivery[q] /\ sent'[q] = sent[q]
          /\ sent' \in [Runs -> [EndpointIds -> Sends]] /\ sent'[r] = sn
        BY <2>1, <2>2, <2>3 DEF HookTypes
    <2>5. 1 \in 1..MaxAttempts
        BY HookAssumption
    <2>6. /\ \A j, k \in DOMAIN rest : rest[j] = rest[k] => j = k
          /\ \A k \in DOMAIN rest : rest[k] \in subs /\ done[rest[k]] = Unsent
          /\ \A e \in EndpointIds \ subs : done[e] = Unsent
          /\ \A e \in subs : Ended(done[e]) \/ \E k \in DOMAIN rest : rest[k] = e
        BY DEF Waiting
    <2>7. \A k \in DOMAIN rest : rest[k] \in subs /\ (k # 1 => sn[rest[k]] = Unsent)
        BY <2>0, <2>3, <2>6
    <2>8. \A e \in EndpointIds \ subs : sn[e] = Unsent
        BY <2>0, <2>3, <2>6
    <2>9. \A e \in subs : Ended(sn[e]) \/ \E k \in DOMAIN rest : rest[k] = e
        <3> TAKE e \in subs
        <3>1. CASE e = rest[1]
            BY <3>1, <2>0
        <3>2. CASE e # rest[1]
            <4>1. sn[e] = done[e]
                BY <3>2, <2>3
            <4> QED
                BY <4>1, <2>6
        <3> QED
            BY <3>1, <3>2
    <2>10. Serving(subs, rest, dl, sn)
        BY <2>2, <2>3, <2>5, <2>6, <2>7, <2>8, <2>9 DEF Serving
    <2>11. \A e \in EndpointIds : sn[e] = done[e] \/ (done[e] = Unsent /\ sn[e].status = "pending")
        BY <2>0, <2>2, <2>3, <2>6
    <2> QED
        BY <1>1, <2>4, <2>10, <2>11
<1> QED
    BY <1>2, <1>3

\* Every delivery that does not wait for an answer and has begun has ended as it should.
LEMMA BegunMeansEnded ==
    ASSUME HookInv, NEW r \in Runs, NEW e \in EndpointIds, sent[r][e].status # "pending"
    PROVE  Ended(sent[r][e])
<1> DEFINE list == todo[r]
           subs == Subscribers(r)
<1>1. Serving(subs, list, delivery[r], sent[r])
    BY DEF HookInv, ServedInv
<1>2. list \in Seq(EndpointIds)
    BY DEF HookInv, HookTypes
<1> HIDE DEF list, subs
<1>3. sent[r][e] # Unsent
    BY DEF Unsent
<1>4. \A k \in DOMAIN list : list[k] = e => FALSE
    <2> SUFFICES ASSUME NEW k \in DOMAIN list, list[k] = e PROVE FALSE
        OBVIOUS
    <2>1. k = 1
        BY <1>1, <1>3 DEF Serving
    <2>2. list # << >>
        BY <1>2
    <2>3. sent[r][e] = [attempts |-> delivery[r].attempts, began |-> delivery[r].id, status |-> "pending"]
        BY <1>1, <2>1, <2>2 DEF Serving
    <2> QED
        BY <2>3
<1>5. e \in subs
    BY <1>1, <1>3 DEF Serving
<1> QED
    BY <1>1, <1>4, <1>5 DEF Serving

\* What emit has sent when the delivery under way has come to its end.
Concluded(r, status) == [sent[r] EXCEPT ![Head(todo[r])].status = status]

LEMMA ConcludedWaits ==
    ASSUME HookInv, NEW r \in Runs, todo[r] # << >>, NEW status \in {"delivered", "failed"},
           status = "failed" => delivery[r].attempts = MaxAttempts
    PROVE  /\ Head(todo[r]) \in EndpointIds /\ Tail(todo[r]) \in Seq(EndpointIds)
           /\ delivery[r].id \in Times /\ delivery[r].attempts \in Nat
           /\ sent[r][Head(todo[r])].status = "pending"
           /\ Concluded(r, status) \in [EndpointIds -> Sends]
           /\ Concluded(r, status)[Head(todo[r])] =
                [attempts |-> delivery[r].attempts, began |-> delivery[r].id, status |-> status]
           /\ \A e \in EndpointIds : e # Head(todo[r]) => Concluded(r, status)[e] = sent[r][e]
           /\ Waiting(Subscribers(r), Tail(todo[r]), Concluded(r, status))
<1> DEFINE list  == todo[r]
           subs  == Subscribers(r)
           sends == sent[r]
           done  == Concluded(r, status)
<1>1. Serving(subs, list, delivery[r], sends)
    BY DEF HookInv, ServedInv
<1>2. list \in Seq(EndpointIds) /\ list # << >> /\ sends \in [EndpointIds -> Sends]
    BY DEF HookInv, HookTypes
<1>3. done = [sends EXCEPT ![Head(list)].status = status]
    BY DEF Concluded
<1>s. subs \subseteq EndpointIds
    BY SubscribersAreEndpoints DEF HookInv
<1> HIDE DEF list, subs, sends, done
<1>4. /\ Head(list) = list[1] /\ list[1] \in EndpointIds /\ 1 \in DOMAIN list
      /\ Tail(list) \in Seq(EndpointIds) /\ Len(Tail(list)) = Len(list) - 1 /\ Len(list) \in Nat
      /\ DOMAIN list = 1..Len(list) /\ DOMAIN Tail(list) = 1..(Len(list) - 1)
      /\ \A i \in DOMAIN Tail(list) : Tail(list)[i] = list[i + 1] /\ i + 1 \in DOMAIN list /\ i + 1 # 1
    BY <1>2, HeadTailProperties
<1>5. /\ delivery[r].attempts \in 1..MaxAttempts /\ delivery[r].id \in Times
      /\ sends[list[1]] = [attempts |-> delivery[r].attempts, began |-> delivery[r].id, status |-> "pending"]
    BY <1>1, <1>2 DEF Serving
<1>6. PICK at, id : at = delivery[r].attempts /\ id = delivery[r].id
    OBVIOUS
<1>7. at \in 1..MaxAttempts /\ at \in Nat /\ id \in Times
    BY <1>5, <1>6
<1>8. sends[list[1]] = [attempts |-> at, began |-> id, status |-> "pending"]
    BY <1>5, <1>6
<1>9. done = [sends EXCEPT ![list[1]] = [sends[list[1]] EXCEPT !.status = status]]
    BY <1>2, <1>3, <1>4
<1>10. PICK s1 : s1 = [attempts |-> at, began |-> id, status |-> status]
    OBVIOUS
<1>11. s1 \in Sends /\ Ended(s1)
    BY <1>6, <1>7, <1>10 DEF Sends, Ended
<1>12. [sends[list[1]] EXCEPT !.status = status] = s1
    BY <1>8, <1>10
<1>13. /\ done \in [EndpointIds -> Sends] /\ done[list[1]] = s1
       /\ \A e \in EndpointIds : e # list[1] => done[e] = sends[e]
    BY <1>2, <1>4, <1>9, <1>11, <1>12
<1>14. Waiting(subs, Tail(list), done)
    <2>1. \A j, k \in DOMAIN Tail(list) : Tail(list)[j] = Tail(list)[k] => j = k
        <3> SUFFICES ASSUME NEW j \in DOMAIN Tail(list), NEW k \in DOMAIN Tail(list),
                            Tail(list)[j] = Tail(list)[k]
                     PROVE  j = k
            OBVIOUS
        <3>1. j + 1 = k + 1
            BY <1>1, <1>4 DEF Serving
        <3> QED
            BY <3>1, <1>4
    <2>2. \A k \in DOMAIN Tail(list) : Tail(list)[k] \in subs /\ done[Tail(list)[k]] = Unsent
        <3> TAKE k \in DOMAIN Tail(list)
        <3>1. list[k + 1] # list[1] /\ list[k + 1] \in subs /\ sends[list[k + 1]] = Unsent
            BY <1>1, <1>4 DEF Serving
        <3> QED
            BY <3>1, <1>4, <1>s, <1>13
    <2>3. \A e \in EndpointIds \ subs : done[e] = Unsent
        <3>1. list[1] \in subs
            BY <1>1, <1>4 DEF Serving
        <3> QED
            BY <3>1, <1>1, <1>13 DEF Serving
    <2>4. \A e \in subs : Ended(done[e]) \/ \E k \in DOMAIN Tail(list) : Tail(list)[k] = e
        <3> TAKE e \in subs
        <3>1. CASE e = list[1]
            BY <3>1, <1>11, <1>13
        <3>2. CASE e # list[1] /\ Ended(sends[e])
            <4>1. done[e] = sends[e]
                BY <3>2, <1>s, <1>13
            <4> QED
                BY <3>2, <4>1
        <3>3. CASE e # list[1] /\ \E k \in DOMAIN list : list[k] = e
            <4>1. PICK k \in DOMAIN list : list[k] = e
                BY <3>3
            <4>2. k - 1 \in DOMAIN Tail(list) /\ (k - 1) + 1 = k
                BY <3>3, <4>1, <1>4
            <4> QED
                BY <4>1, <4>2, <1>4
        <3> QED
            BY <3>1, <3>2, <3>3, <1>1 DEF Serving
    <2> QED
        BY <2>1, <2>2, <2>3, <2>4 DEF Waiting
<1>15. sends[list[1]].status = "pending"
    BY <1>8
<1> QED
    BY <1>4, <1>6, <1>7, <1>10, <1>13, <1>14, <1>15 DEF list, subs, sends, done

-----------------------------------------------------------------------------
(* Webhooks: every step keeps the invariant.                               *)

LEMMA HookStart == HookInit => HookInv
<1> SUFFICES ASSUME HookInit PROVE HookInv
    OBVIOUS
<1>0. /\ Unsent \in Sends /\ NoDelivery \in [id : Times \cup {None}, attempts : Nat]
      /\ Unsent.status = "pending"
    BY DEF Unsent, NoDelivery, Sends
<1>1. HookTypes
    <2>1. /\ endpoints \in Seq([tenant : Tenants, events : Subscriptions])
          /\ Len(endpoints) <= MaxEndpoints /\ hookNow \in Times
        BY HookAssumption DEF HookInit, Times
    <2>2. /\ published \in [Runs -> Events \cup {None}] /\ known \in [Runs -> Nat]
          /\ todo \in [Runs -> Seq(EndpointIds)] /\ deliveries \in [Times -> Records \cup {None}]
        BY DEF HookInit
    <2>3. /\ delivery \in [Runs -> [id : Times \cup {None}, attempts : Nat]]
          /\ sent \in [Runs -> [EndpointIds -> Sends]]
        BY <1>0 DEF HookInit
    <2> QED
        BY <2>1, <2>2, <2>3 DEF HookTypes
<1>2. KnownInv
    BY DEF HookInit, KnownInv
<1>3. ServedInv
    <2> SUFFICES ASSUME NEW r \in Runs PROVE Serving(Subscribers(r), todo[r], delivery[r], sent[r])
        BY DEF ServedInv
    <2>1. todo[r] = << >> /\ known[r] = 0 /\ \A e \in EndpointIds : sent[r][e] = Unsent
        BY DEF HookInit
    <2>2. Subscribers(r) = {}
        BY <2>1 DEF Subscribers
    <2> QED
        BY <2>1, <2>2 DEF Serving
<1>4. RecordsInv
    BY <1>0 DEF HookInit, RecordsInv
<1> QED
    BY <1>1, <1>2, <1>3, <1>4 DEF HookInv

\* Who should hear of a run does not change with what is registered later.
LEMMA SubscribersStay ==
    ASSUME HookTypes, KnownInv, NEW r \in Runs,
           known'[r] = known[r], published'[r] = published[r],
           \A e \in 1..Len(endpoints) : endpoints'[e] = endpoints[e]
    PROVE  Subscribers(r)' = Subscribers(r)
<1>1. 1..known[r] \subseteq 1..Len(endpoints)
    BY DEF HookTypes, KnownInv
<1> QED
    BY <1>1 DEF Subscribers

LEMMA RegisterKeeps ==
    ASSUME HookInv, NEW t \in Tenants, NEW s \in Subscriptions, RegisterEndpoint(t, s)
    PROVE  HookInv'
<1>1. HookTypes /\ KnownInv /\ ServedInv /\ RecordsInv
    BY DEF HookInv
<1>2. PICK p \in [tenant : Tenants, events : Subscriptions] : endpoints' = Append(endpoints, p)
    BY DEF RegisterEndpoint
<1>3. /\ UNCHANGED <<published, known, counted, todo, delivery, deliveries, sent, hookNow>>
      /\ Len(endpoints) < MaxEndpoints
    BY DEF RegisterEndpoint
<1>4. /\ endpoints' \in Seq([tenant : Tenants, events : Subscriptions])
      /\ Len(endpoints') = Len(endpoints) + 1 /\ Len(endpoints) \in Nat
      /\ \A e \in 1..Len(endpoints) : endpoints'[e] = endpoints[e]
    BY <1>1, <1>2 DEF HookTypes
<1>5. HookTypes'
    BY <1>1, <1>3, <1>4, HookAssumption DEF HookTypes
<1>6. KnownInv'
    <2>1. \A r \in Runs : known[r] \in Nat
        BY <1>1 DEF HookTypes
    <2> QED
        BY <1>1, <1>3, <1>4, <2>1 DEF KnownInv
<1>7. \A r \in Runs : Subscribers(r)' = Subscribers(r)
    BY <1>1, <1>3, <1>4, SubscribersStay
<1>8. ServedInv'
    BY <1>1, <1>3, <1>7 DEF ServedInv
<1>9. RecordsInv'
    BY <1>1, <1>3 DEF RecordsInv
<1> QED
    BY <1>5, <1>6, <1>8, <1>9 DEF HookInv

\* The end of a delivery: it is recorded and the loop goes on.
LEMMA ConcludeKeeps ==
    ASSUME HookInv, NEW r \in Runs, todo[r] # << >>, NEW status \in {"delivered", "failed"},
           status = "failed" => delivery[r].attempts = MaxAttempts,
           Save(r, status), DispatchNext(r, Tail(todo[r]), Concluded(r, status)),
           UNCHANGED <<endpoints, published, known, counted, hookNow>>
    PROVE  HookInv'
<1> DEFINE h    == Head(todo[r])
           t0   == delivery[r].id
           done == Concluded(r, status)
<1>1. HookTypes /\ KnownInv /\ ServedInv /\ RecordsInv
    BY DEF HookInv
<1>2. /\ h \in EndpointIds /\ Tail(todo[r]) \in Seq(EndpointIds)
      /\ t0 \in Times /\ delivery[r].attempts \in Nat
      /\ sent[r][h].status = "pending"
      /\ done \in [EndpointIds -> Sends]
      /\ done[h] = [attempts |-> delivery[r].attempts, began |-> t0, status |-> status]
      /\ \A e \in EndpointIds : e # h => done[e] = sent[r][e]
      /\ Waiting(Subscribers(r), Tail(todo[r]), done)
    BY ConcludedWaits
<1>3. Subscribers(r) \in SUBSET EndpointIds
    BY <1>1, SubscribersAreEndpoints
<1>4. /\ todo' \in [Runs -> Seq(EndpointIds)]
      /\ delivery' \in [Runs -> [id : Times \cup {None}, attempts : Nat]]
      /\ sent' \in [Runs -> [EndpointIds -> Sends]]
      /\ \A q \in Runs : q # r => todo'[q] = todo[q] /\ delivery'[q] = delivery[q] /\ sent'[q] = sent[q]
      /\ Serving(Subscribers(r), todo'[r], delivery'[r], sent'[r])
      /\ \A e \in EndpointIds : \/ sent'[r][e] = done[e]
                                \/ done[e] = Unsent /\ sent'[r][e].status = "pending"
    BY <1>1, <1>2, <1>3, DispatchServes
<1>5. PICK d \in Records :
        /\ d.run = r /\ d.endpoint = h /\ d.status = status /\ d.attempts = delivery[r].attempts
        /\ deliveries' = [deliveries EXCEPT ![t0] = d]
    BY <1>2 DEF Save, Records
<1>6. /\ deliveries' \in [Times -> Records \cup {None}] /\ deliveries'[t0] = d
      /\ \A t \in Times : t # t0 => deliveries'[t] = deliveries[t]
    BY <1>1, <1>2, <1>5 DEF HookTypes
<1>7. None \notin Records
    BY HookAssumption DEF Records
<1>8. HookTypes'
    BY <1>1, <1>4, <1>6 DEF HookTypes
<1>9. KnownInv'
    BY <1>1 DEF KnownInv
<1>10. \A q \in Runs : Subscribers(q)' = Subscribers(q)
    BY <1>1, SubscribersStay
<1>11. ServedInv'
    BY <1>1, <1>4, <1>10 DEF ServedInv
<1> HIDE DEF h, t0, done
<1>12. sent'[r][h] = done[h]
    BY <1>2, <1>4 DEF Unsent
<1>13. \A e \in EndpointIds : sent'[r][e].status # "pending" =>
          sent'[r][e] = done[e] /\ (e # h => sent'[r][e] = sent[r][e])
    BY <1>2, <1>4
<1>14. \A e \in EndpointIds : e # h /\ sent[r][e].status # "pending" => sent'[r][e] = sent[r][e]
    BY <1>2, <1>4 DEF Unsent
<1>15. ASSUME NEW t \in Times, deliveries'[t] # None
       PROVE  sent'[deliveries'[t].run][deliveries'[t].endpoint] =
                [attempts |-> deliveries'[t].attempts, began |-> t, status |-> deliveries'[t].status]
    <2>1. CASE t = t0
        BY <2>1, <1>2, <1>5, <1>6, <1>12
    <2>2. CASE t # t0
        <3>1. PICK c \in Records : deliveries'[t] = c /\ deliveries[t] = c
            BY <2>2, <1>6, <1>15
        <3>2. c \in Records /\ c # None
            BY <3>1, <1>7
        <3>3. sent[c.run][c.endpoint] = [attempts |-> c.attempts, began |-> t, status |-> c.status]
            BY <3>1, <3>2, <1>1 DEF RecordsInv
        <3>4. c.run \in Runs /\ c.endpoint \in EndpointIds /\ c.status # "pending"
            BY <3>2 DEF Records
        <3>5. sent[c.run][c.endpoint].status # "pending"
            BY <3>3, <3>4
        <3>6. sent'[c.run][c.endpoint] = sent[c.run][c.endpoint]
            <4>1. CASE c.run = r
                BY <4>1, <3>4, <3>5, <1>2, <1>14
            <4>2. CASE c.run # r
                BY <4>2, <3>4, <1>4
            <4> QED
                BY <4>1, <4>2
        <3> QED
            BY <3>1, <3>3, <3>6
    <2> QED
        BY <2>1, <2>2
<1>16. ASSUME NEW q \in Runs, NEW e \in EndpointIds, sent'[q][e].status # "pending"
       PROVE  deliveries'[sent'[q][e].began] # None
    <2>1. CASE q = r /\ e = h
        BY <2>1, <1>2, <1>5, <1>6, <1>7, <1>12
    <2>2. CASE ~ (q = r /\ e = h)
        <3>1. sent'[q][e] = sent[q][e]
            <4>1. CASE q = r
                BY <4>1, <2>2, <1>13, <1>16
            <4>2. CASE q # r
                BY <4>2, <1>4
            <4> QED
                BY <4>1, <4>2
        <3>2. sent[q][e].status # "pending"
            BY <3>1, <1>16
        <3>3. sent[q][e].began \in Times
            BY <3>2, BegunMeansEnded DEF Ended
        <3>4. deliveries[sent[q][e].began] # None
            BY <3>2, <1>1 DEF RecordsInv
        <3>5. PICK t \in Times : t = sent[q][e].began
            BY <3>3
        <3>6. deliveries'[t] # None
            BY <3>4, <3>5, <1>5, <1>6, <1>7
        <3> QED
            BY <3>1, <3>5, <3>6
    <2> QED
        BY <2>1, <2>2
<1>17. RecordsInv'
    BY <1>15, <1>16 DEF RecordsInv
<1> QED
    BY <1>8, <1>9, <1>11, <1>17 DEF HookInv

\* Another attempt of the delivery under way.
LEMMA RetryKeeps ==
    ASSUME HookInv, NEW r \in Runs, todo[r] # << >>, delivery[r].attempts < MaxAttempts,
           delivery' = [delivery EXCEPT ![r].attempts = @ + 1],
           sent' = [sent EXCEPT ![r][Head(todo[r])].attempts = @ + 1],
           UNCHANGED <<endpoints, published, known, counted, hookNow, todo, deliveries>>
    PROVE  HookInv'
<1> DEFINE h == Head(todo[r])
<1>1. HookTypes /\ KnownInv /\ ServedInv /\ RecordsInv
    BY DEF HookInv
<1>2. todo[r] \in Seq(EndpointIds) /\ h = todo[r][1] /\ h \in EndpointIds /\ 1 \in DOMAIN todo[r]
    BY <1>1 DEF HookTypes
<1> HIDE DEF h
<1>3. Serving(Subscribers(r), todo[r], delivery[r], sent[r])
    BY <1>1 DEF ServedInv
<1>4. PICK at, id : at = delivery[r].attempts /\ id = delivery[r].id
    OBVIOUS
<1>5. /\ at \in 1..MaxAttempts /\ id \in Times /\ at < MaxAttempts /\ at \in Nat
      /\ sent[r][h] = [attempts |-> at, began |-> id, status |-> "pending"]
      /\ delivery[r] = [id |-> id, attempts |-> at]
    <2>1. /\ at \in 1..MaxAttempts /\ id \in Times
          /\ sent[r][h] = [attempts |-> at, began |-> id, status |-> "pending"]
        BY <1>2, <1>3, <1>4 DEF Serving
    <2>2. delivery[r] \in [id : Times \cup {None}, attempts : Nat]
        BY <1>1 DEF HookTypes
    <2> QED
        BY <2>1, <2>2, <1>4
<1>6. at + 1 \in 1..MaxAttempts /\ at + 1 \in Nat
    BY <1>5, HookAssumption
<1>7. delivery' = [delivery EXCEPT ![r] = [id |-> id, attempts |-> at + 1]]
    <2>1. delivery' = [delivery EXCEPT ![r] = [delivery[r] EXCEPT !.attempts = delivery[r].attempts + 1]]
        BY <1>1 DEF HookTypes
    <2>2. [delivery[r] EXCEPT !.attempts = delivery[r].attempts + 1] = [id |-> id, attempts |-> at + 1]
        BY <1>4, <1>5
    <2> QED
        BY <2>1, <2>2
<1>8. PICK s1 \in Sends : s1 = [attempts |-> at + 1, began |-> id, status |-> "pending"]
    BY <1>5, <1>6 DEF Sends
<1>9. sent' = [sent EXCEPT ![r] = [sent[r] EXCEPT ![h] = s1]]
    <2>1. sent' = [sent EXCEPT ![r] = [sent[r] EXCEPT ![h] =
                      [sent[r][h] EXCEPT !.attempts = sent[r][h].attempts + 1]]]
        BY <1>1, <1>2 DEF HookTypes, h
    <2>2. [sent[r][h] EXCEPT !.attempts = sent[r][h].attempts + 1] = s1
        BY <1>5, <1>8
    <2> QED
        BY <2>1, <2>2
<1>10. /\ sent' \in [Runs -> [EndpointIds -> Sends]] /\ sent'[r][h] = s1
       /\ \A q \in Runs : q # r => sent'[q] = sent[q]
       /\ \A e \in EndpointIds : e # h => sent'[r][e] = sent[r][e]
    <2>1. sent \in [Runs -> [EndpointIds -> Sends]]
        BY <1>1 DEF HookTypes
    <2>2. /\ [sent[r] EXCEPT ![h] = s1] \in [EndpointIds -> Sends]
          /\ [sent[r] EXCEPT ![h] = s1][h] = s1
          /\ \A e \in EndpointIds : e # h => [sent[r] EXCEPT ![h] = s1][e] = sent[r][e]
        BY <1>2, <2>1
    <2>3. sent'[r] = [sent[r] EXCEPT ![h] = s1] /\ \A q \in Runs : q # r => sent'[q] = sent[q]
        BY <1>9, <2>1
    <2> QED
        BY <1>9, <2>1, <2>2, <2>3
<1>11. /\ delivery' \in [Runs -> [id : Times \cup {None}, attempts : Nat]]
       /\ delivery'[r] = [id |-> id, attempts |-> at + 1]
       /\ \A q \in Runs : q # r => delivery'[q] = delivery[q]
    BY <1>1, <1>5, <1>6, <1>7 DEF HookTypes
<1>12. HookTypes'
    BY <1>1, <1>10, <1>11 DEF HookTypes
<1>13. KnownInv'
    BY <1>1 DEF KnownInv
<1>14. \A q \in Runs : Subscribers(q)' = Subscribers(q)
    BY <1>1, SubscribersStay
<1>15. Serving(Subscribers(r), todo[r], delivery'[r], sent'[r])
    <2> DEFINE list == todo[r]
               subs == Subscribers(r)
    <2>0. subs \subseteq EndpointIds /\ list \in Seq(EndpointIds) /\ h = list[1] /\ 1 \in DOMAIN list
        BY <1>1, <1>2, SubscribersAreEndpoints
    <2>1. Serving(subs, list, delivery[r], sent[r])
        BY <1>3
    <2> HIDE DEF list, subs
    <2>2. \A j, k \in DOMAIN list : list[j] = list[k] => j = k
        BY <2>1 DEF Serving
    <2>3. \A k \in DOMAIN list : list[k] \in subs /\ (k # 1 => sent'[r][list[k]] = Unsent)
        BY <2>0, <2>1, <1>10 DEF Serving
    <2>4. \A e \in EndpointIds \ subs : sent'[r][e] = Unsent
        BY <2>0, <2>1, <1>10 DEF Serving
    <2>5. \A e \in subs : Ended(sent'[r][e]) \/ \E k \in DOMAIN list : list[k] = e
        <3> TAKE e \in subs
        <3>1. CASE e = h
            BY <3>1, <2>0
        <3>2. CASE e # h
            <4>1. sent'[r][e] = sent[r][e]
                BY <3>2, <2>0, <1>10
            <4> QED
                BY <4>1, <2>1 DEF Serving
        <3> QED
            BY <3>1, <3>2
    <2>6. /\ delivery'[r].attempts \in 1..MaxAttempts /\ delivery'[r].id \in Times
          /\ sent'[r][list[1]] =
               [attempts |-> delivery'[r].attempts, began |-> delivery'[r].id, status |-> "pending"]
        BY <2>0, <1>5, <1>6, <1>8, <1>10, <1>11
    <2> QED
        BY <2>2, <2>3, <2>4, <2>5, <2>6 DEF Serving, list, subs
<1>16. ServedInv'
    BY <1>1, <1>10, <1>11, <1>14, <1>15 DEF ServedInv
<1>17. RecordsInv'
    <2>1. ASSUME NEW t \in Times, deliveries[t] # None
          PROVE  sent'[deliveries[t].run][deliveries[t].endpoint] =
                   [attempts |-> deliveries[t].attempts, began |-> t, status |-> deliveries[t].status]
        <3>1. PICK c \in Records : deliveries[t] = c
            BY <1>1, <2>1 DEF HookTypes
        <3>2. sent[c.run][c.endpoint] = [attempts |-> c.attempts, began |-> t, status |-> c.status]
            BY <3>1, <2>1, <1>1 DEF RecordsInv
        <3>3. c.run \in Runs /\ c.endpoint \in EndpointIds /\ c.status # "pending"
            BY DEF Records
        <3>4. ~ (c.run = r /\ c.endpoint = h)
            BY <3>2, <3>3, <1>5
        <3>5. sent'[c.run][c.endpoint] = sent[c.run][c.endpoint]
            BY <3>3, <3>4, <1>10
        <3> QED
            BY <3>1, <3>2, <3>5
    <2>2. ASSUME NEW q \in Runs, NEW e \in EndpointIds, sent'[q][e].status # "pending"
          PROVE  deliveries[sent'[q][e].began] # None
        <3>1. s1.status = "pending"
            BY <1>8
        <3>2. sent'[q][e] = sent[q][e]
            BY <3>1, <2>2, <1>10
        <3> QED
            BY <3>2, <2>2, <1>1 DEF RecordsInv
    <2> QED
        BY <2>1, <2>2 DEF RecordsInv
<1> QED
    BY <1>12, <1>13, <1>16, <1>17 DEF HookInv

LEMMA PublishKeeps ==
    ASSUME HookInv, NEW r \in Runs, NEW event \in Events, Publish(r, event)
    PROVE  HookInv'
<1>1. HookTypes /\ KnownInv /\ ServedInv /\ RecordsInv
    BY DEF HookInv
<1>2. /\ published[r] = None /\ UNCHANGED <<endpoints, deliveries, hookNow>>
      /\ published' = [published EXCEPT ![r] = event]
      /\ known' = [known EXCEPT ![r] = Len(endpoints)]
    BY DEF Publish
<1>n. Len(endpoints) \in Nat /\ DOMAIN endpoints = 1..Len(endpoints) /\ event # None
    BY <1>1, HookAssumption DEF HookTypes
<1>3. /\ published' \in [Runs -> Events \cup {None}] /\ published'[r] = event
      /\ known' \in [Runs -> Nat] /\ known'[r] = Len(endpoints)
      /\ \A q \in Runs : q # r => published'[q] = published[q] /\ known'[q] = known[q]
    BY <1>1, <1>2, <1>n DEF HookTypes
<1>4. KnownInv'
    BY <1>1, <1>2, <1>3, <1>n DEF KnownInv
<1>5. \A q \in Runs : q # r => Subscribers(q)' = Subscribers(q)
    BY <1>1, <1>2, <1>3, SubscribersStay
<1>6. Subscribers(r) = {}
    BY <1>1, <1>2 DEF Subscribers, KnownInv
<1>7. /\ Serving({}, todo[r], delivery[r], sent[r])
      /\ \A e \in EndpointIds : sent[r][e] = Unsent
    BY <1>1, <1>6 DEF ServedInv, Serving
<1>8. CASE event.type \in RunEnds
    <2>1. PICK list \in ListForEvent(event.type) : DispatchNext(r, list, sent[r])
        BY <1>8 DEF Publish, EmitOnEnd
    <2> DEFINE subs == Wanted(event.type)
    <2>2. Subscribers(r)' = subs /\ subs \in SUBSET EndpointIds
        <3>1. Subscribers(r)' = subs
            BY <1>2, <1>3, <1>8, <1>n DEF Subscribers, Wanted
        <3>2. subs \subseteq 1..Len(endpoints)
            BY <1>n DEF Wanted
        <3> QED
            BY <3>1, <3>2, <1>1, <1>n, HookAssumption DEF HookTypes, EndpointIds
    <2>3. /\ list \in Seq(EndpointIds)
          /\ \A j, k \in DOMAIN list : list[j] = list[k] => j = k
          /\ \A k \in DOMAIN list : list[k] \in subs
          /\ \A e \in subs : \E k \in DOMAIN list : list[k] = e
        BY <1>1, ListIsComplete
    <2> HIDE DEF subs
    <2>4. Waiting(subs, list, sent[r])
        BY <1>7, <2>2, <2>3 DEF Waiting
    <2>5. /\ sent[r] \in [EndpointIds -> Sends] /\ HookTypes
          /\ subs \in SUBSET EndpointIds /\ list \in Seq(EndpointIds)
        BY <1>1, <2>2, <2>3 DEF HookTypes
    <2>6. /\ todo' \in [Runs -> Seq(EndpointIds)]
          /\ delivery' \in [Runs -> [id : Times \cup {None}, attempts : Nat]]
          /\ sent' \in [Runs -> [EndpointIds -> Sends]]
          /\ \A q \in Runs : q # r => todo'[q] = todo[q] /\ delivery'[q] = delivery[q] /\ sent'[q] = sent[q]
          /\ Serving(subs, todo'[r], delivery'[r], sent'[r])
          /\ \A e \in EndpointIds : \/ sent'[r][e] = sent[r][e]
                                    \/ sent[r][e] = Unsent /\ sent'[r][e].status = "pending"
        BY <2>1, <2>4, <2>5, DispatchServes
    <2>7. HookTypes'
        BY <1>1, <1>2, <1>3, <2>6 DEF HookTypes
    <2>8. ServedInv'
        BY <1>1, <1>5, <2>2, <2>6 DEF ServedInv
    <2>9. \A e \in EndpointIds : sent[r][e].status = "pending" /\ sent'[r][e].status = "pending"
        BY <1>7, <2>6 DEF Unsent
    <2>10. RecordsInv'
        <3>1. ASSUME NEW t \in Times, deliveries[t] # None
              PROVE  sent'[deliveries[t].run][deliveries[t].endpoint] =
                       [attempts |-> deliveries[t].attempts, began |-> t, status |-> deliveries[t].status]
            <4>1. PICK c \in Records : deliveries[t] = c
                BY <1>1, <3>1 DEF HookTypes
            <4>2. sent[c.run][c.endpoint] = [attempts |-> c.attempts, began |-> t, status |-> c.status]
                BY <4>1, <3>1, <1>1 DEF RecordsInv
            <4>3. c.run \in Runs /\ c.endpoint \in EndpointIds /\ c.status # "pending"
                BY DEF Records
            <4>4. c.run # r
                BY <4>2, <4>3, <2>9
            <4>5. sent'[c.run][c.endpoint] = sent[c.run][c.endpoint]
                BY <4>3, <4>4, <2>6
            <4> QED
                BY <4>1, <4>2, <4>5
        <3>2. ASSUME NEW q \in Runs, NEW e \in EndpointIds, sent'[q][e].status # "pending"
              PROVE  deliveries[sent'[q][e].began] # None
            <4>1. sent'[q][e] = sent[q][e]
                BY <3>2, <2>6, <2>9
            <4> QED
                BY <4>1, <3>2, <1>1 DEF RecordsInv
        <3> QED
            BY <3>1, <3>2, <1>2 DEF RecordsInv
    <2> QED
        BY <1>4, <2>7, <2>8, <2>10 DEF HookInv
<1>9. CASE event.type \notin RunEnds
    <2>1. UNCHANGED <<todo, delivery, sent>>
        BY <1>9 DEF Publish, EmitOnEnd
    <2>2. Subscribers(r)' = {}
        BY <1>3, <1>9 DEF Subscribers
    <2>3. HookTypes'
        BY <1>1, <1>2, <1>3, <2>1 DEF HookTypes
    <2>4. ServedInv'
        BY <1>1, <1>5, <1>7, <2>1, <2>2 DEF ServedInv
    <2>5. RecordsInv'
        BY <1>1, <1>2, <2>1 DEF RecordsInv
    <2> QED
        BY <1>4, <2>3, <2>4, <2>5 DEF HookInv
<1> QED
    BY <1>8, <1>9

LEMMA HookStep == HookInv /\ [HookNext]_hookVars => HookInv'
<1> SUFFICES ASSUME HookInv, [HookNext]_hookVars PROVE HookInv'
    OBVIOUS
<1>t. HookTypes /\ KnownInv /\ ServedInv /\ RecordsInv
    BY DEF HookInv
<1>1. ASSUME NEW t \in Tenants, NEW s \in Subscriptions, RegisterEndpoint(t, s) PROVE HookInv'
    BY <1>1, RegisterKeeps
<1>2. ASSUME NEW r \in Runs, PostSucceeds(r) PROVE HookInv'
    <2>1. /\ todo[r] # << >> /\ Save(r, "delivered")
          /\ DispatchNext(r, Tail(todo[r]), Concluded(r, "delivered"))
          /\ UNCHANGED <<endpoints, published, known, counted, hookNow>>
        BY <1>2 DEF PostSucceeds, Concluded
    <2> QED
        BY <2>1, ConcludeKeeps
<1>3. ASSUME NEW r \in Runs, PostFails(r) PROVE HookInv'
    <2>1. CASE delivery[r].attempts < MaxAttempts
        BY <1>3, <2>1, RetryKeeps DEF PostFails
    <2>2. CASE ~ (delivery[r].attempts < MaxAttempts)
        <3>1. /\ todo[r] # << >> /\ Save(r, "failed")
              /\ DispatchNext(r, Tail(todo[r]), Concluded(r, "failed"))
              /\ UNCHANGED <<endpoints, published, known, counted, hookNow>>
            BY <1>3, <2>2 DEF PostFails, Concluded
        <3>2. delivery[r].attempts \in 1..MaxAttempts
            BY <3>1, <1>t DEF ServedInv, Serving
        <3>3. delivery[r].attempts = MaxAttempts
            BY <2>2, <3>2, HookAssumption
        <3> QED
            BY <3>1, <3>3, ConcludeKeeps
    <2> QED
        BY <2>1, <2>2
<1>4. ASSUME NEW r \in Runs, NEW e \in Events, Publish(r, e) PROVE HookInv'
    BY <1>4, PublishKeeps
<1>5. ASSUME hookNow' \in Times,
             UNCHANGED <<endpoints, published, known, counted, todo, delivery, deliveries, sent>>
      PROVE  HookInv'
    <2>1. HookTypes'
        BY <1>5, <1>t DEF HookTypes
    <2>2. KnownInv' /\ RecordsInv'
        BY <1>5, <1>t DEF KnownInv, RecordsInv
    <2>3. \A q \in Runs : Subscribers(q)' = Subscribers(q)
        BY <1>5, <1>t, SubscribersStay
    <2>4. ServedInv'
        BY <1>5, <1>t, <2>3 DEF ServedInv
    <2> QED
        BY <2>1, <2>2, <2>4 DEF HookInv
<1>6. CASE HookTick
    <2>1. hookNow' \in Times
        BY <1>6, <1>t, HookAssumption DEF HookTick, HookTypes, Times
    <2> QED
        BY <1>5, <1>6, <2>1 DEF HookTick
<1>7. CASE UNCHANGED hookVars
    BY <1>5, <1>7, <1>t DEF hookVars, HookTypes
<1> QED
    BY <1>1, <1>2, <1>3, <1>4, <1>6, <1>7 DEF HookNext, Answer

-----------------------------------------------------------------------------
(* Webhooks: what follows from the invariant.                              *)

LEMMA HookInvServes == HookInv => SubscribersServed
<1> SUFFICES ASSUME HookInv, NEW r \in Runs
             PROVE  /\ \A e \in EndpointIds :
                          sent[r][e].attempts > 0 =>
                              /\ e \in Subscribers(r)
                              /\ sent[r][e].attempts <= MaxAttempts
                              /\ sent[r][e].status = "failed" => sent[r][e].attempts = MaxAttempts
                              /\ sent[r][e].status = "pending" <=> todo[r] # << >> /\ Head(todo[r]) = e
                    /\ Finished(r) =>
                          \A e \in Subscribers(r) : sent[r][e].status \in {"delivered", "failed"}
    BY DEF SubscribersServed
<1> DEFINE list == todo[r]
           subs == Subscribers(r)
           sn   == sent[r]
<1>1. Serving(subs, list, delivery[r], sn)
    BY DEF HookInv, ServedInv
<1>2. list \in Seq(EndpointIds)
    BY DEF HookInv, HookTypes
<1> HIDE DEF list, subs, sn
<1>3. Unsent.attempts = 0
    BY DEF Unsent
<1>4. ASSUME NEW e \in EndpointIds, sn[e].attempts > 0
      PROVE  /\ e \in subs
             /\ sn[e].attempts <= MaxAttempts
             /\ sn[e].status = "failed" => sn[e].attempts = MaxAttempts
             /\ sn[e].status = "pending" <=> list # << >> /\ Head(list) = e
    <2>0. sn[e] # Unsent
        BY <1>3, <1>4
    <2>1. e \in subs
        BY <1>1, <2>0 DEF Serving
    <2>2. CASE list # << >> /\ list[1] = e
        <3>1. /\ sn[e] = [attempts |-> delivery[r].attempts, began |-> delivery[r].id, status |-> "pending"]
              /\ delivery[r].attempts \in 1..MaxAttempts
            BY <1>1, <2>2 DEF Serving
        <3>2. Head(list) = e
            BY <2>2, <1>2
        <3> QED
            BY <2>1, <2>2, <3>1, <3>2, HookAssumption
    <2>3. CASE ~ (list # << >> /\ list[1] = e)
        <3>1. \A k \in DOMAIN list : list[k] # e
            <4> SUFFICES ASSUME NEW k \in DOMAIN list, list[k] = e PROVE FALSE
                OBVIOUS
            <4>1. k = 1
                BY <1>1, <2>0 DEF Serving
            <4>2. list # << >>
                BY <1>2
            <4> QED
                BY <2>3, <4>1, <4>2
        <3>2. Ended(sn[e])
            BY <1>1, <2>1, <3>1 DEF Serving
        <3>3. list # << >> => Head(list) # e
            BY <2>3, <1>2
        <3> QED
            BY <2>1, <3>2, <3>3, HookAssumption DEF Ended
    <2> QED
        BY <2>2, <2>3
<1>5. ASSUME list = << >>, NEW e \in subs
      PROVE  sn[e].status \in {"delivered", "failed"}
    BY <1>1, <1>5 DEF Serving, Ended
<1> QED
    BY <1>4, <1>5 DEF list, subs, sn, Finished

LEMMA HookInvRecords == HookInv => RecordsAreTrue
<1> SUFFICES ASSUME HookInv PROVE RecordsAreTrue
    OBVIOUS
<1>1. RecordsInv /\ HookTypes
    BY DEF HookInv
<1>2. ASSUME NEW t \in Times, deliveries[t] # None
      PROVE  /\ sent[deliveries[t].run][deliveries[t].endpoint].status = deliveries[t].status
             /\ sent[deliveries[t].run][deliveries[t].endpoint].attempts = deliveries[t].attempts
             /\ sent[deliveries[t].run][deliveries[t].endpoint].began = t
    <2>1. PICK d : d = deliveries[t]
        OBVIOUS
    <2>2. sent[d.run][d.endpoint] = [attempts |-> d.attempts, began |-> t, status |-> d.status]
        BY <1>1, <1>2, <2>1 DEF RecordsInv
    <2>3. /\ sent[d.run][d.endpoint].status = d.status
          /\ sent[d.run][d.endpoint].attempts = d.attempts
          /\ sent[d.run][d.endpoint].began = t
        BY <2>2
    <2> QED
        BY <2>1, <2>3
<1>3. ASSUME NEW r \in Runs, NEW e \in EndpointIds, sent[r][e].status # "pending"
      PROVE  /\ deliveries[sent[r][e].began] # None
             /\ sent[deliveries[sent[r][e].began].run][deliveries[sent[r][e].began].endpoint].began
                  = sent[r][e].began
    <2>1. sent[r][e].began \in Times
        BY <1>3, BegunMeansEnded DEF Ended
    <2>2. deliveries[sent[r][e].began] # None
        BY <1>1, <1>3 DEF RecordsInv
    <2> QED
        BY <1>2, <2>1, <2>2
<1> QED
    BY <1>2, <1>3 DEF RecordsAreTrue

\* Nobody but a subscriber is sent anything, nobody more than MaxAttempts requests, and
\* an emit that has come to its end has served every subscriber, however the answers
\* of several emits and later registrations interleave.
THEOREM EmitServesSubscribers == HookSpec => []SubscribersServed
<1>1. HookInit => HookInv
    BY HookStart
<1>2. HookInv /\ [HookNext]_hookVars => HookInv'
    BY HookStep
<1>3. HookInv => SubscribersServed
    BY HookInvServes
<1> QED
    BY <1>1, <1>2, <1>3, PTL DEF HookSpec

\* What the delivery store says of a delivery is what happened, although deliveries of
\* the same millisecond overwrite each other's records.
THEOREM DeliveryRecordsAreTrue == HookSpec => []RecordsAreTrue
<1>1. HookInit => HookInv
    BY HookStart
<1>2. HookInv /\ [HookNext]_hookVars => HookInv'
    BY HookStep
<1>3. HookInv => RecordsAreTrue
    BY HookInvRecords
<1> QED
    BY <1>1, <1>2, <1>3, PTL DEF HookSpec

-----------------------------------------------------------------------------
(* RunQueries: the pages of a walk.                                        *)

Matching == FilterRuns(ListByJob(query.job), query.filter)
Started  == [r \in DOMAIN runs |-> runs[r].startedAt]
PageSize == AtMost(MaxPageSize, AtLeastOne(query.pageSize))

\* How many places of the list the pages asked for so far make up.
Given == (AtLeastOne(page) - 1) * PageSize

RunType ==
    [job : Jobs, trigger : Triggers, startedAt : Nat, finishedAt : Nat \cup {Unset},
     status : {"pending", "running", "completed", "failed", "dead_lettered"}]

QueryTypes ==
    /\ runs \in Seq(RunType) /\ runNow \in Nat
    /\ walk \in {"none", "asking", "done"} /\ page \in Nat /\ seen \in Seq(Nat)
    /\ walk # "none" => query \in [job : Jobs, filter : Filters, pageSize : PageSizes]
    /\ walk = "none" => page = 0 /\ seen = << >>

\* Of the list of the runs S the client has been given the first k places, at the
\* times it asked, and q is what stood there.  A run that was wanted and not given is
\* still ahead.
Covered(S, key, W, q, more, k) ==
    /\ W \subseteq S /\ Range(q) \subseteq S
    /\ \A r \in W : r \in Range(q) \/ (more /\ Rank(r, S, key) > k)
    /\ more => k <= Cardinality(S)
    /\ S = W => /\ Len(q) = IF more THEN k ELSE Cardinality(S)
                /\ \A i \in 1..Len(q) : q[i] = SortDescending(S, key)[i]

WalkInv ==
    walk # "none" /\ Lasting(query.filter) =>
        Covered(Matching, Started, wanted, seen, walk = "asking", Given)

QueryInv == QueryTypes /\ WalkInv

-----------------------------------------------------------------------------
(* Ranks.                                                                  *)

Before(r, S, key) == {s \in S : key[s] > key[r] \/ (key[s] = key[r] /\ s < r)}

Keyed(S, key) == S \subseteq Nat /\ IsFiniteSet(S) /\ \A r \in S : key[r] \in Int

LEMMA RankType ==
    ASSUME NEW S, NEW key, Keyed(S, key), NEW r \in S
    PROVE  /\ Rank(r, S, key) \in 1..Cardinality(S)
           /\ Rank(r, S, key) = 1 + Cardinality(Before(r, S, key))
           /\ IsFiniteSet(Before(r, S, key)) /\ Cardinality(Before(r, S, key)) \in Nat
           /\ Cardinality(S) \in Nat
<1>1. IsFiniteSet(S \ {r}) /\ Cardinality(S \ {r}) = Cardinality(S) - 1 /\ Cardinality(S) \in Nat
    BY FS_RemoveElement, FS_CardinalityType DEF Keyed
<1>2. Before(r, S, key) \in SUBSET (S \ {r})
    BY DEF Before, Keyed
<1>3. /\ IsFiniteSet(Before(r, S, key)) /\ Cardinality(Before(r, S, key)) \in Nat
      /\ Cardinality(Before(r, S, key)) <= Cardinality(S \ {r})
    BY <1>1, <1>2, FS_Subset, FS_CardinalityType
<1>4. Rank(r, S, key) = 1 + Cardinality(Before(r, S, key))
    BY DEF Rank, Before
<1> QED BY <1>1, <1>3, <1>4

\* Two runs have different places.
LEMMA RankInjective ==
    ASSUME NEW S, NEW key, Keyed(S, key), NEW r \in S, NEW s \in S,
           Rank(r, S, key) = Rank(s, S, key)
    PROVE  r = s
<1>0. ASSUME NEW x \in S, NEW y \in S, x \in Before(y, S, key) 
      PROVE  Rank(x, S, key) < Rank(y, S, key)
    <2>1. Before(x, S, key) \in SUBSET Before(y, S, key)
        <3> SUFFICES ASSUME NEW z \in Before(x, S, key) PROVE z \in Before(y, S, key)
            OBVIOUS
        <3>1. /\ z \in S /\ x \in Nat /\ y \in Nat /\ z \in Nat
              /\ key[x] \in Int /\ key[y] \in Int /\ key[z] \in Int
            BY DEF Before, Keyed
        <3>2. key[z] > key[x] \/ (key[z] = key[x] /\ z < x) BY DEF Before
        <3>3. key[x] > key[y] \/ (key[x] = key[y] /\ x < y) BY <1>0 DEF Before
        <3>4. key[z] > key[y] \/ (key[z] = key[y] /\ z < y) BY <3>1, <3>2, <3>3
        <3> QED BY <3>1, <3>4 DEF Before
    <2>2. x \notin Before(x, S, key)
        BY DEF Before, Keyed
    <2>3. Cardinality(Before(x, S, key)) # Cardinality(Before(y, S, key))
        <3>1. IsFiniteSet(Before(y, S, key)) /\ Before(x, S, key) # Before(y, S, key)
            BY <1>0, <2>2, RankType
        <3> QED BY <3>1, <2>1, FS_Subset
    <2>4. Cardinality(Before(x, S, key)) <= Cardinality(Before(y, S, key))
        BY <2>1, RankType, FS_Subset
    <2> QED BY <2>3, <2>4, RankType
<1>1. CASE r \in Before(s, S, key)
    BY <1>0, <1>1, RankType
<1>2. CASE s \in Before(r, S, key)
    BY <1>0, <1>2, RankType
<1>3. CASE r \notin Before(s, S, key) /\ s \notin Before(r, S, key)
    BY <1>3 DEF Before, Keyed
<1> QED BY <1>1, <1>2, <1>3

\* So the sorted list holds every run once, at its place.
LEMMA Sorted ==
    ASSUME NEW S, NEW key, Keyed(S, key)
    PROVE  LET L == SortDescending(S, key) IN
           /\ L \in Seq(S) /\ Len(L) = Cardinality(S) /\ Cardinality(S) \in Nat
           /\ \A r \in S : L[Rank(r, S, key)] = r
           /\ \A i \in 1..Cardinality(S) : L[i] \in S /\ Rank(L[i], S, key) = i
<1> DEFINE n == Cardinality(S)
           place == [r \in S |-> Rank(r, S, key)]
           L == SortDescending(S, key)
<1>1. n \in Nat /\ IsFiniteSet(S) BY FS_CardinalityType DEF Keyed
<1>2. place \in Injection(S, 1..n)
    <2>1. place \in [S -> 1..n] BY RankType
    <2>2. \A r, s \in S : place[r] = place[s] => r = s BY RankInjective
    <2> QED BY <2>1, <2>2 DEF Injection, IsInjective
<1>3. IsFiniteSet(1..n) /\ Cardinality(1..n) = n
    BY <1>1, FS_Interval
<1>4. place \in Surjection(S, 1..n)
    BY <1>2, <1>3, FS_Injection
<1>5. \A i \in 1..n : \E r \in S : Rank(r, S, key) = i
    BY <1>4 DEF Surjection
<1>6. \A i \in 1..n : L[i] = CHOOSE r \in S : Rank(r, S, key) = i
    BY DEF SortDescending
<1>7. \A i \in 1..n : L[i] \in S /\ Rank(L[i], S, key) = i
    BY <1>5, <1>6
<1>8. L \in Seq(S) /\ Len(L) = n
    <2>1. L = [i \in 1..n |-> L[i]] BY DEF SortDescending
    <2> HIDE DEF L
    <2> QED BY <2>1, <1>1, <1>7
<1>9. \A r \in S : L[Rank(r, S, key)] = r
    <2> SUFFICES ASSUME NEW r \in S PROVE L[Rank(r, S, key)] = r OBVIOUS
    <2>1. Rank(r, S, key) \in 1..n BY RankType
    <2>2. L[Rank(r, S, key)] \in S /\ Rank(L[Rank(r, S, key)], S, key) = Rank(r, S, key)
        BY <1>7, <2>1
    <2> HIDE DEF L
    <2> QED BY <2>2, RankInjective
<1> QED BY <1>1, <1>7, <1>8, <1>9

\* A run that joins the list puts nothing forward.
LEMMA RankGrows ==
    ASSUME NEW S, NEW T, NEW key, NEW new, Keyed(T, new), S \subseteq T,
           \A r \in S : new[r] = key[r], NEW r \in S
    PROVE  Rank(r, S, key) <= Rank(r, T, new) 
<1>0. Keyed(S, key)
    BY FS_Subset DEF Keyed
<1>1. Before(r, S, key) \in SUBSET Before(r, T, new)
    BY DEF Before, Keyed
<1> QED BY <1>0, <1>1, RankType, FS_Subset

\* Only the keys of what is sorted count.
LEMMA SortSame ==
    ASSUME NEW S, NEW key, NEW new, \A r \in S : new[r] = key[r]
    PROVE  SortDescending(S, new) = SortDescending(S, key)
<1>1. \A r \in S : Rank(r, S, new) = Rank(r, S, key)
    <2> SUFFICES ASSUME NEW r \in S PROVE Rank(r, S, new) = Rank(r, S, key) OBVIOUS
    <2>1. Before(r, S, new) = Before(r, S, key) BY DEF Before
    <2> QED BY <2>1 DEF Rank, Before
<1>2. ASSUME NEW i \in 1..Cardinality(S)
      PROVE  (CHOOSE r \in S : Rank(r, S, new) = i) = (CHOOSE r \in S : Rank(r, S, key) = i)
    BY <1>1
<1> QED BY <1>2 DEF SortDescending

-----------------------------------------------------------------------------
(* What a step does to a walk.                                             *)

LEMMA SeqRange ==
    ASSUME NEW T, NEW q \in Seq(T), NEW t \in Seq(T)
    PROVE  /\ Range(q \o t) = Range(q) \cup Range(t)
           /\ q \o t \in Seq(T) /\ Len(q \o t) = Len(q) + Len(t)
           /\ \A i \in 1..Len(q) : (q \o t)[i] = q[i]
           /\ \A i \in 1..Len(t) : (q \o t)[Len(q) + i] = t[i]
<1>1. /\ q \o t \in Seq(T) /\ Len(q \o t) = Len(q) + Len(t)
      /\ \A i \in 1..Len(q) : (q \o t)[i] = q[i]
      /\ \A i \in 1..Len(t) : (q \o t)[Len(q) + i] = t[i]
    OBVIOUS
<1>2. ASSUME NEW x PROVE x \in Range(q) <=> \E i \in 1..Len(q) : x = q[i]
    BY DEF Range
<1>3. ASSUME NEW x PROVE x \in Range(t) <=> \E i \in 1..Len(t) : x = t[i]
    BY DEF Range
<1>4. ASSUME NEW x PROVE x \in Range(q \o t) <=> \E i \in 1..Len(q \o t) : x = (q \o t)[i]
    BY <1>1 DEF Range
<1>5. ASSUME NEW x \in Range(q \o t) PROVE x \in Range(q) \cup Range(t)
    <2>1. PICK i \in 1..Len(q \o t) : x = (q \o t)[i] BY <1>4
    <2>2. CASE i <= Len(q) BY <2>1, <2>2, <1>1, <1>2
    <2>3. CASE i > Len(q)
        <3>1. i - Len(q) \in 1..Len(t) /\ Len(q) + (i - Len(q)) = i BY <2>3, <1>1
        <3> QED BY <3>1, <2>1, <1>1, <1>3
    <2> QED BY <2>2, <2>3, <1>1
<1>6. ASSUME NEW x \in Range(q) PROVE x \in Range(q \o t)
    <2>1. PICK i \in 1..Len(q) : x = q[i] BY <1>2
    <2>2. i \in 1..Len(q \o t) BY <1>1
    <2> QED BY <2>1, <2>2, <1>1, <1>4
<1>7. ASSUME NEW x \in Range(t) PROVE x \in Range(q \o t)
    <2>1. PICK i \in 1..Len(t) : x = t[i] BY <1>3
    <2>2. Len(q) + i \in 1..Len(q \o t) BY <1>1
    <2> QED BY <2>1, <2>2, <1>1, <1>4
<1> QED BY <1>1, <1>5, <1>6, <1>7

\* Runs that join the list, or go on in it, take nothing from the client.
LEMMA CoveredGrows ==
    ASSUME NEW S, NEW T, NEW key, NEW new, Keyed(T, new), S \subseteq T,
           \A r \in S : new[r] = key[r],
           NEW W, NEW q, NEW more \in BOOLEAN, NEW k \in Nat,
           Covered(S, key, W, q, more, k)
    PROVE  Covered(T, new, W, q, more, k)
<1>1. W \subseteq T /\ Range(q) \subseteq T
    BY DEF Covered
<1>2. Keyed(S, key) BY FS_Subset DEF Keyed
<1>3. Cardinality(S) \in Nat /\ Cardinality(T) \in Nat /\ Cardinality(S) <= Cardinality(T)
    BY <1>2, FS_Subset, FS_CardinalityType DEF Keyed
<1>4. ASSUME NEW r \in W, r \notin Range(q)
      PROVE  more /\ Rank(r, T, new) > k
    <2>1. more /\ Rank(r, S, key) > k /\ r \in S BY <1>4 DEF Covered
    <2>2. Rank(r, S, key) \in Nat /\ Rank(r, T, new) \in Nat
        BY <2>1, <1>2, <1>3, RankType
    <2>3. Rank(r, S, key) <= Rank(r, T, new) BY <2>1, RankGrows
    <2> QED BY <2>1, <2>2, <2>3
<1>5. more => k <= Cardinality(T) BY <1>3 DEF Covered
<1>6. ASSUME T = W
      PROVE  /\ Len(q) = IF more THEN k ELSE Cardinality(T)
             /\ \A i \in 1..Len(q) : q[i] = SortDescending(T, new)[i]
    <2>1. S = W /\ S = T BY <1>6 DEF Covered
    <2>2. SortDescending(S, new) = SortDescending(S, key) BY SortSame
    <2> QED BY <2>1, <2>2 DEF Covered
<1> QED BY <1>1, <1>4, <1>5, <1>6 DEF Covered

\* The next page: the places from k + 1 to k + size, or to the end.
LEMMA CoveredPage ==
    ASSUME NEW S, NEW key, Keyed(S, key), NEW W, NEW q \in Seq(Nat), NEW k \in Nat,
           NEW size \in Nat, Covered(S, key, W, q, TRUE, k)
    PROVE  LET L     == SortDescending(S, key)
               items == SubSeq(L, k + 1, AtMost(Len(L), k + size))
           IN  /\ q \o items \in Seq(Nat)
               /\ Covered(S, key, W, q \o items, k + size < Cardinality(S), k + size)
<1> DEFINE L     == SortDescending(S, key)
           n     == Cardinality(S)
           last  == AtMost(Len(L), k + size)
           items == SubSeq(L, k + 1, last)
<1>1. /\ L \in Seq(S) /\ Len(L) = n /\ n \in Nat
      /\ \A r \in S : L[Rank(r, S, key)] = r
      /\ \A i \in 1..n : L[i] \in S
    BY Sorted
<1>13. \A r \in S : Rank(r, S, key) \in 1..n
    BY RankType
<1>2. k <= n BY DEF Covered
<1> HIDE DEF L, n
<1>3. /\ last \in Nat /\ k <= last /\ last <= n /\ last <= k + size
      /\ last = n \/ (k + size < n /\ last = k + size)
      /\ k + size < n => last = k + size
    BY <1>1, <1>2 DEF AtMost
<1> HIDE DEF last
<1>5. /\ items \in Seq(S) /\ Len(items) = last - k
      /\ \A i \in 1..(last - k) : items[i] = L[k + i]
    <2>1. \A i \in (k + 1)..last : L[i] \in S BY <1>1, <1>3
    <2>2. /\ items \in Seq(S)
          /\ Len(items) = IF k + 1 <= last THEN last - (k + 1) + 1 ELSE 0
          /\ \A i \in 1..(last - (k + 1) + 1) : items[i] = L[(k + 1) + i - 1]
        BY <2>1, <1>3, SubSeqProperties
    <2>3. ASSUME NEW i \in 1..(last - k) PROVE items[i] = L[k + i]
        <3>1. i \in 1..(last - (k + 1) + 1) /\ (k + 1) + i - 1 = k + i BY <1>3
        <3> QED BY <2>2, <3>1
    <2>4. Len(items) = last - k BY <2>2, <1>3
    <2> QED BY <2>2, <2>3, <2>4
<1> HIDE DEF items
<1>6. items \in Seq(Nat)
    <2>1. S \subseteq Nat BY DEF Keyed
    <2>2. ASSUME NEW i \in 1..Len(items) PROVE items[i] \in Nat
        <3>1. items[i] \in S BY <1>5
        <3> QED BY <3>1, <2>1
    <2>3. Len(items) \in Nat /\ items = [i \in 1..Len(items) |-> items[i]] BY <1>5
    <2> QED BY <2>2, <2>3
<1>7. /\ Range(q \o items) = Range(q) \cup Range(items) /\ q \o items \in Seq(Nat)
      /\ Len(q \o items) = Len(q) + Len(items)
      /\ \A i \in 1..Len(q) : (q \o items)[i] = q[i]
      /\ \A i \in 1..Len(items) : (q \o items)[Len(q) + i] = items[i]
    BY <1>6, SeqRange
<1>8. W \subseteq S /\ Range(q \o items) \subseteq S
    <2>1. Range(items) \subseteq S BY <1>5 DEF Range
    <2> QED BY <2>1, <1>7 DEF Covered
<1>9. ASSUME NEW r \in W, r \notin Range(q \o items)
      PROVE  k + size < n /\ Rank(r, S, key) > k + size
    <2>1. r \in S /\ Rank(r, S, key) > k /\ r \notin Range(items)
        BY <1>9, <1>7 DEF Covered
    <2>2. Rank(r, S, key) \in 1..n /\ L[Rank(r, S, key)] = r BY <1>1, <1>13, <2>1
    <2>3. Rank(r, S, key) > last
        <3> SUFFICES ASSUME ~ (Rank(r, S, key) > last) PROVE FALSE OBVIOUS
        <3>1. Rank(r, S, key) - k \in 1..(last - k) /\ k + (Rank(r, S, key) - k) = Rank(r, S, key)
            BY <2>1, <2>2, <1>3
        <3>2. items[Rank(r, S, key) - k] = r BY <3>1, <2>2, <1>5
        <3>3. r \in Range(items)
            BY <3>1, <3>2, <1>5 DEF Range
        <3> QED BY <3>3, <2>1
    <2> QED BY <2>2, <2>3, <1>3, <1>1
<1>10. ASSUME S = W
       PROVE  /\ Len(q \o items) = IF k + size < n THEN k + size ELSE n
              /\ \A i \in 1..Len(q \o items) : (q \o items)[i] = L[i]
    <2>1. Len(q) = k /\ \A i \in 1..k : q[i] = L[i]
        BY <1>10 DEF Covered, L, n
    <2>2. Len(q \o items) = last BY <2>1, <1>3, <1>5, <1>7
    <2>3. ASSUME NEW i \in 1..last PROVE (q \o items)[i] = L[i]
        <3>1. CASE i <= k
            <4>1. i \in 1..Len(q) /\ i \in 1..k BY <3>1, <2>1
            <4> QED BY <4>1, <2>1, <1>7
        <3>2. CASE i > k
            <4>1. i - k \in 1..(last - k) /\ k + (i - k) = i BY <3>2, <1>3
            <4> QED BY <4>1, <2>1, <1>5, <1>7
        <3>3. i <= k \/ i > k BY <1>3
        <3> QED BY <3>1, <3>2, <3>3, Zenon
    <2> QED BY <2>2, <2>3, <1>1, <1>3
<1>11. k + size < n => k + size <= n BY <1>1
<1>12. Covered(S, key, W, q \o items, k + size < n, k + size)
    BY <1>8, <1>9, <1>10, <1>11 DEF Covered, L, n
<1> QED BY <1>7, <1>12 DEF items, last, L, n

\* totalPages says truly whether there is a next page.
LEMMA PagesLeft ==
    ASSUME NEW n \in Nat, NEW size \in Nat \ {0}, NEW cur \in Nat \ {0}
    PROVE  cur < AtLeastOne((n + size - 1) \div size) <=> cur * size < n
<1> DEFINE t == (n + size - 1) \div size
<1>1. n + size - 1 \in Nat OBVIOUS
<1>2. t \in Nat /\ size * t <= n + size - 1 /\ n + size - 1 < size * t + size
    BY <1>1
<1> HIDE DEF t
<1>3. cur < AtLeastOne(t) <=> cur < t
    BY <1>2 DEF AtLeastOne
<1>4. ASSUME cur < t PROVE cur * size < n
    <2>1. cur + 1 <= t BY <1>2, <1>4
    <2>2. (cur + 1) * size <= t * size BY <2>1, <1>2
    <2> QED BY <2>2, <1>2
<1>5. ASSUME cur >= t PROVE ~ (cur * size < n)
    <2>1. t * size <= cur * size BY <1>5, <1>2
    <2> QED BY <2>1, <1>2
<1> QED BY <1>2, <1>3, <1>4, <1>5 DEF t
-----------------------------------------------------------------------------
(* The steps.                                                              *)

\* Runs that match a lasting filter go on matching it, and keep their start.
Lasts ==
    /\ DOMAIN runs \subseteq DOMAIN runs'
    /\ \A r \in DOMAIN runs :
         /\ runs'[r].job = runs[r].job /\ runs'[r].trigger = runs[r].trigger
         /\ runs'[r].startedAt = runs[r].startedAt
         /\ runs[r].status \in {"completed", "dead_lettered"} => runs'[r].status = runs[r].status

LEMMA RunsKeyed ==
    QueryTypes => Keyed(Matching, Started) /\ Matching \subseteq DOMAIN runs
<1> SUFFICES ASSUME QueryTypes PROVE Keyed(Matching, Started) /\ Matching \subseteq DOMAIN runs
    OBVIOUS
<1>1. DOMAIN runs = 1..Len(runs) /\ Len(runs) \in Nat BY DEF QueryTypes
<1>2. ListByJob(query.job) \subseteq DOMAIN runs BY DEF ListByJob
<1>3. Matching \in SUBSET (DOMAIN runs) BY <1>2 DEF Matching, FilterRuns
<1>4. IsFiniteSet(1..Len(runs)) BY <1>1, FS_Interval
<1>5. IsFiniteSet(Matching) BY <1>1, <1>3, <1>4, FS_Subset
<1>6. ASSUME NEW r \in DOMAIN runs PROVE Started[r] \in Int
    <2>1. runs[r] \in RunType BY <1>1 DEF QueryTypes
    <2> QED BY <2>1 DEF Started, RunType
<1> QED BY <1>1, <1>3, <1>5, <1>6 DEF Keyed

LEMMA GivenType ==
    QueryTypes /\ walk # "none" =>
        Given \in Nat /\ PageSize \in Nat \ {0} /\ AtLeastOne(page) \in Nat \ {0}
<1> SUFFICES ASSUME QueryTypes, walk # "none"
             PROVE  Given \in Nat /\ PageSize \in Nat \ {0} /\ AtLeastOne(page) \in Nat \ {0}
    OBVIOUS
<1>1. query.pageSize \in Int BY QueryAssumption DEF QueryTypes
<1>2. PageSize \in Nat \ {0} BY <1>1, QueryAssumption DEF PageSize, AtMost, AtLeastOne
<1>3. AtLeastOne(page) \in Nat \ {0} BY DEF QueryTypes, AtLeastOne
<1> QED BY <1>2, <1>3 DEF Given

LEMMA StoreStep ==
    ASSUME QueryInv, QueryTypes', Lasts, UNCHANGED walkVars
    PROVE  WalkInv'
<1>1. SUFFICES ASSUME walk # "none", Lasting(query.filter)
               PROVE  Covered(Matching', Started', wanted, seen, walk = "asking", Given)
    BY DEF WalkInv, walkVars, Given, PageSize
<1>2. Covered(Matching, Started, wanted, seen, walk = "asking", Given)
    BY <1>1 DEF QueryInv, WalkInv
<1>3. Keyed(Matching, Started) /\ Matching \subseteq DOMAIN runs
    BY RunsKeyed DEF QueryInv
<1>4. (Keyed(Matching, Started) /\ Matching \subseteq DOMAIN runs)'
    BY RunsKeyed, PTL
<1>5. Matching \subseteq Matching'
    <2> SUFFICES ASSUME NEW r \in Matching PROVE r \in Matching' OBVIOUS
    <2>1. r \in DOMAIN runs /\ runs[r].job = query.job /\ Matches(r, query.filter)
        BY DEF Matching, FilterRuns, ListByJob
    <2>2. r \in DOMAIN runs' /\ runs'[r].job = query.job BY <2>1 DEF Lasts
    <2>3. Matches(r, query.filter)'
        BY <1>1, <2>1 DEF Matches, Lasts, Lasting, walkVars
    <2> QED BY <2>2, <2>3 DEF Matching, FilterRuns, ListByJob, walkVars
<1>6. \A r \in Matching : Started'[r] = Started[r]
    BY <1>3 DEF Started, Lasts
<1>7. Given \in Nat BY <1>1, GivenType DEF QueryInv
<1> QED BY <1>2, <1>4, <1>5, <1>6, <1>7, CoveredGrows

LEMMA BeginStep ==
    ASSUME QueryInv, QueryTypes', NEW job, NEW f, NEW n, BeginWalk(job, f, n)
    PROVE  WalkInv'
<1>1. Matching' = wanted'
    BY DEF BeginWalk, Matching, FilterRuns, ListByJob, Matches
<1>2. page' = 0 /\ seen' = << >> /\ walk' = "asking"
    BY DEF BeginWalk, QueryInv, QueryTypes
<1>3. (Given \in Nat /\ PageSize \in Nat \ {0} /\ AtLeastOne(page) \in Nat \ {0})'
    <2>1. (walk # "none")' BY <1>2
    <2> QED BY <2>1, GivenType, PTL
<1>4. Given' = 0
    <2>1. AtLeastOne(page') - 1 = 0 BY <1>2 DEF AtLeastOne
    <2>2. Given' = (AtLeastOne(page') - 1) * PageSize' BY DEF Given
    <2>3. \A x \in Nat : 0 * x = 0 OBVIOUS
    <2> QED BY <1>3, <2>1, <2>2, <2>3
<1>5. (Keyed(Matching, Started) /\ Matching \subseteq DOMAIN runs)'
    BY RunsKeyed, PTL
<1>6. \A r \in Matching' : Rank(r, Matching', Started') > 0
    BY <1>5, RankType
<1>7. Range(seen') = {} BY <1>2 DEF Range
<1>8. Cardinality(Matching') \in Nat BY <1>5, FS_CardinalityType DEF Keyed
<1>9. Covered(Matching', Started', wanted', seen', TRUE, 0)
    BY <1>1, <1>2, <1>6, <1>7, <1>8 DEF Covered
<1> QED BY <1>2, <1>4, <1>9 DEF WalkInv

\* What GetPage does, in the words of the invariant.
LEMMA PageGiven ==
    ASSUME QueryTypes, GetPage
    PROVE  LET L     == SortDescending(Matching, Started)
               items == SubSeq(L, Given + 1, AtMost(Len(L), Given + PageSize))
               cur   == AtLeastOne(page)
           IN  /\ walk' = IF cur * PageSize < Cardinality(Matching) THEN "asking" ELSE "done"
               /\ page' = cur + 1
               /\ seen' = seen \o items
               /\ Given' = Given + PageSize
               /\ items \in Seq(Nat)
               /\ cur * PageSize = Given + PageSize
<1> DEFINE L     == SortDescending(Matching, Started)
           last  == AtMost(Len(L), Given + PageSize)
           items == SubSeq(L, Given + 1, last)
           cur   == AtLeastOne(page)
<1>1. Given \in Nat /\ PageSize \in Nat \ {0} /\ cur \in Nat \ {0}
    BY GivenType DEF GetPage
<1>2. Keyed(Matching, Started) BY RunsKeyed
<1>3. L \in Seq(Matching) /\ Len(L) = Cardinality(Matching) /\ Cardinality(Matching) \in Nat
    BY <1>2, Sorted
<1>4. Search(query.job, query.filter, page, query.pageSize) =
        [items |-> items, page |-> cur,
         totalPages |-> AtLeastOne((Len(L) + PageSize - 1) \div PageSize)]
    BY DEF Search, Paginate, SortRuns, Matching, Started, PageSize, Given
<1> HIDE DEF L, items, cur
<1>5. /\ walk' = IF cur < AtLeastOne((Len(L) + PageSize - 1) \div PageSize)
                 THEN "asking" ELSE "done"
      /\ page' = cur + 1 /\ seen' = seen \o items /\ query' = query
    BY <1>4 DEF GetPage
<1>6. cur < AtLeastOne((Len(L) + PageSize - 1) \div PageSize)
        <=> cur * PageSize < Cardinality(Matching)
    BY <1>1, <1>3, PagesLeft
<1>7. Given = (cur - 1) * PageSize BY DEF Given, cur
<1>8. cur * PageSize = Given + PageSize BY <1>1, <1>7
<1>9. Given' = cur * PageSize
    <2>1. AtLeastOne(page') - 1 = cur BY <1>1, <1>5 DEF AtLeastOne
    <2>2. PageSize' = PageSize BY <1>5 DEF PageSize
    <2> QED BY <2>1, <2>2 DEF Given
<1>10. items \in Seq(Nat)
    <2>1. last \in Int /\ last <= Len(L) BY <1>1, <1>3 DEF AtMost
    <2>2. ASSUME NEW i \in (Given + 1)..last PROVE L[i] \in Nat
        <3>1. i \in 1..Len(L) BY <1>1, <1>3, <2>1
        <3>2. L[i] \in Matching BY <3>1, <1>3
        <3> QED BY <3>2, <1>2 DEF Keyed
    <2> HIDE DEF last
    <2> QED BY <1>1, <2>1, <2>2, SubSeqProperties DEF items
<1> QED BY <1>5, <1>6, <1>8, <1>9, <1>10 DEF L, items, cur

LEMMA PageStep ==
    ASSUME QueryInv, GetPage
    PROVE  WalkInv'
<1> DEFINE L     == SortDescending(Matching, Started)
           items == SubSeq(L, Given + 1, AtMost(Len(L), Given + PageSize))
<1>1. SUFFICES ASSUME Lasting(query.filter)'
               PROVE  Covered(Matching, Started, wanted, seen, walk = "asking", Given)'
    BY DEF WalkInv
<1>2. Covered(Matching, Started, wanted, seen, TRUE, Given)
    BY <1>1 DEF QueryInv, WalkInv, GetPage, Lasting
<1>3. Keyed(Matching, Started) BY RunsKeyed DEF QueryInv
<1>4. Given \in Nat /\ PageSize \in Nat
    BY GivenType DEF GetPage, QueryInv
<1>5. /\ walk' = IF Given + PageSize < Cardinality(Matching) THEN "asking" ELSE "done"
      /\ seen' = seen \o items
      /\ Given' = Given + PageSize
    BY PageGiven DEF QueryInv
<1>6. seen \in Seq(Nat) BY DEF QueryInv, QueryTypes
<1>7. Covered(Matching, Started, wanted, seen \o items,
              Given + PageSize < Cardinality(Matching), Given + PageSize)
    BY <1>2, <1>3, <1>4, <1>6, CoveredPage
<1>8. Matching' = Matching /\ Started' = Started /\ wanted' = wanted
    BY DEF GetPage, Matching, Started, FilterRuns, ListByJob, Matches
<1>9. (walk' = "asking") = (Given + PageSize < Cardinality(Matching)) BY <1>5
<1> HIDE DEF items
<1> QED BY <1>5, <1>7, <1>8, <1>9

LEMMA QueryTypesStep ==
    ASSUME QueryTypes, [QueryNext]_queryVars
    PROVE  QueryTypes'
<1> USE DEF QueryTypes
<1>1. ASSUME NEW job \in Jobs, NEW trigger \in Triggers, CreateRun(job, trigger)
      PROVE  QueryTypes'
    <2>1. [job |-> job, trigger |-> trigger, status |-> "pending", startedAt |-> runNow,
           finishedAt |-> Unset] \in RunType
        BY DEF RunType
    <2>2. runs' \in Seq(RunType) BY <1>1, <2>1 DEF CreateRun
    <2> QED BY <1>1, <2>2 DEF CreateRun, walkVars
<1>2. ASSUME NEW r \in DOMAIN runs, NEW s \in Steps, Transition(r, s[2])
      PROVE  QueryTypes'
    <2>1. runs' \in Seq(RunType)
        <3>1. runs[r] \in RunType BY DEF QueryTypes
        <3>2. s[2] \in {"running", "completed", "failed", "dead_lettered"} BY DEF Steps
        <3>3. PICK t \in Nat \cup {Unset} :
                runs' = [runs EXCEPT ![r] = [runs[r] EXCEPT !.status = s[2], !.finishedAt = t]]
            BY <1>2, <3>1 DEF Transition, RunType
        <3>4. [runs[r] EXCEPT !.status = s[2], !.finishedAt = t] \in RunType
            BY <3>1, <3>2 DEF RunType
        <3> QED BY <3>3, <3>4
    <2> QED BY <1>2, <2>1 DEF Transition, walkVars
<1>3. CASE RunTick BY <1>3 DEF RunTick, walkVars
<1>4. ASSUME NEW job \in Jobs, NEW f \in Filters, NEW n \in PageSizes, BeginWalk(job, f, n)
      PROVE  QueryTypes'
    BY <1>4 DEF BeginWalk
<1>5. CASE GetPage
    <2>1. walk' \in {"asking", "done"} /\ page' \in Nat /\ seen' \in Seq(Nat)
        <3> DEFINE L     == SortDescending(Matching, Started)
                   items == SubSeq(L, Given + 1, AtMost(Len(L), Given + PageSize))
        <3>1. AtLeastOne(page) \in Nat BY <1>5, GivenType DEF GetPage
        <3>2. /\ walk' = IF AtLeastOne(page) * PageSize < Cardinality(Matching)
                         THEN "asking" ELSE "done"
              /\ page' = AtLeastOne(page) + 1
              /\ seen' = seen \o items /\ items \in Seq(Nat)
            BY <1>5, PageGiven
        <3> HIDE DEF items
        <3>3. seen' \in Seq(Nat) BY <3>2
        <3>4. page' \in Nat BY <3>1, <3>2
        <3>5. walk' \in {"asking", "done"} BY <3>2
        <3> QED BY <3>3, <3>4, <3>5
    <2> QED BY <1>5, <2>1 DEF GetPage
<1>6. CASE UNCHANGED queryVars BY <1>6 DEF queryVars, walkVars
<1> QED BY <1>1, <1>2, <1>3, <1>4, <1>5, <1>6 DEF QueryNext

LEMMA QueryStep ==
    ASSUME QueryInv, [QueryNext]_queryVars
    PROVE  QueryInv'
<1>0. QueryTypes /\ QueryTypes' BY QueryTypesStep DEF QueryInv
<1>1. ASSUME NEW job \in Jobs, NEW trigger \in Triggers, CreateRun(job, trigger)
      PROVE  WalkInv'
    <2>1. Lasts BY <1>0, <1>1 DEF CreateRun, Lasts, QueryTypes
    <2> QED BY <1>0, <1>1, <2>1, StoreStep DEF CreateRun
<1>2. ASSUME NEW r \in DOMAIN runs, NEW s \in Steps, Transition(r, s[2])
      PROVE  WalkInv'
    <2>1. runs[r] \in RunType BY <1>0 DEF QueryTypes
    <2>2. PICK t : runs' = [runs EXCEPT ![r] = [runs[r] EXCEPT !.status = s[2], !.finishedAt = t]]
        BY <1>2, <2>1 DEF Transition, RunType
    <2>3. runs[r].status \notin {"completed", "dead_lettered"}
        BY <1>2 DEF Transition, Steps
    <2>4. Lasts BY <2>1, <2>2, <2>3 DEF Lasts, RunType
    <2> QED BY <1>0, <1>2, <2>4, StoreStep DEF Transition
<1>3. ASSUME UNCHANGED <<runs, walkVars>> PROVE WalkInv'
    <2>1. Lasts BY <1>3 DEF Lasts
    <2> QED BY <1>0, <1>3, <2>1, StoreStep
<1>4. ASSUME NEW job \in Jobs, NEW f \in Filters, NEW n \in PageSizes, BeginWalk(job, f, n)
      PROVE  WalkInv'
    BY <1>0, <1>4, BeginStep
<1>5. ASSUME GetPage PROVE WalkInv' BY <1>5, PageStep
<1>6. WalkInv'
    <2>1. CASE RunTick BY <2>1, <1>3 DEF RunTick
    <2>2. CASE UNCHANGED queryVars BY <2>2, <1>3 DEF queryVars
    <2> QED BY <1>1, <1>2, <1>4, <1>5, <2>1, <2>2 DEF QueryNext
<1> QED BY <1>0, <1>6 DEF QueryInv

\* A walk through the pages of a job's runs is complete: RunQueryService.search, called
\* for one page after the other while runs are created and go on, gives the client every
\* run that matched when it began, nothing that does not match, and, if none has joined,
\* each run once in the order of the sort; for every filter whose matches last, every
\* page size asked for, zero and negative ones too, and every number of runs.
THEOREM WalksAreComplete == QuerySpec => []WalkIsComplete
<1>1. QueryInit => QueryInv
    <2> SUFFICES ASSUME QueryInit PROVE QueryInv OBVIOUS
    <2>1. QueryTypes BY DEF QueryInit, QueryTypes
    <2>2. WalkInv BY DEF QueryInit, WalkInv
    <2> QED BY <2>1, <2>2 DEF QueryInv
<1>2. QueryInv /\ [QueryNext]_queryVars => QueryInv' BY QueryStep
<1>3. QueryInv => WalkIsComplete
    <2> SUFFICES ASSUME QueryInv, walk = "done", Lasting(query.filter)
                 PROVE  /\ wanted \subseteq Range(seen)
                        /\ Range(seen) \subseteq Matching
                        /\ Matching = wanted => seen = SortRuns(Matching)
        BY DEF WalkIsComplete, Matching
    <2> DEFINE L == SortDescending(Matching, Started)
    <2>1. Covered(Matching, Started, wanted, seen, FALSE, Given)
        BY DEF QueryInv, WalkInv
    <2>2. L \in Seq(Matching) /\ Len(L) = Cardinality(Matching)
        BY RunsKeyed, Sorted DEF QueryInv
    <2>3. seen \in Seq(Nat) BY DEF QueryInv, QueryTypes
    <2>4. wanted \subseteq Range(seen) /\ Range(seen) \subseteq Matching BY <2>1 DEF Covered
    <2>5. ASSUME Matching = wanted PROVE seen = L
        <3>1. Len(seen) = Len(L) /\ \A i \in 1..Len(seen) : seen[i] = L[i]
            BY <2>1, <2>2, <2>5 DEF Covered
        <3> HIDE DEF L
        <3> QED BY <2>2, <2>3, <3>1
    <2> QED BY <2>4, <2>5 DEF SortRuns, Started
<1> QED BY <1>1, <1>2, <1>3, PTL DEF QuerySpec
=============================================================================
