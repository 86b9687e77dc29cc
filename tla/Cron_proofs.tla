----------------------------- MODULE Cron_proofs ----------------------------
(***************************************************************************)
(* Proofs about Cron for every calendar, horizon, set of jobs and set of   *)
(* expressions, and any number of schedules.                               *)
(***************************************************************************)
EXTENDS Cron, SequenceTheorems, WellFoundedInduction, TLAPS

Schedule ==
    [job : Jobs, cron : Expressions, enabled : BOOLEAN, createdAt : Nat,
     lastTriggeredAt : Nat \cup {None}, nextRunAt : Nat]

CronTypes ==
    /\ schedules \in Seq(Schedule)
    /\ now \in Nat
    /\ due \subseteq DOMAIN schedules

\* nextRunAt is the first match after the minute the schedule was last dealt with.
FirstMatch(s) ==
    /\ Since(s) < s.nextRunAt
    /\ MatchesCron(s.cron, s.nextRunAt)
    /\ \A t \in (Since(s) + 1)..(s.nextRunAt - 1) : ~ MatchesCron(s.cron, t)

\* It is so for every schedule, at any time; and what the tick under way has
\* listed is still due when its turn comes.
CronInv ==
    /\ CronTypes
    /\ \A i \in DOMAIN schedules : FirstMatch(schedules[i])
    /\ \A i \in due : IsDue(i)

-----------------------------------------------------------------------------
(* The first match.                                                        *)

Less == {p \in Nat \X Nat : p[1] < p[2]}

\* A set of minutes has a first one.
LEMMA LeastExists ==
    ASSUME NEW S \in SUBSET Nat, S # {}
    PROVE  \E x \in S : \A y \in S : x <= y
<1>1. IsWellFoundedOn(Less, Nat)
  BY NatLessThanWellFounded DEF OpToRel, Less
<1>2. PICK x \in S : \A y \in S : ~ (<<y, x>> \in Less)
  BY <1>1, WFMin
<1>3. ASSUME NEW y \in S
      PROVE  x <= y
  <2>1. y < x => <<y, x>> \in Less
    BY DEF Less
  <2> QED
    BY <1>2, <2>1
<1> QED
  BY <1>3

\* nextCronRun returns the first match after the minute it is given.
LEMMA NextIsFirst ==
    ASSUME NEW e, NEW after \in Nat, MatchesAhead(e, after) # {}
    PROVE  /\ NextCronRun(e, after) \in Nat
           /\ after < NextCronRun(e, after)
           /\ MatchesCron(e, NextCronRun(e, after))
           /\ \A t \in (after + 1)..(NextCronRun(e, after) - 1) : ~ MatchesCron(e, t)
<1> DEFINE S == MatchesAhead(e, after)
           n == NextCronRun(e, after)
<1>1. /\ S \in SUBSET Nat
      /\ \A t \in Nat : t \in S <=> t > after /\ t <= after + Horizon /\ MatchesCron(e, t)
  BY CronAssumption DEF MatchesAhead
<1>2. n = Min(S)
  BY DEF NextCronRun
<1> HIDE DEF S, n
<1>3. n \in S /\ \A y \in S : n <= y
  <2>1. S # {}
    BY DEF S
  <2> QED
    BY <1>1, <1>2, <2>1, LeastExists DEF Min
<1>4. n \in Nat /\ after < n /\ n <= after + Horizon /\ MatchesCron(e, n)
  BY <1>1, <1>3
<1>5. ASSUME NEW t \in (after + 1)..(n - 1)
      PROVE  ~ MatchesCron(e, t)
  <2>1. t \in Nat /\ t > after /\ t < n /\ t <= after + Horizon
    BY <1>4, CronAssumption
  <2> QED
    BY <1>1, <1>3, <2>1
<1> QED
  BY <1>4, <1>5 DEF n

-----------------------------------------------------------------------------
(* The invariant.                                                          *)

LEMMA CronBegins == CronInit => CronInv
  BY DEF CronInit, CronInv, CronTypes

\* A step that leaves schedules and clock alone, and begins or ends no turn.
LEMMA CronQuiet ==
    ASSUME CronInv, schedules' = schedules, now' = now, due' = due
    PROVE  CronInv'
  BY DEF CronInv, CronTypes, FirstMatch, Since, IsDue, MatchesCron, MatchField

LEMMA CronCreate ==
    ASSUME CronInv, NEW j \in Jobs, NEW e \in Expressions, Create(j, e)
    PROVE  CronInv'
<1> DEFINE s == [job |-> j, cron |-> e, enabled |-> TRUE, createdAt |-> now,
                 lastTriggeredAt |-> None, nextRunAt |-> NextCronRun(e, now)]
<1>1. /\ now \in Nat /\ now' = now /\ due = {} /\ due' = {}
      /\ MatchesAhead(e, now) # {} /\ schedules' = Append(schedules, s)
      /\ schedules \in Seq(Schedule)
  BY DEF Create, Idle, CronInv, CronTypes
<1>2. s \in Schedule
  BY <1>1, NextIsFirst DEF Schedule
<1>3. FirstMatch(s)
  BY <1>1, NextIsFirst DEF FirstMatch, Since
<1> HIDE DEF s
<1>4. /\ schedules' \in Seq(Schedule)
      /\ \A i \in DOMAIN schedules' :
            schedules'[i] = s \/ (i \in DOMAIN schedules /\ schedules'[i] = schedules[i])
  <2>1. /\ schedules' \in Seq(Schedule)
        /\ Len(schedules') = Len(schedules) + 1
        /\ \A i \in 1..Len(schedules) : schedules'[i] = schedules[i]
        /\ schedules'[Len(schedules) + 1] = s
    BY <1>1, <1>2, AppendProperties
  <2>2. /\ DOMAIN schedules = 1..Len(schedules) /\ Len(schedules) \in Nat
        /\ DOMAIN schedules' = 1..(Len(schedules) + 1)
    BY <1>1, <2>1, LenProperties
  <2>3. \A i : i \in DOMAIN schedules' => i = Len(schedules) + 1 \/ i \in DOMAIN schedules
    BY <2>2
  <2> QED
    BY <2>1, <2>2, <2>3
<1>5. \A i \in DOMAIN schedules' : FirstMatch(schedules'[i])
  BY <1>3, <1>4 DEF CronInv
<1> QED
  BY <1>1, <1>4, <1>5 DEF CronInv, CronTypes, FirstMatch, Since, MatchesCron, MatchField

LEMMA CronDisable ==
    ASSUME CronInv, NEW i, Disable(i)
    PROVE  CronInv'
<1>1. /\ i \in DOMAIN schedules /\ schedules \in Seq(Schedule) /\ now' = now
      /\ due = {} /\ due' = {} /\ now \in Nat
      /\ schedules' = [schedules EXCEPT ![i].enabled = FALSE]
  BY DEF Disable, Idle, CronInv, CronTypes
<1>2. /\ schedules' \in Seq(Schedule) /\ DOMAIN schedules' = DOMAIN schedules
      /\ \A k \in DOMAIN schedules :
           /\ schedules'[k].cron = schedules[k].cron
           /\ schedules'[k].createdAt = schedules[k].createdAt
           /\ schedules'[k].lastTriggeredAt = schedules[k].lastTriggeredAt
           /\ schedules'[k].nextRunAt = schedules[k].nextRunAt
  <2> DEFINE r == [schedules[i] EXCEPT !.enabled = FALSE]
  <2>1. schedules[i] \in Schedule
    BY <1>1
  <2>2. /\ r \in Schedule /\ r.cron = schedules[i].cron /\ r.createdAt = schedules[i].createdAt
        /\ r.lastTriggeredAt = schedules[i].lastTriggeredAt
        /\ r.nextRunAt = schedules[i].nextRunAt
    BY <2>1 DEF Schedule
  <2>3. schedules' = [schedules EXCEPT ![i] = r]
    BY <1>1
  <2> HIDE DEF r
  <2>4. DOMAIN schedules = 1..Len(schedules)
    BY <1>1, LenProperties
  <2>5. /\ schedules' \in Seq(Schedule)
        /\ \A k \in DOMAIN schedules : schedules'[k] = IF k = i THEN r ELSE schedules[k]
    <3>1. i \in 1..Len(schedules) /\ schedules \in Seq(Schedule) /\ r \in Schedule
      BY <1>1, <2>2, <2>4
    <3>2. /\ [schedules EXCEPT ![i] = r] \in Seq(Schedule)
          /\ \A k \in 1..Len(schedules) :
               [schedules EXCEPT ![i] = r][k] = IF k = i THEN r ELSE schedules[k]
      BY <3>1, ExceptSeq
    <3> QED
      BY <2>3, <2>4, <3>2
  <2>6. DOMAIN schedules' = DOMAIN schedules
    BY <2>3
  <2> QED
    BY <2>2, <2>5, <2>6, Zenon
<1>3. \A k \in DOMAIN schedules : FirstMatch(schedules'[k])
  BY <1>2 DEF CronInv, FirstMatch, Since
<1> QED
  BY <1>1, <1>2, <1>3 DEF CronInv, CronTypes

LEMMA CronTick ==
    ASSUME CronInv, Tick
    PROVE  CronInv'
  BY DEF Tick, CronInv, CronTypes, IsDue, FirstMatch, Since, MatchesCron, MatchField

LEMMA CronTrigger ==
    ASSUME CronInv, Trigger
    PROVE  CronInv'
<1>1. PICK i \in due :
        /\ IF schedules[i].job \in jobs /\ MatchesAhead(schedules[i].cron, now) # {}
           THEN MarkTriggered(i) /\ due' = due \ {i}
           ELSE ProcessEnds
        /\ now' = now
  BY DEF Trigger
<1>2. CASE ProcessEnds
  BY <1>1, <1>2 DEF ProcessEnds, CronInv, CronTypes
<1>3. CASE ~ ProcessEnds
  <2> DEFINE n == NextCronRun(schedules[i].cron, now)
  <2>1. /\ schedules \in Seq(Schedule) /\ now \in Nat
        /\ i \in DOMAIN schedules /\ due \subseteq DOMAIN schedules
        /\ \A k \in due : IsDue(k)
    BY DEF CronInv, CronTypes
  <2>2. /\ MatchesAhead(schedules[i].cron, now) # {} /\ due' = due \ {i}
        /\ schedules' = [schedules EXCEPT ![i].lastTriggeredAt = now, ![i].nextRunAt = n]
    BY <1>1, <1>3 DEF MarkTriggered
  <2>3. /\ n \in Nat /\ now < n /\ MatchesCron(schedules[i].cron, n)
        /\ \A t \in (now + 1)..(n - 1) : ~ MatchesCron(schedules[i].cron, t)
    BY <2>1, <2>2, NextIsFirst
  <2> HIDE DEF n
  <2>4. /\ schedules' \in Seq(Schedule) /\ DOMAIN schedules' = DOMAIN schedules
        /\ \A k \in DOMAIN schedules : k # i => schedules'[k] = schedules[k]
        /\ schedules'[i].cron = schedules[i].cron
        /\ schedules'[i].lastTriggeredAt = now
        /\ schedules'[i].nextRunAt = n
    <3> DEFINE r == [schedules[i] EXCEPT !.lastTriggeredAt = now, !.nextRunAt = n]
    <3>1. schedules[i] \in Schedule
      BY <2>1
    <3>2. /\ r \in Schedule /\ r.cron = schedules[i].cron
          /\ r.lastTriggeredAt = now /\ r.nextRunAt = n
      BY <2>1, <2>3, <3>1 DEF Schedule
    <3>3. schedules' = [schedules EXCEPT ![i] = r]
      BY <2>1, <2>2
    <3> HIDE DEF r
    <3> QED
      BY <2>1, <3>2, <3>3, ExceptSeq, LenProperties
  <2>5. FirstMatch(schedules'[i])
    BY <2>1, <2>3, <2>4, CronAssumption DEF FirstMatch, Since
  <2>6. \A k \in DOMAIN schedules' : FirstMatch(schedules'[k])
    BY <2>4, <2>5 DEF CronInv
  <2>7. \A k \in due' : IsDue(k)'
    BY <1>1, <2>1, <2>2, <2>4 DEF IsDue
  <2> QED
    BY <1>1, <2>1, <2>2, <2>4, <2>6, <2>7 DEF CronInv, CronTypes
<1> QED
  BY <1>2, <1>3

LEMMA CronStep == CronInv /\ [CronNext]_cronVars => CronInv'
<1> SUFFICES ASSUME CronInv, [CronNext]_cronVars
             PROVE  CronInv'
  OBVIOUS
<1>1. ASSUME NEW j \in Jobs, Register(j)
      PROVE  CronInv'
  BY <1>1, CronQuiet DEF Register
<1>2. ASSUME NEW j \in Jobs, NEW e \in Expressions, Create(j, e)
      PROVE  CronInv'
  BY <1>2, CronCreate
<1>3. ASSUME NEW i \in 1..MaxSchedules, Disable(i)
      PROVE  CronInv'
  BY <1>3, CronDisable
<1>4. CASE Tick
  BY <1>4, CronTick
<1>5. CASE Trigger
  BY <1>5, CronTrigger
<1>6. CASE Minute
  BY <1>6 DEF Minute, CronInv, CronTypes, IsDue, FirstMatch, Since, MatchesCron, MatchField
<1>7. CASE Restart
  BY <1>7, CronQuiet DEF Restart
<1>8. CASE UNCHANGED cronVars
  BY <1>8, CronQuiet DEF cronVars
<1> QED
  BY <1>1, <1>2, <1>3, <1>4, <1>5, <1>6, <1>7, <1>8 DEF CronNext

-----------------------------------------------------------------------------
\* A schedule is triggered once for a matching minute: at or after the first match
\* since it was last dealt with, and for that one, for every calendar and however
\* often and late tick is called.  dueSchedules and markTriggered of
\* ScheduleService and the loop of CronTicker.tick.
THEOREM TriggersMatchOnce == CronSpec => FiresOncePerMatch
<1>1. CronInv /\ [CronNext]_cronVars =>
        [\A i \in 1..MaxSchedules :
            Triggered(i) =>
                LET s == schedules[i]
                IN  /\ s.enabled /\ MatchesCron(s.cron, s.nextRunAt)
                    /\ Since(s) < s.nextRunAt /\ s.nextRunAt <= now
                    /\ \A t \in (Since(s) + 1)..(s.nextRunAt - 1) : ~ MatchesCron(s.cron, t)]_cronVars
  BY DEF CronInv, CronTypes, Triggered, FirstMatch, IsDue
<1> QED
  BY <1>1, CronBegins, CronStep, PTL DEF CronSpec, FiresOncePerMatch
=============================================================================
