-------------------------------- MODULE Cron --------------------------------
(***************************************************************************)
(* ScheduleService, the cron matcher and CronTicker.                       *)
(*                                                                         *)
(* Time is counted in minutes: a cron expression has no finer unit, and    *)
(* nextRunAt is always a full minute.  The timer calls tick about once a   *)
(* minute, sometimes late, sometimes twice within one.  A tick awaits only *)
(* in-memory stores, so the event loop takes no request and no other timer *)
(* before it has dealt with all due schedules: `due` is not empty while it *)
(* is under way.  Nobody awaits a tick, so one that throws is an unhandled *)
(* rejection, which ends the process with everything it has in memory.     *)
(***************************************************************************)
EXTENDS Naturals, Sequences, FiniteSetsExt

CONSTANTS
    Jobs,           \* job ids clients write in schedules
    Expressions,    \* the cron expressions they write
    DateOf(_),      \* the calendar: minute -> its five fields
    Horizon,        \* minutes nextCronRun looks ahead
    MaxSchedules,   \* bound: schedules created
    MaxTime,        \* bound: minutes the clock runs
    None            \* undefined

ASSUME CronAssumption == Horizon \in Nat /\ MaxTime \in Nat /\ None \notin Nat

VARIABLES
    schedules,      \* the schedule store, in the order of insertion
    jobs,           \* the jobs that are registered
    now,            \* the current minute
    due,            \* the schedules the tick under way still has to trigger
    crashed         \* an unhandled rejection has ended the process

cronVars == <<schedules, jobs, now, due, crashed>>

-----------------------------------------------------------------------------
(* The matcher.  A field is any value, every n-th or a list of numbers.    *)

Fields == {"minute", "hour", "dom", "month", "dow"}

AnyValue     == [kind |-> "any"]
EveryNth(n)  == [kind |-> "step", step |-> n]
OneOf(S)     == [kind |-> "list", values |-> S]

MatchField(expr, value) ==
    \/ expr.kind = "any"
    \/ expr.kind = "step" /\ expr.step > 0 /\ value % expr.step = 0
    \/ expr.kind = "list" /\ value \in expr.values

MatchesCron(expression, t) == \A f \in Fields : MatchField(expression[f], DateOf(t)[f])

\* Faulty variant: the search starts with the current minute.
MatchesFromNow(expression, after) ==
    {t \in after..(after + Horizon - 1) : MatchesCron(expression, t)}

\* The minutes among which nextCronRun takes the first; it throws if there is none.
MatchesAhead(expression, after) ==
    {t \in (after + 1)..(after + Horizon) : MatchesCron(expression, t)}

NextCronRun(expression, after) == Min(MatchesAhead(expression, after))

-----------------------------------------------------------------------------
CronInit ==
    /\ schedules = << >>
    /\ jobs = {}
    /\ now = 0
    /\ due = {}
    /\ crashed = FALSE

\* No tick is under way and the process runs.
Idle == due = {} /\ ~ crashed

\* POST /jobs.
Register(j) ==
    /\ Idle
    /\ jobs' = jobs \cup {j}
    /\ UNCHANGED <<schedules, now, due, crashed>>

\* POST /schedules.  Whether the job exists is not looked at; an expression that
\* nextCronRun finds no match for is rejected.
Create(j, e) ==
    /\ Idle
    /\ Len(schedules) < MaxSchedules
    /\ MatchesAhead(e, now) # {}
    /\ schedules' = Append(schedules,
          [job |-> j, cron |-> e, enabled |-> TRUE, createdAt |-> now,
           lastTriggeredAt |-> None, nextRunAt |-> NextCronRun(e, now)])
    /\ UNCHANGED <<jobs, now, due, crashed>>

Disable(i) ==
    /\ Idle
    /\ i \in DOMAIN schedules
    /\ schedules' = [schedules EXCEPT ![i].enabled = FALSE]
    /\ UNCHANGED <<jobs, now, due, crashed>>

\* Faulty variant: a schedule is due from the minute after.
IsDueLate(i) == schedules[i].enabled /\ schedules[i].nextRunAt < now

\* dueSchedules.  create and markTriggered always set nextRunAt.
IsDue(i) == schedules[i].enabled /\ schedules[i].nextRunAt <= now

\* The timer fires and the due schedules are listed.
Tick ==
    /\ Idle
    /\ due' = {i \in DOMAIN schedules : IsDue(i)}
    /\ UNCHANGED <<schedules, jobs, now, crashed>>

\* Nothing is kept on disk.
ProcessEnds ==
    /\ crashed' = TRUE
    /\ schedules' = << >> /\ jobs' = {} /\ due' = {}

MarkTriggered(i) ==
    schedules' = [schedules EXCEPT ![i].lastTriggeredAt = now,
                                   ![i].nextRunAt = NextCronRun(schedules[i].cron, now)]

\* One turn of the loop in tick, oldest schedule first.  createRun throws when the
\* job is not registered, markTriggered when there is no match within the horizon.
Trigger ==
    \E i \in due :
        /\ \A k \in due : i <= k
        /\ IF schedules[i].job \in jobs /\ MatchesAhead(schedules[i].cron, now) # {}
           THEN /\ MarkTriggered(i)
                /\ due' = due \ {i}
                /\ UNCHANGED <<jobs, crashed>>
           ELSE ProcessEnds
        /\ UNCHANGED now

\* Another minute has passed.
Minute ==
    /\ due = {}
    /\ now < MaxTime
    /\ now' = now + 1
    /\ UNCHANGED <<schedules, jobs, due, crashed>>

Restart ==
    /\ crashed
    /\ crashed' = FALSE
    /\ UNCHANGED <<schedules, jobs, now, due>>

CronNext ==
    \/ \E j \in Jobs : Register(j) \/ \E e \in Expressions : Create(j, e)
    \/ \E i \in 1..MaxSchedules : Disable(i)
    \/ Tick \/ Trigger \/ Minute \/ Restart

CronSpec == CronInit /\ [][CronNext]_cronVars

\* setInterval keeps calling tick, and a tick that was begun goes on.
CronFairSpec == CronSpec /\ WF_cronVars(Tick) /\ WF_cronVars(Trigger)

-----------------------------------------------------------------------------
(* Properties.                                                             *)

\* The minute up to which a schedule's matches have been dealt with.
Since(s) == IF s.lastTriggeredAt = None THEN s.createdAt ELSE s.lastTriggeredAt

\* The turn of the loop for schedule i went well.
Triggered(i) == i \in due \ due' /\ i \in DOMAIN schedules'

\* An enabled schedule is triggered once for a matching minute, not before it and never
\* again for one that an earlier, possibly late, tick has dealt with; and the
\* minute it is triggered for is the first match since then, so that late ticks
\* are the only way to miss a match.
FiresOncePerMatch ==
    [][\A i \in 1..MaxSchedules :
          Triggered(i) =>
              LET s == schedules[i]
              IN  /\ s.enabled /\ MatchesCron(s.cron, s.nextRunAt)
                  /\ Since(s) < s.nextRunAt /\ s.nextRunAt <= now
                  /\ \A t \in (Since(s) + 1)..(s.nextRunAt - 1) : ~ MatchesCron(s.cron, t)]_cronVars

Overdue(i) ==
    i \in DOMAIN schedules /\ schedules[i].enabled /\ schedules[i].nextRunAt <= now

\* Nothing that is due is forgotten: it is triggered or disabled, or the process
\* has ended.
DueIsTriggered == \A i \in 1..MaxSchedules : Overdue(i) ~> (~ Overdue(i) \/ crashed)
=============================================================================
