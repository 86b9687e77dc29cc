----------------------------- MODULE RunQueries -----------------------------
(***************************************************************************)
(* GET /v2/jobs/:jobId/runs: RunQueryService.search filters, sorts and     *)
(* cuts the runs of a job into pages.  Every page is computed anew, so a   *)
(* client that asks for one page after the other meets runs that were      *)
(* created or went on in between.                                          *)
(*                                                                         *)
(* Times are taken to never go back.  A run is what the query looks at; it *)
(* lives as RefinesLifecycle of Execution says: pending, running, then     *)
(* completed or failed, and from failed to dead_lettered.                  *)
(***************************************************************************)
EXTENDS Integers, Sequences, FiniteSets, Functions

CONSTANTS
    Jobs,           \* job ids
    Triggers,       \* what starts runs
    Filters,        \* the RunFilter values of clients
    PageSizes,      \* what clients ask for
    MaxPageSize,    \* 100 in paginate
    MaxRuns,        \* bound: runs created
    MaxRunTime,     \* bound: how long the clock runs
    Unset           \* no finish time, or no such filter

ASSUME QueryAssumption ==
    /\ MaxPageSize \in Nat \ {0} /\ PageSizes \subseteq Int
    /\ MaxRuns \in Nat /\ MaxRunTime \in Nat /\ Unset \notin Nat

VARIABLES
    runs,           \* the run store: a Map, so in the order of creation
    runNow,
    walk,           \* the client: "none", "asking" for page after page, or "done"
    query,          \* what it asks for
    page,           \* the page it asks for next
    wanted,         \* the runs that matched when it began
    seen            \* what it has been given

walkVars  == <<walk, query, page, wanted, seen>>
queryVars == <<runs, runNow, walkVars>>

QueryInit ==
    /\ runs = << >> /\ runNow = 0
    /\ walk = "none" /\ query = Unset /\ page = 0 /\ wanted = {} /\ seen = << >>

-----------------------------------------------------------------------------
(* The store.                                                              *)

\* createRun saves a new run.
CreateRun(job, trigger) ==
    /\ Len(runs) < MaxRuns
    /\ runs' = Append(runs, [job |-> job, trigger |-> trigger, status |-> "pending",
                             startedAt |-> runNow, finishedAt |-> Unset])
    /\ UNCHANGED <<runNow, walkVars>>

\* applyTransition saves the run again: it keeps its place in the map, and gets a
\* finish time when it ends.  Failed is not an end.
Steps ==
    {<<"pending", "running">>, <<"running", "completed">>, <<"running", "failed">>,
     <<"failed", "dead_lettered">>}

Transition(r, to) ==
    /\ <<runs[r].status, to>> \in Steps
    /\ runs' = [runs EXCEPT ![r].status = to,
                            ![r].finishedAt = IF to \in {"completed", "dead_lettered"}
                                               THEN runNow ELSE @]
    /\ UNCHANGED <<runNow, walkVars>>

RunTick == runNow < MaxRunTime /\ runNow' = runNow + 1 /\ UNCHANGED <<runs, walkVars>>

-----------------------------------------------------------------------------
(* search.  Runs are handled by their ids, their places in the store, and  *)
(* a list of runs that keeps the order of the store is the set of them.    *)

ListByJob(job) == {r \in DOMAIN runs : runs[r].job = job}

\* Every part of a filter that is absent lets everything pass.
Matches(r, f) ==
    /\ f.status # {} => runs[r].status \in f.status
    /\ f.jobId # Unset => runs[r].job = f.jobId
    /\ f.triggers # {} => runs[r].trigger \in f.triggers
    /\ f.since # Unset => ~ runs[r].startedAt < f.since
    /\ f.until # Unset /\ runs[r].finishedAt # Unset => ~ runs[r].finishedAt > f.until

FilterRuns(rs, f) == {r \in rs : Matches(r, f)}

\* The place of a run in the list: the larger key first, and since the sort is
\* stable, of equal keys the one that comes first in the store.
Rank(r, rs, key) ==
    1 + Cardinality({s \in rs : key[s] > key[r] \/ (key[s] = key[r] /\ s < r)})

SortDescending(rs, key) ==
    [i \in 1..Cardinality(rs) |-> CHOOSE r \in rs : Rank(r, rs, key) = i]

\* Faulty variant: the other order sortRuns offers.
SortRunsByFinish(rs) ==
    SortDescending(rs, [r \in DOMAIN runs |->
                          IF runs[r].finishedAt = Unset THEN 0 ELSE 1 + runs[r].finishedAt])

\* sortRuns with its default parameters.
SortRuns(rs) == SortDescending(rs, [r \in DOMAIN runs |-> runs[r].startedAt])

AtLeastOne(n) == IF n < 1 THEN 1 ELSE n
AtMost(cap, n) == IF n > cap THEN cap ELSE n

Paginate(items, number, size) ==
    LET current  == AtLeastOne(number)
        pageSize == AtMost(MaxPageSize, AtLeastOne(size))
        start    == (current - 1) * pageSize
    IN  [items      |-> SubSeq(items, start + 1, AtMost(Len(items), start + pageSize)),
         page       |-> current,
         totalPages |-> AtLeastOne((Len(items) + pageSize - 1) \div pageSize)]

Search(job, f, number, size) == Paginate(SortRuns(FilterRuns(ListByJob(job), f)), number, size)

-----------------------------------------------------------------------------
(* The client: all pages, one after the other, until the answer says that  *)
(* this was the last.                                                      *)

BeginWalk(job, f, pageSize) ==
    /\ walk = "none" /\ walk' = "asking"
    /\ query' = [job |-> job, filter |-> f, pageSize |-> pageSize]
    /\ wanted' = FilterRuns(ListByJob(job), f)
    /\ UNCHANGED <<runs, runNow, page, seen>>

GetPage ==
    /\ walk = "asking"
    /\ LET result == Search(query.job, query.filter, page, query.pageSize)
       IN  /\ walk' = IF result.page < result.totalPages THEN "asking" ELSE "done"
           /\ page' = result.page + 1
           /\ seen' = seen \o result.items
    /\ UNCHANGED <<runs, runNow, query, wanted>>

QueryNext ==
    \/ \E job \in Jobs, trigger \in Triggers : CreateRun(job, trigger)
    \/ \E r \in DOMAIN runs, s \in Steps : Transition(r, s[2])
    \/ RunTick
    \/ \E job \in Jobs, f \in Filters, n \in PageSizes : BeginWalk(job, f, n)
    \/ GetPage

QuerySpec == QueryInit /\ [][QueryNext]_queryVars

-----------------------------------------------------------------------------
(* Property.                                                               *)

\* Runs that match such a filter go on matching it.
Lasting(f) == f.until = Unset /\ f.status \subseteq {"completed", "dead_lettered"}

\* A client that has gone through all pages has seen every run that matched when
\* it began and none that never matched, although each page is cut from a new
\* list: a run that appears can only push others to later pages, as long as none
\* leaves the list.  If none appeared it has seen each once, the last started first.
WalkIsComplete ==
    walk = "done" /\ Lasting(query.filter) =>
        LET matching == FilterRuns(ListByJob(query.job), query.filter) IN
        /\ wanted \subseteq Range(seen)
        /\ Range(seen) \subseteq matching
        /\ matching = wanted => seen = SortRuns(matching)
=============================================================================
