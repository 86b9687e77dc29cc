------------------------------ MODULE Catalog ------------------------------
(***************************************************************************)
(* How definitions get into the job store: bootstrap with its migrations   *)
(* and CatalogLoader.seedIfEmpty, JobService.register with the handler     *)
(* registry and resolver, the templates, and the bundle importer.          *)
(*                                                                         *)
(* The seed is saved as it is; everything else passes register.  An import *)
(* awaits one file after the other while other requests are served.        *)
(***************************************************************************)
EXTENDS BuiltinJobs, FiniteSets, Functions

CONSTANTS
    TaskIds,        \* the ids tasks may have
    Requests,       \* definitions clients post
    Params,         \* values clients give a template's parameter; "" is none
    Bundles         \* directories to import: sequences of files

\* The form of a definition.  The constraints are left out: register keeps them unread,
\* and whether a run meets them is the business of Execution and Expressions.
TaskDefinition ==
    [id : TaskIds, handler : STRING, timeout : Nat, optional : BOOLEAN, dependsOn : SUBSET TaskIds]

JobDefinition == [id : Seq(STRING), tasks : Seq(TaskDefinition), maxAttempts : Nat]

File == [name : STRING, form : {"json", "broken", "other"}, job : JobDefinition]

ASSUME CatalogAssumption ==
    /\ Requests \subseteq JobDefinition
    /\ \A template \in WorkflowTemplates, p \in Params : Build(template, p) \in JobDefinition
    /\ Bundles \subseteq Seq(File)

VARIABLES
    phase,          \* how far bootstrap is
    applied,        \* MigrationRunner.applied
    seeded,         \* how many of the built-in definitions the loader has saved
    jobStore,       \* the stored definitions by id
    files,          \* what the import under way has still to read
    result          \* its ImportResult

vars == <<phase, applied, seeded, jobStore, files, result>>

Versions == {1, 2, 3}
NoFiles == << >>
NoResult == [imported |-> << >>, failed |-> << >>]

-----------------------------------------------------------------------------
(* What register does with a definition.                                   *)

Validator == INSTANCE Scheduling

\* The definition as JobDefinitionValidator reads it, which looks at no constraint.
AsDefinition(job) ==
    [tasks       |-> [k \in 1..Len(job.tasks) |-> job.tasks[k].id],
     dependsOn   |-> [t \in TaskIds |->
                        UNION {job.tasks[k].dependsOn :
                                 k \in {n \in 1..Len(job.tasks) : job.tasks[n].id = t}}],
     optional    |-> {job.tasks[k].id : k \in {n \in 1..Len(job.tasks) : job.tasks[n].optional}},
     maxAttempts |-> job.maxAttempts,
     blocks      |-> FALSE]

\* assertKnown for every task.
HandlersKnown(job) == \A k \in 1..Len(job.tasks) : job.tasks[k].handler \in DOMAIN ManifestTimeout

\* Faulty variant: the tasks are checked one by one, not as a graph.
AcceptableAlone(job) == Len(job.tasks) > 0 /\ HandlersKnown(job)

\* The input schema, the registry and the validator.
Acceptable(job) ==
    /\ \A k \in 1..Len(job.tasks) : job.tasks[k].timeout > 0
    /\ HandlersKnown(job) /\ Validator!ValidDefinition(AsDefinition(job))

\* resolveTasks: a timeout is cut to twice the default of its handler.
Capped(task) ==
    LET cap == 2 * ManifestTimeout[task.handler]
    IN  [task EXCEPT !.timeout = IF @ > cap THEN cap ELSE @]

Resolved(job) == [job EXCEPT !.tasks = [k \in 1..Len(job.tasks) |-> Capped(job.tasks[k])]]

\* The map after a save: a definition with the same id is replaced.
Saved(store, job) ==
    [id \in DOMAIN store \cup {job.id} |-> IF id = job.id THEN job ELSE store[id]]

Registered(job) == IF Acceptable(job) THEN Saved(jobStore, Resolved(job)) ELSE jobStore

-----------------------------------------------------------------------------
Init ==
    /\ phase = "migrating" /\ applied = {} /\ seeded = 0
    /\ jobStore = << >>
    /\ files = NoFiles /\ result = NoResult

\* A round of migrate's loop, in the order of the versions.
Migrate ==
    /\ phase = "migrating"
    /\ \E v \in Versions \ applied :
         /\ \A w \in Versions \ applied : v <= w
         /\ applied' = applied \cup {v}
    /\ UNCHANGED <<phase, seeded, jobStore, files, result>>

Builtin == FullCatalog \o EnterpriseJobPack

\* seedIfEmpty asks the store.
BeginSeed ==
    /\ phase = "migrating" /\ applied = Versions
    /\ phase' = IF DOMAIN jobStore # {} THEN "serving" ELSE "seeding"
    /\ UNCHANGED <<applied, seeded, jobStore, files, result>>

\* A round of its loop; then the server listens.
SeedNext ==
    /\ phase = "seeding"
    /\ jobStore' = Saved(jobStore, Builtin[seeded + 1])
    /\ seeded' = seeded + 1
    /\ phase' = IF seeded' = Len(Builtin) THEN "serving" ELSE "seeding"
    /\ UNCHANGED <<applied, files, result>>

\* POST /jobs.
RegisterJob(job) ==
    /\ phase = "serving"
    /\ jobStore' = Registered(job)
    /\ UNCHANGED <<phase, applied, seeded, files, result>>

\* POST /v2/templates/:id/instantiate: a missing parameter throws.
Instantiate(template, p) ==
    /\ phase = "serving" /\ p # ""
    /\ jobStore' = Registered(Build(template, p))
    /\ UNCHANGED <<phase, applied, seeded, files, result>>

\* POST /v2/import/jobs: readdir.
BeginImport(dir) ==
    /\ phase = "serving" /\ files = NoFiles
    /\ files' = dir /\ result' = NoResult
    /\ UNCHANGED <<phase, applied, seeded, jobStore>>

\* One file: passed over if it is not a .json, failed if it cannot be read, parsed
\* or registered, imported otherwise.
ImportFile(readable) ==
    /\ files # NoFiles
    /\ files' = Tail(files)
    /\ LET f == Head(files)
       IN  IF f.form = "other" THEN UNCHANGED <<jobStore, result>>
           ELSE IF readable /\ f.form = "json" /\ Acceptable(f.job)
                THEN /\ jobStore' = Registered(f.job)
                     /\ result' = [result EXCEPT !.imported = Append(@, f.job.id)]
                ELSE /\ result' = [result EXCEPT !.failed = Append(@, f.name)]
                     /\ UNCHANGED jobStore
    /\ UNCHANGED <<phase, applied, seeded>>

\* The process ends and is started again; everything was in memory.
Restart ==
    /\ phase = "serving"
    /\ phase' = "migrating" /\ applied' = {} /\ seeded' = 0
    /\ jobStore' = << >> /\ files' = NoFiles /\ result' = NoResult

Next ==
    \/ Migrate \/ BeginSeed \/ SeedNext \/ Restart
    \/ \E job \in Requests : RegisterJob(job)
    \/ \E template \in WorkflowTemplates, p \in Params : Instantiate(template, p)
    \/ \E dir \in Bundles : BeginImport(dir)
    \/ \E readable \in BOOLEAN : ImportFile(readable)

Spec == Init /\ [][Next]_vars

-----------------------------------------------------------------------------
\* The tasks can be executed in this order: each once, after all it depends on.
RunsInOrder(job, order) ==
    \A k \in DOMAIN order :
        /\ \A n \in 1..(k - 1) : order[n] # order[k]
        /\ job.tasks[order[k]].dependsOn \subseteq {job.tasks[order[n]].id : n \in 1..(k - 1)}

\* All tasks can be taken in turn, each has a handler, and an id names one task.
Runnable(job) ==
    LET positions == 1..Len(job.tasks) IN
    /\ positions # {} /\ HandlersKnown(job)
    /\ \A k, n \in positions : job.tasks[k].id = job.tasks[n].id => k = n
    /\ \E order \in [positions -> positions] : RunsInOrder(job, order)

SeedRunnable == \A k \in 1..Len(Builtin) : Runnable(Builtin[k])

\* The shipped definitions are data: that each can be run is computed, not proved.
ASSUME SeedAssumption == SeedRunnable

\* While the server answers, every built-in id is served and no stored job is stuck by
\* its own graph: its tasks can be put in an order in which each comes once and after
\* all it depends on, and each names a registered handler.  (Whether handlers succeed
\* and constraints let the run complete is another matter.)  The seed never passes the
\* validator, and templates, bundles and clients replace built-in jobs
\* by others with the same id.
ServesRunnableJobs ==
    phase = "serving" =>
        /\ \A k \in 1..Len(Builtin) : Builtin[k].id \in DOMAIN jobStore
        /\ SeedRunnable
        /\ \A id \in DOMAIN jobStore :
             jobStore[id].id = id /\ (jobStore[id] \in Range(Builtin) \/ Runnable(jobStore[id]))
=============================================================================
