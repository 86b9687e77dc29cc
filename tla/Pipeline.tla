------------------------------ MODULE Pipeline ------------------------------
(***************************************************************************)
(* What a job computes: one run of a built-in job, task by task, with the  *)
(* nine handler implementations, TaskSimulator.execute and                 *)
(* TaskExecutor.run with its retries.  Execution models how runs           *)
(* interleave; here the data is followed instead.                          *)
(*                                                                         *)
(* A handler is the set of results it may return for a context.  A row is  *)
(* an invoice, with or without a number; a customer is the length of its   *)
(* id.  The other fields of input and outputs are carried nowhere.         *)
(***************************************************************************)
EXTENDS BuiltinJobs, FiniteSets

CONSTANTS
    Jobs,           \* the jobs that are run
    Inputs          \* the contexts runs are created with

\* JobDefinitionValidator: a definition has tasks, and their ids are distinct.  The jobs
\* that are run list each task after those it depends on.
ASSUME PipelineAssumption ==
    /\ \A in \in Inputs : in.customerId \in Nat
    /\ \A j \in Jobs :
         /\ Len(j.tasks) \in Nat \ {0}
         /\ \A k, n \in 1..Len(j.tasks) : j.tasks[k].id = j.tasks[n].id => k = n
         /\ \A k \in 1..Len(j.tasks) : j.tasks[k].dependsOn \subseteq {j.tasks[n].id : n \in 1..(k - 1)}

VARIABLES
    job,            \* the definition of the run
    input,          \* workflow.context
    task,           \* the task that is next
    attempt,        \* how often it was tried
    outputs,        \* TaskRun.output of the tasks that succeeded, by task id
    status          \* "none", "running", "done" or "failed"

pipelineVars == <<job, input, task, attempt, outputs, status>>

-----------------------------------------------------------------------------
(* Handlers.  ok and fail of TaskHandlerImplementation.                    *)

Ok(output) == [success |-> TRUE, output |-> output]
Failure == [success |-> FALSE, output |-> << >>]

\* a ?? b of two optional fields of the prior outputs.
Prior(prior, id, field, otherwise) ==
    IF id \in DOMAIN prior /\ field \in DOMAIN prior[id] THEN prior[id][field] ELSE otherwise

NumberedRow == [numbered |-> TRUE]

InvoiceFetch(in) == {Ok([records |-> [n \in 1..in.expectedRows |-> NumberedRow]])}

InvoiceNormalize(in, prior) ==
    LET source  == IF "pull" \in DOMAIN prior THEN prior["pull"]
                   ELSE IF "fetch" \in DOMAIN prior THEN prior["fetch"] ELSE in
        records == IF "records" \in DOMAIN source THEN source.records ELSE << >>
    IN  IF \E n \in 1..Len(records) : ~ records[n].numbered
        THEN {Failure} ELSE {Ok([normalized |-> records])}

InvoicePostGl(prior) ==
    {Ok([entries |-> Prior(prior, "prepare", "normalized",
                           Prior(prior, "normalize", "normalized", << >>))])}

ReconcileExtract(in) == {Ok([transactions |-> in.pages])}

ReconcileMatch(prior) ==
    LET txns == Prior(prior, "extract", "transactions", 0)
    IN  {Ok([matched |-> m, unmatched |-> txns - m]) : m \in 0..txns}

\* computeRiskScore.
RiskScore(in) ==
    LET score == (in.customerId % 40) + (IF in.country = "XX" THEN 30 ELSE 0)
                 + (IF in.highRiskIndustry THEN 25 ELSE 0)
    IN  IF score > 100 THEN 100 ELSE score

RiskThreshold == 85

\* Faulty variant: the score is not compared with the threshold.
ValidateAnyRisk(in) == IF in.customerId = 0 THEN {Failure} ELSE {Ok([customerId |-> in.customerId])}

OnboardValidate(in) ==
    IF in.customerId = 0 \/ RiskScore(in) > RiskThreshold
    THEN {Failure} ELSE {Ok([customerId |-> in.customerId])}

OnboardProvision(in, prior) ==
    {Ok([provisioned |-> Prior(prior, "kyc", "customerId",
                               Prior(prior, "validate", "customerId", in.customerId))])}

ReportAggregate(prior) == {Ok([summary |-> DOMAIN prior])}

ExternalNotify == {Ok([delivered |-> TRUE]), Failure}

\* HandlerImplementationRegistry: every handler of the manifest has an implementation.
Results(handler, in, prior) ==
    CASE handler = "invoice.fetch"         -> InvoiceFetch(in)
      [] handler = "invoice.normalize"     -> InvoiceNormalize(in, prior)
      [] handler = "invoice.post_gl"       -> InvoicePostGl(prior)
      [] handler = "reconcile.extract"     -> ReconcileExtract(in)
      [] handler = "reconcile.match"       -> ReconcileMatch(prior)
      [] handler = "onboard.validate"      -> OnboardValidate(in)
      [] handler = "onboard.provision"     -> OnboardProvision(in, prior)
      [] handler = "report.aggregate"      -> ReportAggregate(prior)
      [] handler = "external.risky_notify" -> ExternalNotify

-----------------------------------------------------------------------------
NoJob == Job(<< >>, << >>)

PipelineInit ==
    /\ job = NoJob /\ input \in Inputs /\ task = 1 /\ attempt = 0
    /\ outputs = << >> /\ status = "none"

\* POST /jobs/:id/runs.
Start(j, in) ==
    /\ status = "none"
    /\ job' = j /\ input' = in /\ status' = "running"
    /\ UNCHANGED <<task, attempt, outputs>>

\* TaskExecutor.run hands every handler an empty object.
PriorOutputs == << >>

\* nextRunnable is the next task of the list: all before it have succeeded.
Current == job.tasks[task]

TaskSucceeds ==
    /\ status = "running"
    /\ \E r \in Results(Current.handler, input, PriorOutputs) :
         /\ r.success
         /\ outputs' = [id \in DOMAIN outputs \cup {Current.id} |->
                           IF id = Current.id THEN r.output ELSE outputs[id]]
    /\ task' = task + 1 /\ attempt' = 0
    /\ status' = IF task = Len(job.tasks) THEN "done" ELSE "running"
    /\ UNCHANGED <<job, input>>

\* handleFailure: another attempt while the next number is below maxAttempts.  A
\* failed task ends the run, an optional one too.
TaskFails ==
    /\ status = "running"
    /\ \E r \in Results(Current.handler, input, PriorOutputs) : ~ r.success
    /\ attempt' = attempt + 1
    /\ status' = IF attempt + 2 < job.maxAttempts THEN "running" ELSE "failed"
    /\ UNCHANGED <<job, input, task, outputs>>

\* The next run.
Again ==
    /\ status \in {"done", "failed"}
    /\ job' = NoJob /\ task' = 1 /\ attempt' = 0 /\ outputs' = << >> /\ status' = "none"
    /\ UNCHANGED input

PipelineNext ==
    \/ \E j \in Jobs, in \in Inputs : Start(j, in)
    \/ TaskSucceeds \/ TaskFails \/ Again

PipelineSpec == PipelineInit /\ [][PipelineNext]_pipelineVars

-----------------------------------------------------------------------------
Done(k) == k \in 1..Len(job.tasks) /\ job.tasks[k].id \in DOMAIN outputs

\* Resources are provisioned for the customer of the run, and where the definition has
\* a KYC gate before them, only after that gate has let this customer pass: an id was
\* given, and its risk score is within the threshold.  The provisioning handler checks
\* nothing and takes the customer from the gate's output if it gets it, from the run's
\* context otherwise; only the order of the tasks protects it.
ProvisionedAfterKyc ==
    \A k \in 1..Len(job.tasks) :
        (Done(k) /\ job.tasks[k].handler = "onboard.provision") =>
            /\ outputs[job.tasks[k].id].provisioned = input.customerId
            /\ \A g \in 1..(k - 1) : job.tasks[g].handler = "onboard.validate" =>
                 Done(g) /\ input.customerId # 0 /\ RiskScore(input) <= RiskThreshold

\* A finished run that fetched invoices and posts to the ledger has posted what it fetched.
FetchedIsPosted ==
    status = "done" =>
        \A f, p \in 1..Len(job.tasks) :
            (f < p /\ job.tasks[f].handler = "invoice.fetch" /\ job.tasks[p].handler = "invoice.post_gl")
                => outputs[job.tasks[p].id].entries = outputs[job.tasks[f].id].records
=============================================================================
