---------------------------- MODULE BuiltinJobs ----------------------------
(***************************************************************************)
(* The job definitions the engine ships with: the standard and extended    *)
(* catalog, the enterprise pack, the templates and the bundles under       *)
(* config/jobs, and the handlers they name.                                *)
(*                                                                         *)
(* A job id is the sequence of its parts, so that what a template builds   *)
(* from a parameter is <<prefix, parameter>>.  Timeouts are in seconds.    *)
(* Every definition is a chain: each task depends on the one before it.    *)
(***************************************************************************)
EXTENDS Naturals, Sequences, TLC

Step(id, handler, timeout) ==
    [id |-> id, handler |-> handler, timeout |-> timeout, optional |-> FALSE]
OptionalStep(id, handler, timeout) ==
    [id |-> id, handler |-> handler, timeout |-> timeout, optional |-> TRUE]

\* DEFAULT_RETRY_POLICY.maxAttempts.
DefaultAttempts == 3

\* A definition: its id, the chain of its tasks and its retry policy.
Job(id, steps) ==
    [id          |-> id,
     tasks       |-> [k \in 1..Len(steps) |->
                        [id        |-> steps[k].id,
                         handler   |-> steps[k].handler,
                         timeout   |-> steps[k].timeout,
                         optional  |-> steps[k].optional,
                         dependsOn |-> IF k = 1 THEN {} ELSE {steps[k - 1].id}]],
     maxAttempts |-> DefaultAttempts]

\* BUILTIN_HANDLERS: the default timeout of each handler.
ManifestTimeout ==
    ("invoice.fetch" :> 30 @@ "invoice.normalize" :> 15 @@ "invoice.post_gl" :> 30
     @@ "reconcile.extract" :> 90 @@ "reconcile.match" :> 60
     @@ "onboard.validate" :> 20 @@ "onboard.provision" :> 45
     @@ "external.risky_notify" :> 8 @@ "report.aggregate" :> 120)

StandardCatalog == <<
    Job(<<"invoice_fetch_daily">>,
        <<Step("pull", "invoice.fetch", 45), Step("validate", "invoice.normalize", 20)>>),
    Job(<<"invoice_post_gl">>,
        <<Step("prepare", "invoice.normalize", 30), Step("post", "invoice.post_gl", 60),
          Step("audit", "report.aggregate", 15)>>),
    Job(<<"reconcile", "us_ledger">>,
        <<Step("extract", "reconcile.extract", 120), Step("match", "reconcile.match", 180),
          Step("exceptions", "report.aggregate", 30)>>),
    Job(<<"reconcile", "eu_ledger">>,
        <<Step("extract", "reconcile.extract", 120), Step("match", "reconcile.match", 180)>>),
    Job(<<"onboard", "enterprise">>,
        <<Step("kyc", "onboard.validate", 25), Step("provision", "onboard.provision", 90)>>),
    Job(<<"onboard", "smb">>,
        <<Step("kyc", "onboard.validate", 15), Step("provision", "onboard.provision", 45)>>),
    Job(<<"notify_ops_digest">>,
        <<Step("aggregate", "report.aggregate", 60),
          OptionalStep("notify", "external.risky_notify", 10)>>),
    Job(<<"month_end_close">>,
        <<Step("freeze", "reconcile.extract", 60), Step("reconcile", "reconcile.match", 240),
          Step("report", "report.aggregate", 90), Step("publish", "invoice.post_gl", 45)>>) >>

ExtendedCatalog == <<
    Job(<<"apac_invoice_sync">>,
        <<Step("fetch", "invoice.fetch", 40), Step("norm", "invoice.normalize", 20),
          Step("post", "invoice.post_gl", 30)>>),
    Job(<<"latam_reconcile">>,
        <<Step("extract", "reconcile.extract", 90), Step("match", "reconcile.match", 120)>>),
    Job(<<"vendor_onboarding">>,
        <<Step("validate", "onboard.validate", 20), Step("provision", "onboard.provision", 50)>>),
    Job(<<"treasury_daily">>,
        <<Step("extract", "reconcile.extract", 60), Step("report", "report.aggregate", 45)>>),
    Job(<<"compliance_scan">>,
        <<Step("scan", "onboard.validate", 30), OptionalStep("notify", "external.risky_notify", 8)>>),
    Job(<<"intercompany_elim">>,
        <<Step("pull", "invoice.fetch", 55), Step("match", "reconcile.match", 90),
          Step("post", "invoice.post_gl", 40)>>),
    Job(<<"tax_withholding">>,
        <<Step("calc", "report.aggregate", 35), Step("file", "invoice.post_gl", 25)>>),
    Job(<<"payroll_accrual">>,
        <<Step("accrue", "invoice.normalize", 40), Step("post", "invoice.post_gl", 35)>>),
    Job(<<"inventory_reconcile">>,
        <<Step("count", "reconcile.extract", 70), Step("adjust", "reconcile.match", 50)>>),
    Job(<<"fixed_asset_depreciation">>,
        <<Step("depreciate", "report.aggregate", 80), Step("post", "invoice.post_gl", 30)>>),
    Job(<<"credit_memo_processing">>,
        <<Step("fetch", "invoice.fetch", 25), Step("apply", "invoice.normalize", 20)>>),
    Job(<<"collections_escalation">>,
        <<Step("identify", "reconcile.extract", 30), Step("notify", "external.risky_notify", 10)>>),
    Job(<<"budget_variance">>,
        <<Step("load", "invoice.fetch", 20), Step("compare", "reconcile.match", 60),
          Step("report", "report.aggregate", 40)>>),
    Job(<<"subsidiary_roll_up">>,
        <<Step("collect", "reconcile.extract", 100), Step("consolidate", "report.aggregate", 120)>>) >>

FullCatalog == StandardCatalog \o ExtendedCatalog

-----------------------------------------------------------------------------
(* The enterprise pack: eighty generated files with one shape.  Number n   *)
(* has four tasks with consecutive handlers of a cycle of eight.           *)

HandlerCycle == <<"invoice.fetch", "invoice.normalize", "invoice.post_gl", "reconcile.extract",
                  "reconcile.match", "onboard.validate", "onboard.provision", "report.aggregate">>

EnterpriseJob(n) ==
    Job(<<"enterprise_job", ToString(n)>>,
        [k \in 1..4 |-> Step("task_" \o ToString(k - 1), HandlerCycle[((n + k - 1) % 8) + 1], 15 + 5 * k)])

EnterpriseJobPack == [n \in 1..80 |-> EnterpriseJob(n)]

-----------------------------------------------------------------------------
(* WORKFLOW_TEMPLATES: each needs one parameter, which ends the id.        *)

Template(id, prefix, attempts, steps) ==
    [id |-> id, prefix |-> prefix, maxAttempts |-> attempts, steps |-> steps]

WorkflowTemplates == {
    Template("erp_invoice_sync", "invoice_sync", DefaultAttempts,
        <<Step("fetch", "invoice.fetch", 30), Step("normalize", "invoice.normalize", 15),
          Step("post", "invoice.post_gl", 20)>>),
    Template("customer_onboarding", "onboard", DefaultAttempts,
        <<Step("validate", "onboard.validate", 20), Step("provision", "onboard.provision", 45)>>),
    Template("nightly_reconcile", "reconcile", 2,
        <<Step("extract", "reconcile.extract", 120), Step("match", "reconcile.match", 180),
          Step("report", "report.aggregate", 60)>>)}

\* template.build for the parameter p.
Build(template, p) ==
    [Job(<<template.prefix, p>>, template.steps) EXCEPT !.maxAttempts = template.maxAttempts]
=============================================================================
