----------------------------- MODULE MCCatalog -----------------------------
(***************************************************************************)
(* Clients that post a valid definition, one with a cycle, one with an     *)
(* unknown handler and one with no time for its task, templates with       *)
(* parameters that give the id of a built-in job, and the bundles under    *)
(* config/jobs with damaged files among them.                              *)
(***************************************************************************)
EXTENDS Catalog

TheTaskIds == UNION {{Builtin[n].tasks[k].id : k \in 1..Len(Builtin[n].tasks)} : n \in 1..Len(Builtin)}
              \cup {"normalize", "aggregate", "publish"}

Looped == [Job(<<"onboard", "smb">>, <<Step("kyc", "onboard.validate", 20),
                                       Step("provision", "onboard.provision", 20)>>)
             EXCEPT !.tasks[1].dependsOn = {"provision"}]

TheRequests == {Job(<<"invoice_post_gl">>, <<Step("post", "invoice.post_gl", 300)>>), Looped,
                Job(<<"month_end_close">>, <<Step("report", "report.unknown", 10)>>),
                Job(<<"month_end_close">>, <<Step("report", "report.aggregate", 0)>>)}

Bundle(name, job) == [name |-> name, form |-> "json", job |-> job]
NoTasks == Job(<<"none">>, << >>)

ConfigJobs == <<
    Bundle("customer-onboarding", Job(<<"customer_onboarding">>,
        <<Step("validate", "onboard.validate", 25), Step("provision", "onboard.provision", 60)>>)),
    Bundle("invoice-sync", Job(<<"invoice_sync">>,
        <<Step("fetch", "invoice.fetch", 30), Step("normalize", "invoice.normalize", 15),
          Step("post", "invoice.post_gl", 25)>>)),
    Bundle("nightly-reconcile", Job(<<"nightly_reconcile">>,
        <<Step("extract", "reconcile.extract", 120), Step("match", "reconcile.match", 180),
          OptionalStep("notify", "external.risky_notify", 8)>>)),
    Bundle("weekly-report", Job(<<"weekly_ops_report">>,
        <<Step("aggregate", "report.aggregate", 90), Step("publish", "report.aggregate", 45)>>)) >>

OtherFiles == << [name |-> "README", form |-> "other", job |-> NoTasks],
                 [name |-> "torn", form |-> "broken", job |-> NoTasks],
                 Bundle("empty", NoTasks), Bundle("looped", Looped) >>

TheBundles == {ConfigJobs, OtherFiles}
TheParams == {"us_ledger", ""}
=============================================================================
