----------------------------- MODULE MCPipeline -----------------------------
(***************************************************************************)
(* The catalog, the templates and a cycle of the enterprise pack, run with *)
(* contexts whose risk scores lie on both sides of the threshold and with  *)
(* invoices a client put into the context itself.                          *)
(***************************************************************************)
EXTENDS Pipeline

Catalogued == {FullCatalog[n] : n \in 1..Len(FullCatalog)} \cup {Build(t, "acme") : t \in WorkflowTemplates}
AllJobs == Catalogued \cup {EnterpriseJob(n) : n \in 1..8}

\* In the catalog and the templates a gate comes before every task that provisions;
\* the sixth job of the cycle has none.
ASSUME GatesAssumption ==
    \A j \in Catalogued : \A k \in 1..Len(j.tasks) : j.tasks[k].handler = "onboard.provision" =>
        \E g \in 1..(k - 1) : j.tasks[g].handler = "onboard.validate"

InvoiceSync == {Build(t, "acme") : t \in {u \in WorkflowTemplates : u.id = "erp_invoice_sync"}}

Context(customer, country, risky, records) ==
    [customerId |-> customer, country |-> country, highRiskIndustry |-> risky,
     expectedRows |-> 2, pages |-> 1, records |-> records]

\* Lengths 30 and 31 with both surcharges score 85 and 86.
TheInputs ==
    {Context(c, country, risky, r) :
        c \in {0, 30, 31}, country \in {"US", "XX"}, risky \in BOOLEAN,
        r \in {<< >>, <<[numbered |-> FALSE]>>}}
=============================================================================
