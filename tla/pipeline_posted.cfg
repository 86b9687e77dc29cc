SPECIFICATION PipelineSpec
CONSTANTS
    Jobs <- InvoiceSync
    Inputs <- TheInputs
INVARIANTS
    FetchedIsPosted
