----------------------------- MODULE MCServices -----------------------------
(***************************************************************************)
(* Small instances of what surrounds the engine: the hooks in front of the *)
(* HTTP routes, the webhooks fed by the event bus, the paged queries over  *)
(* the run store, and the file journal.                                    *)
(*                                                                         *)
(* As modelled they share no state (the run store of RunQueries is filled  *)
(* by its environment), so a property of one of them holds of all if it    *)
(* holds of that one alone.  `part` says which of them this behaviour is   *)
(* about; the others stay in their initial state.                          *)
(***************************************************************************)
EXTENDS Gateway, Webhooks, Journal, RunQueries

VARIABLE part    \* the component that is running

gatewayVars == vars

allVars == <<part, gatewayVars, hookVars, queryVars, journalVars>>

-----------------------------------------------------------------------------
(* Two runs announced to at most two endpoints, of the tenant the listener *)
(* emits for and of another; of the kinds of DomainEvent, one each of      *)
(* those the listeners tell apart.                                         *)

TheEvents ==
    {[type |-> "run.started", to |-> "running"],
     [type |-> "run.completed", to |-> "completed"],
     [type |-> "run.failed", to |-> "failed"]}

TheSubscriptions == {{"run.started", "run.failed"}, {"run.completed", "run.failed"}}

(* Three runs of two jobs, pages of one or two, and a client with no       *)
(* filter, with filters whose runs stay in the list, and with one whose    *)
(* runs leave it.                                                          *)

Unfiltered == [status |-> {}, jobId |-> Unset, triggers |-> {}, since |-> Unset, until |-> Unset]

TheFilters ==
    {Unfiltered, [Unfiltered EXCEPT !.status = {"completed"}], [Unfiltered EXCEPT !.status = {"running"}],
     [Unfiltered EXCEPT !.triggers = {"cron"}, !.jobId = "j1"],
     [Unfiltered EXCEPT !.since = 1], [Unfiltered EXCEPT !.until = 0]}

-----------------------------------------------------------------------------
MCInit ==
    /\ part \in {"gateway", "webhooks", "queries", "journal"}
    /\ Init /\ HookInit /\ QueryInit /\ JournalInit

MCNext ==
    \/ part = "gateway"  /\ Next        /\ UNCHANGED <<part, hookVars, queryVars, journalVars>>
    \/ part = "webhooks" /\ HookNext    /\ UNCHANGED <<part, gatewayVars, queryVars, journalVars>>
    \/ part = "queries"  /\ QueryNext   /\ UNCHANGED <<part, gatewayVars, hookVars, journalVars>>
    \/ part = "journal"  /\ JournalNext /\ UNCHANGED <<part, gatewayVars, hookVars, queryVars>>

MCSpec == MCInit /\ [][MCNext]_allVars
=============================================================================
