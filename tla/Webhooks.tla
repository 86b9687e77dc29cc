------------------------------ MODULE Webhooks ------------------------------
(***************************************************************************)
(* The event bus with the listeners the container subscribes to it, and    *)
(* WebhookService.emit with the deliveries of WebhookDispatcher.           *)
(*                                                                         *)
(* A listener drops the promise of emit, so the emits of several events    *)
(* are under way at the same time, each waiting for the answer to a POST.  *)
(* Everything an emit does between two answers is one action.  The clock   *)
(* counts milliseconds: a delivery takes its id from it.                   *)
(***************************************************************************)
EXTENDS Naturals, Sequences, FiniteSets

CONSTANTS
    Runs,           \* each is announced on the bus at most once
    Events,         \* what is published: a DomainEvent's type, and the state reached
    Subscriptions,  \* the sets of events clients subscribe to
    Tenants,        \* tenants of the clients
    EmitTenant,     \* the tenant the listener emits for
    MaxAttempts,    \* of the dispatcher
    MaxEndpoints,   \* bound: endpoints registered
    MaxHookTime,    \* bound: milliseconds the clock runs
    None            \* nothing yet

VARIABLES
    endpoints,      \* the webhook store, in the order of registration
    published,      \* run -> the event that announced it
    known,          \* run -> how many endpoints there were then
    counted,        \* the runs the metrics counter of completed or failed runs counts
    todo,           \* run -> the endpoints emit has yet to deal with, the current first
    delivery,       \* run -> id and attempts of the delivery under way
    deliveries,     \* delivery store: id -> record
    sent,           \* run -> endpoint -> what was really sent, for the properties
    hookNow

hookVars == <<endpoints, published, known, counted, todo, delivery, deliveries, sent, hookNow>>

EndpointIds == 1..MaxEndpoints
Times       == 0..MaxHookTime

ASSUME HookAssumption ==
    /\ MaxAttempts \in Nat \ {0} /\ MaxEndpoints \in Nat /\ MaxHookTime \in Nat
    /\ None \notin Events
    /\ None \notin [run : Runs, endpoint : EndpointIds, status : {"delivered", "failed"}, attempts : Nat]

NoDelivery == [id |-> None, attempts |-> 0]
Unsent     == [attempts |-> 0, began |-> None, status |-> "pending"]

HookInit ==
    /\ endpoints = << >>
    /\ published = [r \in Runs |-> None]
    /\ known = [r \in Runs |-> 0]
    /\ counted = {}
    /\ todo = [r \in Runs |-> << >>]
    /\ delivery = [r \in Runs |-> NoDelivery]
    /\ deliveries = [t \in Times |-> None]
    /\ sent = [r \in Runs |-> [e \in EndpointIds |-> Unsent]]
    /\ hookNow = 0

\* POST /webhooks.
RegisterEndpoint(tenant, events) ==
    /\ Len(endpoints) < MaxEndpoints
    /\ endpoints' = Append(endpoints, [tenant |-> tenant, events |-> events])
    /\ UNCHANGED <<published, known, counted, todo, delivery, deliveries, sent, hookNow>>

\* The endpoints listForEvent finds, and the lists of them in the order of
\* registration.
Wanted(type) ==
    {e \in DOMAIN endpoints : endpoints[e].tenant = EmitTenant /\ type \in endpoints[e].events}

ListForEvent(type) ==
    {list \in [1..Cardinality(Wanted(type)) -> Wanted(type)] :
        \A j, k \in DOMAIN list : j < k => list[j] < list[k]}

\* emit, from the head of its loop with `rest` to deal with, up to the first POST.
\* `done` is what this emit has sent so far.
DispatchNext(r, rest, done) ==
    /\ todo' = [todo EXCEPT ![r] = rest]
    /\ IF rest = << >>
       THEN /\ delivery' = [delivery EXCEPT ![r] = NoDelivery]
            /\ sent' = [sent EXCEPT ![r] = done]
       ELSE /\ delivery' = [delivery EXCEPT ![r] = [id |-> hookNow, attempts |-> 1]]
            /\ sent' = [sent EXCEPT ![r] = [done EXCEPT ![Head(rest)] =
                           [attempts |-> 1, began |-> hookNow, status |-> "pending"]]]

\* The types of events the listeners do something about.
RunEnds == {"run.completed", "run.failed"}

\* The first listener, the metrics collector: it has counters for both ends of a run.
OnDomainEvent(r, event) ==
    counted' = IF event.type \in RunEnds THEN counted \cup {r} ELSE counted

\* The second listener emits for the same two types.
EmitOnEnd(r, event) ==
    IF event.type \in RunEnds
    THEN \E list \in ListForEvent(event.type) : DispatchNext(r, list, sent[r])
    ELSE UNCHANGED <<todo, delivery, sent>>

\* publish calls the listeners one after the other.
Publish(r, event) ==
    /\ published[r] = None
    /\ published' = [published EXCEPT ![r] = event]
    /\ known' = [known EXCEPT ![r] = Len(endpoints)]
    /\ OnDomainEvent(r, event)
    /\ EmitOnEnd(r, event)
    /\ UNCHANGED <<endpoints, deliveries, hookNow>>

\* Faulty variant: the record is saved under the time of its last attempt.
SaveAtEnd(r, status) ==
    deliveries' = [deliveries EXCEPT ![hookNow] =
        [run |-> r, endpoint |-> Head(todo[r]), status |-> status, attempts |-> delivery[r].attempts]]

\* deliveries.save overwrites a record with the same id.
Save(r, status) ==
    deliveries' = [deliveries EXCEPT ![delivery[r].id] =
        [run |-> r, endpoint |-> Head(todo[r]), status |-> status, attempts |-> delivery[r].attempts]]

\* The answer is ok: the delivery is recorded and the next endpoint is served.
PostSucceeds(r) ==
    /\ todo[r] # << >>
    /\ Save(r, "delivered")
    /\ DispatchNext(r, Tail(todo[r]), [sent[r] EXCEPT ![Head(todo[r])].status = "delivered"])
    /\ UNCHANGED <<endpoints, published, known, counted, hookNow>>

\* Faulty variant: a failed delivery ends the emit.
PostFailsOut(r) ==
    /\ todo[r] # << >>
    /\ IF delivery[r].attempts < MaxAttempts
       THEN /\ delivery' = [delivery EXCEPT ![r].attempts = @ + 1]
            /\ sent' = [sent EXCEPT ![r][Head(todo[r])].attempts = @ + 1]
            /\ UNCHANGED <<todo, deliveries>>
       ELSE /\ Save(r, "failed")
            /\ DispatchNext(r, << >>, [sent[r] EXCEPT ![Head(todo[r])].status = "failed"])
    /\ UNCHANGED <<endpoints, published, known, counted, hookNow>>

\* Any other answer, a network error or the timeout: the next attempt, or the
\* delivery is recorded as failed.
PostFails(r) ==
    /\ todo[r] # << >>
    /\ IF delivery[r].attempts < MaxAttempts
       THEN /\ delivery' = [delivery EXCEPT ![r].attempts = @ + 1]
            /\ sent' = [sent EXCEPT ![r][Head(todo[r])].attempts = @ + 1]
            /\ UNCHANGED <<todo, deliveries>>
       ELSE /\ Save(r, "failed")
            /\ DispatchNext(r, Tail(todo[r]), [sent[r] EXCEPT ![Head(todo[r])].status = "failed"])
    /\ UNCHANGED <<endpoints, published, known, counted, hookNow>>

Answer(r) == PostSucceeds(r) \/ PostFails(r)

HookTick ==
    /\ hookNow < MaxHookTime
    /\ hookNow' = hookNow + 1
    /\ UNCHANGED <<endpoints, published, known, counted, todo, delivery, deliveries, sent>>

HookNext ==
    \/ \E t \in Tenants, s \in Subscriptions : RegisterEndpoint(t, s)
    \/ \E r \in Runs : Answer(r) \/ \E e \in Events : Publish(r, e)
    \/ HookTick

HookSpec == HookInit /\ [][HookNext]_hookVars

-----------------------------------------------------------------------------
(* Properties.                                                             *)

\* The endpoints that should hear of r: those of the tenant that were registered
\* for the event when it was published, if it is one that is emitted.
Subscribers(r) ==
    {e \in 1..known[r] : /\ published[r].type \in RunEnds
                         /\ endpoints[e].tenant = EmitTenant
                         /\ published[r].type \in endpoints[e].events}

Finished(r) == published[r] # None /\ todo[r] = << >>

\* Nobody but a subscriber is sent anything, nobody more than MaxAttempts requests,
\* and another attempt is made only while none was answered with success.  An emit
\* that has come to its end has served every subscriber: one that cannot be reached
\* does not keep the others from being notified.
SubscribersServed ==
    \A r \in Runs :
        /\ \A e \in EndpointIds :
             sent[r][e].attempts > 0 =>
                 /\ e \in Subscribers(r)
                 /\ sent[r][e].attempts <= MaxAttempts
                 /\ sent[r][e].status = "failed" => sent[r][e].attempts = MaxAttempts
                 /\ sent[r][e].status = "pending" <=> todo[r] # << >> /\ Head(todo[r]) = e
        /\ Finished(r) =>
             \A e \in Subscribers(r) : sent[r][e].status \in {"delivered", "failed"}

\* What the delivery store says of a delivery is what happened, and a delivery
\* that has ended is missing from it only if another one of the same millisecond
\* has taken its id.
RecordsAreTrue ==
    /\ \A t \in Times : deliveries[t] # None =>
         LET d == deliveries[t]
         IN  /\ sent[d.run][d.endpoint].status = d.status
             /\ sent[d.run][d.endpoint].attempts = d.attempts
             /\ sent[d.run][d.endpoint].began = t
    /\ \A r \in Runs, e \in EndpointIds :
         sent[r][e].status # "pending" =>
             LET d == deliveries[sent[r][e].began]
             IN  /\ d # None
                 /\ \/ d.run = r /\ d.endpoint = e
                    \/ sent[d.run][d.endpoint].began = sent[r][e].began

\* Domain events feed the metrics counters and the webhooks: a run whose
\* completion was announced on the bus is counted and its subscribers are served.
EventsFeedListeners ==
    \A r \in Runs :
        published[r] # None /\ published[r].to = "completed" =>
            /\ r \in counted
            /\ \A e \in 1..known[r] :
                  endpoints[e].tenant = EmitTenant /\ "run.completed" \in endpoints[e].events =>
                      sent[r][e].attempts > 0 \/ \E k \in DOMAIN todo[r] : todo[r][k] = e
=============================================================================
