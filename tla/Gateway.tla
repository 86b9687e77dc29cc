------------------------------ MODULE Gateway -------------------------------
(***************************************************************************)
(* What a request passes before its route: registerRateLimit with one      *)
(* fixed-window bucket per address, then registerAuthHook with             *)
(* ApiKeyAuthenticator.  Both are preHandler hooks of Fastify, run in this *)
(* order; an answer sent by one ends the request.                          *)
(*                                                                         *)
(* Time is Date.now(), taken to never go back.  The limit counts every     *)
(* request of an address, also those it or the second hook refuses.        *)
(***************************************************************************)
EXTENDS Integers, Sequences

CONSTANTS
    Ips,            \* req.ip
    Kinds,          \* what requests carry: "public" path, "key" or "none"
    AuthDisabled,   \* JOBFLOW_AUTH_DISABLED = "1"
    MaxPerMinute,
    Window,         \* the minute
    MaxTime,        \* bound: how long the clock runs
    MaxCount        \* bound: how far a bucket counts

ASSUME GatewayAssumption ==
    /\ MaxPerMinute \in Nat \ {0} /\ Window \in Nat \ {0}
    /\ MaxTime \in Nat /\ MaxCount \in Nat /\ AuthDisabled \in BOOLEAN

VARIABLES
    now,            \* Date.now()
    bucket,         \* buckets: ip -> count and resetAt
    passed,         \* history: ip -> the times at which the limit let it pass
    answer          \* history: the answer of the last step

vars == <<now, bucket, passed, answer>>

\* No bucket: whatever the time, it is after resetAt.
NoBucket == [count |-> 0, resetAt |-> -1]
NoAnswer == [ip |-> "none", code |-> 0]

Init ==
    /\ now = 0
    /\ bucket = [ip \in Ips |-> NoBucket]
    /\ passed = [ip \in Ips |-> << >>]
    /\ answer = NoAnswer

-----------------------------------------------------------------------------
Expired(b) == now > b.resetAt

\* Faulty variant: every request starts the minute again.
CountedExtending(b) ==
    [count   |-> IF Expired(b) THEN 1 ELSE b.count + 1,
     resetAt |-> now + Window]

\* The bucket after it was looked up, renewed if need be, and counted up.
Counted(b) ==
    [count   |-> IF Expired(b) THEN 1 ELSE b.count + 1,
     resetAt |-> IF Expired(b) THEN now + Window ELSE b.resetAt]

\* Faulty variant: off by one.
WithinPlusOne(b) == b.count <= MaxPerMinute + 1

Within(b) == b.count <= MaxPerMinute

\* The container makes an ApiKeyStore of its own, and nothing calls insert.
KeyStore == {}

\* authenticate: the record with the key's prefix must have the key's hash.
Authenticated(key) == \E record \in KeyStore : record = key

\* The second hook: what it lets through goes on to the route.
Admitted(kind) == kind = "public" \/ AuthDisabled \/ Authenticated(kind)

Request(ip, kind) ==
    LET b == Counted(bucket[ip])
    IN  /\ b.count <= MaxCount
        /\ bucket' = [bucket EXCEPT ![ip] = b]
        /\ passed' = IF Within(b) THEN [passed EXCEPT ![ip] = Append(@, now)] ELSE passed
        /\ answer' = [ip   |-> ip,
                      code |-> IF ~ Within(b) THEN 429
                               ELSE IF Admitted(kind) THEN 200 ELSE 401]
        /\ UNCHANGED now

Tick ==
    /\ now < MaxTime
    /\ now' = now + 1
    /\ answer' = NoAnswer
    /\ UNCHANGED <<bucket, passed>>

Next == Tick \/ \E ip \in Ips, kind \in Kinds : Request(ip, kind)

Spec == Init /\ [][Next]_vars

-----------------------------------------------------------------------------
TypeOK ==
    /\ now \in Nat
    /\ bucket \in [Ips -> [count : Nat, resetAt : Int]]
    /\ passed \in [Ips -> Seq(Nat)]
    /\ answer \in [ip : Ips \cup {"none"}, code : {0, 200, 401, 429}]

\* However the requests lie around the resets, in no minute (first and last instant
\* included) does the limit let more than twice its number of requests of an address
\* pass: between a request and the one 2 * MaxPerMinute later lies more than a minute.
SpanLimited ==
    \A ip \in Ips : \A i \in 1..Len(passed[ip]) :
        i + 2 * MaxPerMinute <= Len(passed[ip])
            => passed[ip][i + 2 * MaxPerMinute] > passed[ip][i] + Window

\* Nobody is refused for longer than for what it did: a 429 goes only to an address
\* that had MaxPerMinute requests pass within the last minute, although the refused
\* requests are counted as well.
RefusalIsEarned ==
    \A ip \in Ips :
        (answer.ip = ip /\ answer.code = 429) =>
            /\ Len(passed[ip]) >= MaxPerMinute
            /\ passed[ip][Len(passed[ip]) - MaxPerMinute + 1] >= now - Window
=============================================================================
