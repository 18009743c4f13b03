---------------------------- MODULE RateLimiter ----------------------------
(***************************************************************************)
(* The token buckets of internal/http/ratelimit.go behind the middleware   *)
(* rateLimit of server.go.  Each member of Requests is one request to a    *)
(* limited path: it reads the clock and later takes the limiter's mutex,   *)
(* so buckets may see clock readings out of order.                         *)
(*                                                                         *)
(* Time is in ticks; a bucket counts in units of which a request costs     *)
(* Cost and a tick brings Rate, so that the source's rate is Rate / Cost   *)
(* requests a tick (its floating-point numbers are taken as exact).        *)
(***************************************************************************)
EXTENDS Integers, FiniteSets

CONSTANTS
    Requests, Paths, Addresses,
    NoAddress,          \* no usable X-Forwarded-For
    Trusted,            \* addresses of trusted proxies
    Rate, Cost, Burst,  \* refill, price and capacity, in units
    TrimEvery, KeepFor, \* 5 and 10 minutes
    MaxTime,            \* bound on the clock
    MaxWait             \* bound on the time from reading the clock to the mutex

ASSUME LimiterAssumption ==
    /\ Trusted \subseteq Addresses /\ NoAddress \notin Addresses
    /\ {Rate, Cost, Burst, TrimEvery, KeepFor} \subseteq Nat \ {0}
    /\ Burst % Cost = 0
    /\ {MaxTime, MaxWait} \subseteq Nat
    /\ 2 * MaxWait < KeepFor

VARIABLES
    now,
    buckets,    \* limiter.clients: key -> tokens and last
    lastTrim,
    call,       \* each request: path, peer address and forwarded address
    at,         \* each request: its clock reading
    outcome     \* each request: what became of it

vars == <<now, buckets, lastTrim, call, at, outcome>>

Calls == [path : Paths, remote : Addresses, forwarded : Addresses \cup {NoAddress}]
NoCall == [path |-> "none"]

\* rateLimit's key: the path and clientKey.
Keys == Paths \X Addresses

\* lastTrim is the zero time until the first request.
Never == -(TrimEvery + MaxWait + 1)

TypeOK ==
    /\ now \in Nat
    /\ DOMAIN buckets \subseteq Keys
    /\ \A k \in DOMAIN buckets :
          buckets[k].last \in Nat /\ buckets[k].tokens \in Int /\ buckets[k].tokens <= Burst
    /\ lastTrim \in Nat \cup {Never}
    /\ call \in [Requests -> Calls \cup {NoCall}]
    /\ at \in [Requests -> Nat]
    /\ outcome \in [Requests -> {"none", "arrived", "allowed", "refused"}]

Init ==
    /\ now = 0
    /\ buckets = [k \in {} |-> 0]
    /\ lastTrim = Never
    /\ call = [r \in Requests |-> NoCall]
    /\ at = [r \in Requests |-> 0]
    /\ outcome = [r \in Requests |-> "none"]

\* The mutex is held for a moment only: nobody waits for it longer than MaxWait.
Tick ==
    /\ now < MaxTime
    /\ \A r \in Requests : outcome[r] = "arrived" => now - at[r] < MaxWait
    /\ now' = now + 1
    /\ UNCHANGED <<buckets, lastTrim, call, at, outcome>>

Arrive(r, c) ==
    /\ outcome[r] = "none"
    /\ outcome' = [outcome EXCEPT ![r] = "arrived"]
    /\ call' = [call EXCEPT ![r] = c]
    /\ at' = [at EXCEPT ![r] = now]
    /\ UNCHANGED <<now, buckets, lastTrim>>

\* Fault: the header counts whoever sends it.
ClientKey_AnyProxy(c) == IF c.forwarded # NoAddress THEN c.forwarded ELSE c.remote

\* Fault: a trusted proxy is taken to have named the client.
ClientKey_NoFallback(c) == IF c.remote \in Trusted THEN c.forwarded ELSE c.remote

ClientKey(c) ==
    IF c.remote \in Trusted /\ c.forwarded # NoAddress THEN c.forwarded ELSE c.remote

\* Every TrimEvery the buckets that nobody used for KeepFor are dropped.
TrimDue(t) == t - lastTrim > TrimEvery

\* Fault: a bucket is dropped at the first trim that finds it unused since the last one.
Kept_TrimEvery(t) ==
    IF TrimDue(t) THEN {k \in DOMAIN buckets : t - buckets[k].last <= TrimEvery}
    ELSE DOMAIN buckets

Kept(t) ==
    IF TrimDue(t) THEN {k \in DOMAIN buckets : t - buckets[k].last <= KeepFor}
    ELSE DOMAIN buckets

\* What the bucket holds at reading t; less than before if t is an old reading.
Refilled(b, t) ==
    LET n == b.tokens + (t - b.last) * Rate IN IF n < Burst THEN n ELSE Burst

\* Fault: a refusal moves the bucket's time on but keeps its old balance.
Refused_LosesRefill(b, t) == [tokens |-> b.tokens, last |-> t]

\* The bucket after a refusal.
Refused(b, t) == [tokens |-> Refilled(b, t), last |-> t]

Full(t) == [tokens |-> Burst, last |-> t]

Allow(r) ==
    LET t == at[r]
        k == <<call[r].path, ClientKey(call[r])>>
        b == IF k \in Kept(t) THEN buckets[k] ELSE Full(t)
        n == Refilled(b, t)
    IN  /\ outcome[r] = "arrived"
        /\ lastTrim' = IF TrimDue(t) THEN t ELSE lastTrim
        /\ outcome' = [outcome EXCEPT ![r] = IF n < Cost THEN "refused" ELSE "allowed"]
        /\ buckets' = [j \in Kept(t) \cup {k} |->
                         IF j # k THEN buckets[j]
                         ELSE IF n < Cost THEN Refused(b, t) ELSE [tokens |-> n - Cost, last |-> t]]
        /\ UNCHANGED <<now, call, at>>

Next ==
    \/ Tick
    \/ \E r \in Requests : (\E c \in Calls : Arrive(r, c)) \/ Allow(r)

Spec == Init /\ [][Next]_vars

-----------------------------------------------------------------------------
(***************************************************************************)
(* Properties.                                                             *)
(***************************************************************************)
Allowed(path, a) ==
    {r \in Requests : outcome[r] = "allowed" /\ call[r].path = path /\ call[r].remote = a}

\* Nothing makes the configured rate refill a burst in the time a dropped bucket had
\* at least gone unused, Idle: a bucket may be full up to Early before its time.
Idle == KeepFor - 2 * MaxWait
Early == IF Rate * Idle < Burst THEN Burst - Rate * Idle ELSE 0

\* Whatever a peer that is no trusted proxy writes in its headers, in whatever order
\* its requests reach the mutex, and however slow the configured rate, those that read
\* the clock within any window get no more than a burst, what the window refills, and
\* what one drop of the bucket gives back for each Idle of the window (allow, clientKey).
WindowBound ==
    \A path \in Paths, a \in Addresses \ Trusted : \A from, to \in 0..now :
        LET granted == {r \in Allowed(path, a) : at[r] \in from..to}
        IN  from <= to =>
              Cost * Cardinality(granted)
                <= Burst + Rate * (to - from) + Early * ((to - from) \div Idle)

\* A request is refused only because another one of the same client was let in less
\* than the time of one refill before its reading, or later: being refused again and
\* again does not put off the moment the client is served.
RefusedOnlyWhenSpent ==
    \A r \in Requests : outcome[r] = "refused" =>
        \E g \in Requests :
            /\ outcome[g] = "allowed"
            /\ call[g].path = call[r].path /\ ClientKey(call[g]) = ClientKey(call[r])
            /\ Rate * (at[r] - at[g]) < Cost
=============================================================================
