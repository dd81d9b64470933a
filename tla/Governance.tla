----------------------------- MODULE Governance -----------------------------
(***************************************************************************)
(* The request hook that ingest-api and context-query-api share: who may   *)
(* act for which tenant, and the fixed-window limit on how often.  The     *)
(* hook has no await, so a request goes through it in one step; what       *)
(* interleaves is the requests of all clients and the clock.  The buckets  *)
(* are those of one process, which keeps them in memory until it ends.     *)
(*                                                                         *)
(* Time is relative: a bucket stores the ticks left until its resetAt, and *)
(* a bucket that does not exist behaves as one whose window is over.       *)
(***************************************************************************)
EXTENDS Integers, Sequences, Functions

CONSTANTS Secret,      \* bearer tokens and API keys clients send
          TokenId,     \* values of token_id
          Tenant,      \* tenant identifiers
          Route,       \* route paths
          Exempt,      \* exemptPaths
          AuthTokens,  \* the configured tokens, in order
          Requests,    \* the requests clients make
          None,        \* a header that is absent
          Malformed,   \* a header that is not a UUID
          Window,      \* rateLimitWindowMs, in ticks
          Second,      \* ticks per second
          MaxRequests  \* rateLimitMaxRequests

Token == [secret : Secret, id : TokenId, tenants : SUBSET Tenant]
Request == [secret : Secret \cup {None}, tenant : Tenant \cup {None, Malformed},
            actor : {None, Malformed, "actor"}, route : Route]

ASSUME NullAssumption == None \notin Secret \cup Tenant /\ Malformed \notin Tenant
ASSUME RequestAssumption == Requests \subseteq Request /\ Exempt \subseteq Route
ASSUME LimitAssumption ==
    Window \in Nat \ {0} /\ Second \in Nat \ {0} /\ MaxRequests \in Nat \ {0}
\* parseApiAuthTokens does not check that identifiers differ; tokens that
\* share one would share their buckets.
ASSUME TokenAssumption ==
    /\ AuthTokens \in Seq(Token)
    /\ IsInjective([i \in DOMAIN AuthTokens |-> AuthTokens[i].id])

Key == TokenId \X Tenant \X Route
Client == Secret \X Tenant \X Route

\* The histories say for each age how many requests are that old or younger.
Age == 0..(Window - 1)
Bucket == [count : 0..(MaxRequests + 1), left : 0..Window]

VARIABLES buckets, \* the rate-limit bucket of each key
          told,    \* ticks until the moment named by the last retry-after of each key
          answer,  \* the last request of this tick and its status, if any
          asked,   \* authorised requests per secret, tenant and route (history)
          passed   \* requests the limiter let pass, per key (history)

vars == <<buckets, told, answer, asked, passed>>

\* 200 stands for whatever the route handler answers.
Answer == [request : Requests, status : {200, 400, 401, 403, 429}] \cup {None}

TypeOK ==
    /\ buckets \in [Key -> Bucket]
    /\ told \in [Key -> 0..(Window + Second)]
    /\ answer \in Answer
    /\ asked \in [Client -> [Age -> 0..(MaxRequests + 1)]]
    /\ passed \in [Key -> [Age -> Nat]]

Init ==
    /\ buckets = [k \in Key |-> [count |-> 0, left |-> 0]]
    /\ told = [k \in Key |-> 0]
    /\ answer = None
    /\ asked = [k \in Client |-> [a \in Age |-> 0]]
    /\ passed = [k \in Key |-> [a \in Age |-> 0]]
-----------------------------------------------------------------------------
(* Authorisation. *)

Matching(q) == {i \in DOMAIN AuthTokens : AuthTokens[i].secret = q.secret}
Authenticated(q) == q.secret # None /\ Matching(q) # {}

\* authTokens.find: the first token with the secret of the request.
Principal(q) == AuthTokens[CHOOSE i \in Matching(q) : \A j \in Matching(q) : i <= j]

Allowed(q) == Authenticated(q) /\ q.tenant \in Principal(q).tenants

\* The hook raises before the limiter has seen the request.
Refuse(q, status) ==
    /\ q.route \notin Exempt
    /\ answer' = [request |-> q, status |-> status]
    /\ UNCHANGED <<buckets, told, asked, passed>>

RefuseCredentials(q) == ~Authenticated(q) /\ Refuse(q, 401)

\* Bug: a tenant header that is no UUID is an internal error.
Bug_RefuseTenantHeader(q) ==
    Authenticated(q) /\ q.tenant \notin Tenant /\ Refuse(q, 500)

RefuseTenantHeader(q) == Authenticated(q) /\ q.tenant \notin Tenant /\ Refuse(q, 400)
RefuseTenant(q) ==
    Authenticated(q) /\ q.tenant \in Tenant /\ ~Allowed(q) /\ Refuse(q, 403)

\* Health and metrics are answered without any of this.
AnswerExempt(q) ==
    /\ q.route \in Exempt
    /\ answer' = [request |-> q, status |-> 200]
    /\ UNCHANGED <<buckets, told, asked, passed>>
-----------------------------------------------------------------------------
(* The fixed-window limiter. *)

\* Bug: all tokens share the quota of a tenant.
Bug_KeyOf(q) == <<AuthTokens[1].id, q.tenant, q.route>>

KeyOf(q) == <<Principal(q).id, q.tenant, q.route>>

\* Only whether a count exceeds the limit matters, so it stops one above.
Bump(n) == IF n > MaxRequests THEN n ELSE n + 1

ClientOf(q) == <<q.secret, q.tenant, q.route>>

Ask(q) ==
    /\ q.route \notin Exempt /\ Allowed(q)
    /\ asked' = [asked EXCEPT ![ClientOf(q)] = [a \in Age |-> Bump(@[a])]]

\* The limiter lets the request pass; a malformed actor is refused after it.
Pass(q) ==
    /\ passed' = [passed EXCEPT ![KeyOf(q)] = [a \in Age |-> @[a] + 1]]
    /\ answer' = [request |-> q, status |-> IF q.actor = Malformed THEN 400 ELSE 200]

\* resetAt <= now: the request opens a new window.
OpenWindow(q) ==
    /\ Ask(q) /\ buckets[KeyOf(q)].left = 0
    /\ buckets' = [buckets EXCEPT ![KeyOf(q)] = [count |-> 1, left |-> Window]]
    /\ told' = [told EXCEPT ![KeyOf(q)] = 0]
    /\ Pass(q)

\* Bug: the count is compared before it is incremented.
Bug_Exceeded(k) == buckets[k].count > MaxRequests

\* The request, once counted, exceeds the limit.
Exceeded(k) == Bump(buckets[k].count) > MaxRequests

CountRequest(q) ==
    /\ Ask(q) /\ buckets[KeyOf(q)].left > 0 /\ ~Exceeded(KeyOf(q))
    /\ buckets' = [buckets EXCEPT ![KeyOf(q)].count = Bump(@)]
    /\ Pass(q)
    /\ UNCHANGED told

\* Bug: the rest of the window is rounded down.
Bug_RetryAfter(k) == (buckets[k].left \div Second) * Second

\* Math.ceil((resetAt - now) / 1000), in ticks.
RetryAfter(k) == ((buckets[k].left + Second - 1) \div Second) * Second

\* Bug: a request over the limit starts the window again.
Bug_Limit(q) ==
    /\ Ask(q) /\ buckets[KeyOf(q)].left > 0 /\ Exceeded(KeyOf(q))
    /\ buckets' = [buckets EXCEPT ![KeyOf(q)] = [count |-> Bump(@.count), left |-> Window]]
    /\ told' = [told EXCEPT ![KeyOf(q)] = RetryAfter(KeyOf(q))]
    /\ answer' = [request |-> q, status |-> 429]
    /\ UNCHANGED passed

\* Over the limit: the request is counted all the same.
Limit(q) ==
    /\ Ask(q) /\ buckets[KeyOf(q)].left > 0 /\ Exceeded(KeyOf(q))
    /\ buckets' = [buckets EXCEPT ![KeyOf(q)].count = Bump(@)]
    /\ told' = [told EXCEPT ![KeyOf(q)] = RetryAfter(KeyOf(q))]
    /\ answer' = [request |-> q, status |-> 429]
    /\ UNCHANGED passed
-----------------------------------------------------------------------------
Decrement(n) == IF n = 0 THEN 0 ELSE n - 1
Older(history) == [a \in Age |-> IF a = 0 THEN 0 ELSE history[a - 1]]

\* The clock advances.
Tick ==
    /\ buckets' = [k \in Key |-> [buckets[k] EXCEPT !.left = Decrement(@)]]
    /\ told' = [k \in Key |-> Decrement(told[k])]
    /\ answer' = None
    /\ asked' = [k \in Client |-> Older(asked[k])]
    /\ passed' = [k \in Key |-> Older(passed[k])]

Serve(q) ==
    \/ AnswerExempt(q)
    \/ RefuseCredentials(q) \/ RefuseTenantHeader(q) \/ RefuseTenant(q)
    \/ OpenWindow(q) \/ CountRequest(q) \/ Limit(q)

Next == Tick \/ \E q \in Requests : Serve(q)

Spec == Init /\ [][Next]_vars

\* Time goes on.
FairSpec == Spec /\ WF_vars(Tick)
-----------------------------------------------------------------------------
Total(history) == history[Window - 1]

\* What a fixed window guarantees of any interval: at the seam of two windows
\* nearly twice the limit passes within the length of one, but never twice,
\* because the request that opens a window lies before the seam.
BurstBounded == \A k \in Key : Total(passed[k]) < 2 * MaxRequests

\* A client is refused only for its own requests: those of its secret, for
\* that tenant and route, in the last window exceed the limit.  Other clients,
\* tenants and routes, and requests refused before the limiter, use up nothing.
LimitedByOwnRequests ==
    answer # None /\ answer.status = 429 =>
        Total(asked[ClientOf(answer.request)]) > MaxRequests

\* A client that waits as long as retry-after says is not refused by the same
\* window again, and is not sent away a full second longer than it lasts.
RetryAfterSuffices ==
    \A k \in Key : buckets[k].left > 0 /\ buckets[k].count > MaxRequests =>
        buckets[k].left <= told[k] /\ told[k] < buckets[k].left + Second

AskedFor(k) == \E q \in Requests : Ask(q) /\ KeyOf(q) = k
PassedFor(k) == \E q \in Requests : Ask(q) /\ KeyOf(q) = k /\ Pass(q)

\* Nobody is locked out: a key that is asked for again and again, refusals
\* and all, is let pass again and again.
NotLockedOut ==
    \A k \in Key : []<><<AskedFor(k)>>_vars => []<><<PassedFor(k)>>_vars
=============================================================================
