-------------------------- MODULE GovernanceProofs --------------------------
(***************************************************************************)
(* Proofs about Governance, for every list of tokens, every set of         *)
(* requests, and every length of the window and limit.                     *)
(***************************************************************************)
EXTENDS Governance, FiniteSetTheorems, TLAPS

\* How many requests of its open window a bucket has let pass.
Used(k) == IF buckets[k].count > MaxRequests THEN MaxRequests ELSE buckets[k].count

Grows(history) == \A a, b \in Age : a <= b => history[a] <= history[b]

\* A window that is open was opened by the oldest of the requests it has let
\* pass, Window - left ticks ago; what passed before is of a single earlier
\* window, and the request that opened that one is no longer remembered.
BurstInv(k) ==
    /\ Grows(passed[k])
    /\ buckets[k].left = 0 => passed[k][0] = 0 /\ passed[k][Window - 1] < MaxRequests
    /\ buckets[k].left > 0 =>
         /\ buckets[k].count > 0 /\ passed[k][Window - buckets[k].left] = Used(k)
         /\ buckets[k].left < Window => passed[k][Window - buckets[k].left - 1] < Used(k)
         /\ passed[k][Window - 1] < MaxRequests + Used(k)

\* A bucket counts nothing but requests with the secret of its token.
CountedInv(i, t, r) ==
    LET bucket == buckets[<<AuthTokens[i].id, t, r>>]
    IN  bucket.left > 0 => bucket.count <= asked[<<AuthTokens[i].secret, t, r>>][Window - bucket.left]

GovernanceInv ==
    /\ TypeOK /\ RetryAfterSuffices /\ LimitedByOwnRequests
    /\ \A k \in Key : BurstInv(k)
    /\ \A k \in Client : Grows(asked[k])
    /\ \A i \in DOMAIN AuthTokens, t \in Tenant, r \in Route : CountedInv(i, t, r)
-----------------------------------------------------------------------------
(* Least numbers, ceilings and capped counts. *)

LEMMA SmallestSet ==
    ASSUME NEW S, NEW T, T \subseteq FiniteSubsetsOf(S), T # {}
    PROVE  \E x \in T : \A y \in T : ~(y \subseteq x /\ y # x)
<1>1. PICK x \in T : \A y \in T : <<y, x>> \notin StrictSubsetOrdering(S)
  BY FS_StrictSubsetOrderingWellFounded, WFMin
<1>2. \A y \in T : y \in SUBSET S /\ x \in SUBSET S
  BY DEF FiniteSubsetsOf
<1> QED BY <1>1, <1>2 DEF StrictSubsetOrdering

\* A set of natural numbers that is not empty has a least element.
LEMMA LeastNumber ==
    ASSUME NEW N, N \subseteq Nat, N # {}
    PROVE  \E n \in N : \A m \in N : n <= m
<1> DEFINE T == {1..n : n \in N}
<1>1. T \subseteq FiniteSubsetsOf(Nat) /\ T # {}
  <2>1. \A n \in Nat : IsFiniteSet(1..n)
    BY FS_Interval
  <2>2. \A n \in N : 1..n \in FiniteSubsetsOf(Nat)
    BY <2>1 DEF FiniteSubsetsOf
  <2> QED BY <2>2
<1>2. PICK x \in T : \A y \in T : ~(y \subseteq x /\ y # x)
  <2> HIDE DEF T
  <2> QED BY <1>1, SmallestSet
<1>3. PICK n \in N : x = 1..n
  OBVIOUS
<1>4. ASSUME NEW m \in N, m < n PROVE FALSE
  <2>1. (1..m) \subseteq (1..n) /\ n \in 1..n /\ n \notin 1..m
    BY <1>4
  <2> QED BY <1>2, <1>3, <2>1
<1> QED BY <1>4

\* Rounding up to a multiple of s adds less than s.
LEMMA Ceiling ==
    ASSUME NEW n \in Nat, NEW s \in Nat \ {0}
    PROVE  LET m == ((n + s - 1) \div s) * s IN m \in Nat /\ n <= m /\ m < n + s
<1> DEFINE x == n + s - 1
<1>1. x \in Nat
  OBVIOUS
<1> HIDE DEF x
<1>2. x = s * (x \div s) + (x % s) /\ x % s \in 0..(s - 1) /\ x \div s \in Int
  BY <1>1
<1> QED BY <1>1, <1>2 DEF x

LEMMA RetryAfterType ==
    ASSUME TypeOK, NEW k \in Key
    PROVE  /\ RetryAfter(k) \in Nat /\ buckets[k].left <= RetryAfter(k)
           /\ RetryAfter(k) < buckets[k].left + Second
<1>1. buckets[k].left \in Nat /\ Second \in Nat \ {0}
  BY LimitAssumption DEF TypeOK, Bucket
<1> QED BY <1>1, Ceiling DEF RetryAfter

LEMMA BumpType ==
    ASSUME NEW n \in 0..(MaxRequests + 1)
    PROVE  /\ Bump(n) \in 0..(MaxRequests + 1) /\ n <= Bump(n)
           /\ Bump(n) = IF n = MaxRequests + 1 THEN n ELSE n + 1
BY LimitAssumption DEF Bump

LEMMA AgeType ==
    /\ Window \in Nat \ {0} /\ Second \in Nat \ {0} /\ MaxRequests \in Nat \ {0}
    /\ Age \subseteq Nat /\ 0 \in Age /\ Window - 1 \in Age
    /\ \A a \in Age : a <= Window - 1
BY LimitAssumption DEF Age

LEMMA YoungerAge ==
    ASSUME NEW a \in Age, a > 0
    PROVE  a - 1 \in Age
BY LimitAssumption DEF Age

LEMMA OlderFunction ==
    ASSUME NEW S, 0 \in S, NEW h \in [Age -> S]
    PROVE  Older(h) \in [Age -> S]
<1>1. ASSUME NEW a \in Age PROVE (IF a = 0 THEN 0 ELSE h[a - 1]) \in S
  <2>1. CASE a = 0
    BY <2>1
  <2>2. CASE a # 0
    <3>1. a > 0
      BY <2>2, AgeType
    <3>2. a - 1 \in Age
      BY <3>1, YoungerAge
    <3> QED BY <2>2, <3>2
  <2> QED BY <2>1, <2>2
<1> QED BY <1>1 DEF Older

\* What a history says of today becomes what it says of yesterday.
LEMMA OlderType ==
    ASSUME NEW h, \A a \in Age : h[a] \in Nat, Grows(h)
    PROVE  /\ Grows(Older(h)) /\ Older(h)[0] = 0
           /\ \A a \in Age : a > 0 => Older(h)[a] = h[a - 1]
           /\ Older(h)[Window - 1] <= h[Window - 1]
<1>1. 0 \in Age /\ Window - 1 \in Age /\ Age \subseteq Nat
  BY AgeType
<1>3. \A a \in Age : Older(h)[a] = IF a = 0 THEN 0 ELSE h[a - 1]
  BY DEF Older
<1>4. Grows(Older(h))
  <2> SUFFICES ASSUME NEW a \in Age, NEW b \in Age, a <= b PROVE Older(h)[a] <= Older(h)[b]
    BY DEF Grows
  <2>1. CASE a = 0
    <3>1. b = 0 \/ h[b - 1] \in Nat
      BY YoungerAge, <1>1
    <3> QED BY <1>3, <2>1, <3>1
  <2>2. CASE a > 0
    <3>1. b > 0 /\ a - 1 <= b - 1
      BY <1>1, <2>2
    <3>2. a - 1 \in Age /\ b - 1 \in Age
      BY <2>2, <3>1, YoungerAge
    <3>3. Older(h)[a] = h[a - 1] /\ Older(h)[b] = h[b - 1]
      BY <1>3, <2>2, <3>1
    <3> QED BY <3>1, <3>2, <3>3 DEF Grows
  <2> QED BY <1>1, <2>1, <2>2
<1>5. Older(h)[Window - 1] <= h[Window - 1]
  <2>1. CASE Window - 1 = 0
    BY <1>1, <1>3, <2>1
  <2>2. CASE Window - 1 > 0
    <3> DEFINE d == Window - 1
    <3>1. d \in Age /\ d \in Nat /\ d > 0
      BY <1>1, <2>2
    <3> HIDE DEF d
    <3>2. d - 1 \in Age /\ d - 1 <= d
      BY <3>1, YoungerAge
    <3>3. Older(h)[d] = h[d - 1]
      BY <1>3, <3>1
    <3>4. h[d - 1] <= h[d]
      BY <3>1, <3>2 DEF Grows
    <3> QED BY <3>3, <3>4 DEF d
  <2>3. Window - 1 = 0 \/ Window - 1 > 0
    BY AgeType
  <2> QED BY <2>1, <2>2, <2>3
<1> QED BY <1>1, <1>3, <1>4, <1>5
-----------------------------------------------------------------------------
(* Tokens, keys and clients. *)

\* A request that is let in has the secret of its principal.
LEMMA PrincipalType ==
    ASSUME NEW q \in Requests, Allowed(q)
    PROVE  /\ \E i \in DOMAIN AuthTokens : Principal(q) = AuthTokens[i]
           /\ Principal(q) \in Token /\ Principal(q).secret = q.secret
<1>1. Matching(q) # {} /\ Matching(q) \subseteq DOMAIN AuthTokens
  BY DEF Allowed, Authenticated, Matching
<1>2. AuthTokens \in Seq(Token) /\ DOMAIN AuthTokens \subseteq Nat
  BY TokenAssumption
<1>3. \E i \in Matching(q) : \A j \in Matching(q) : i <= j
  BY <1>1, <1>2, LeastNumber
<1>4. PICK i \in Matching(q) : Principal(q) = AuthTokens[i]
  BY <1>3 DEF Principal
<1> QED BY <1>1, <1>2, <1>4 DEF Matching

LEMMA KeyType ==
    ASSUME NEW q \in Requests, Allowed(q)
    PROVE  KeyOf(q) \in Key /\ ClientOf(q) \in Client
<1>1. Principal(q).id \in TokenId /\ Principal(q).tenants \subseteq Tenant
      /\ Principal(q).secret \in Secret
  BY PrincipalType DEF Token
<1>2. q.tenant \in Tenant /\ q.route \in Route /\ q.secret \in Secret
  BY <1>1, PrincipalType, RequestAssumption DEF Allowed, Request
<1> QED BY <1>1, <1>2 DEF KeyOf, ClientOf, Key, Client

\* Tokens have identifiers of their own, so a key tells whose requests it counts.
LEMMA KeyTellsClient ==
    ASSUME NEW q \in Requests, Allowed(q), NEW i \in DOMAIN AuthTokens, NEW t, NEW r,
           KeyOf(q) = <<AuthTokens[i].id, t, r>>
    PROVE  ClientOf(q) = <<AuthTokens[i].secret, t, r>>
<1>1. PICK j \in DOMAIN AuthTokens : Principal(q) = AuthTokens[j]
  BY PrincipalType
<1>2. AuthTokens[j].id = AuthTokens[i].id /\ q.tenant = t /\ q.route = r
  BY <1>1 DEF KeyOf
<1>3. i = j
  BY <1>2, TokenAssumption DEF IsInjective
<1> QED BY <1>1, <1>2, <1>3, PrincipalType DEF ClientOf
-----------------------------------------------------------------------------
(* The steps. *)

\* A request that the limiter counts.
Counted(q) == OpenWindow(q) \/ CountRequest(q) \/ Limit(q)

LEMMA EqualBuckets ==
    ASSUME buckets \in [Key -> Bucket], NEW k \in Key, NEW n
    PROVE  [buckets EXCEPT ![k].count = n]
               = [buckets EXCEPT ![k] = [count |-> n, left |-> buckets[k].left]]
<1>1. buckets[k] \in [count : 0..(MaxRequests + 1), left : 0..Window]
  BY DEF Bucket
<1>2. [buckets[k] EXCEPT !.count = n] = [count |-> n, left |-> buckets[k].left]
  BY <1>1
<1> QED BY <1>2

LEMMA CountedStep ==
    ASSUME TypeOK, NEW q \in Requests, Counted(q), NEW k, k = KeyOf(q), NEW x, x = ClientOf(q)
    PROVE  /\ Allowed(q) /\ k \in Key /\ x \in Client
           /\ \A a \in Age : asked'[x][a] = Bump(asked[x][a])
           /\ \A y \in Client \ {x} : asked'[y] = asked[y]
           /\ \A l \in Key \ {k} : /\ buckets'[l] = buckets[l]
                                   /\ told'[l] = told[l] /\ passed'[l] = passed[l]
           /\ buckets[k].count \in 0..(MaxRequests + 1) /\ buckets[k].left \in 0..Window
           /\ \/ /\ buckets[k].left = 0
                 /\ buckets'[k] = [count |-> 1, left |-> Window] /\ told'[k] = 0
                 /\ \A a \in Age : passed'[k][a] = passed[k][a] + 1
                 /\ answer'.status # 429
              \/ /\ buckets[k].left > 0 /\ buckets[k].count < MaxRequests
                 /\ buckets'[k].count = buckets[k].count + 1
                 /\ buckets'[k].left = buckets[k].left /\ told'[k] = told[k]
                 /\ \A a \in Age : passed'[k][a] = passed[k][a] + 1
                 /\ answer'.status # 429
              \/ /\ buckets[k].left > 0 /\ buckets[k].count >= MaxRequests
                 /\ buckets'[k].count = MaxRequests + 1 /\ buckets'[k].left = buckets[k].left
                 /\ told'[k] = RetryAfter(k) /\ passed'[k] = passed[k]
                 /\ answer' = [request |-> q, status |-> 429]
           /\ TypeOK'
<1>1. Allowed(q) /\ k \in Key /\ x \in Client
  BY KeyType DEF Counted, OpenWindow, CountRequest, Limit, Ask
<1>2. /\ asked \in [Client -> [Age -> 0..(MaxRequests + 1)]]
      /\ asked' = [asked EXCEPT ![x] = [a \in Age |-> Bump(asked[x][a])]]
  BY <1>1 DEF TypeOK, Counted, OpenWindow, CountRequest, Limit, Ask
<1>3. /\ asked' \in [Client -> [Age -> 0..(MaxRequests + 1)]]
      /\ \A a \in Age : asked'[x][a] = Bump(asked[x][a])
      /\ \A y \in Client \ {x} : asked'[y] = asked[y]
  <2>1. \A a \in Age : Bump(asked[x][a]) \in 0..(MaxRequests + 1)
    BY <1>1, <1>2, BumpType
  <2> QED BY <1>1, <1>2, <2>1
<1>4. /\ buckets \in [Key -> Bucket] /\ told \in [Key -> 0..(Window + Second)]
      /\ passed \in [Key -> [Age -> Nat]]
      /\ buckets[k].count \in 0..(MaxRequests + 1) /\ buckets[k].left \in 0..Window
  BY <1>1 DEF TypeOK, Bucket
<1>5. Window \in Nat \ {0} /\ Second \in Nat \ {0} /\ MaxRequests \in Nat \ {0}
  BY LimitAssumption
<1>6. Pass(q) => /\ passed' = [passed EXCEPT ![k] = [a \in Age |-> passed[k][a] + 1]]
                 /\ answer' \in Answer /\ answer'.status # 429
  BY <1>1, <1>4 DEF Pass, Answer
<1>7. CASE OpenWindow(q)
  <2>1. /\ buckets[k].left = 0 /\ Pass(q)
        /\ buckets' = [buckets EXCEPT ![k] = [count |-> 1, left |-> Window]]
        /\ told' = [told EXCEPT ![k] = 0]
    BY <1>7 DEF OpenWindow
  <2>2. [count |-> 1, left |-> Window] \in Bucket
    BY <1>5 DEF Bucket
  <2>3. /\ buckets' \in [Key -> Bucket] /\ told' \in [Key -> 0..(Window + Second)]
        /\ passed' \in [Key -> [Age -> Nat]]
    <3>1. 0 \in 0..(Window + Second) /\ [a \in Age |-> passed[k][a] + 1] \in [Age -> Nat]
      BY <1>1, <1>4, <1>5
    <3>2. passed' = [passed EXCEPT ![k] = [a \in Age |-> passed[k][a] + 1]]
      BY <1>6, <2>1
    <3> QED BY <1>1, <1>4, <2>1, <2>2, <3>1, <3>2
  <2>4. TypeOK'
    BY <1>3, <1>6, <2>1, <2>3 DEF TypeOK
  <2>5. /\ buckets'[k] = [count |-> 1, left |-> Window] /\ told'[k] = 0
        /\ \A a \in Age : passed'[k][a] = passed[k][a] + 1
        /\ \A l \in Key \ {k} : /\ buckets'[l] = buckets[l]
                                /\ told'[l] = told[l] /\ passed'[l] = passed[l]
    BY <1>1, <1>4, <1>6, <2>1
  <2> QED BY <1>1, <1>3, <1>4, <1>6, <2>1, <2>4, <2>5
<1>8. CASE CountRequest(q)
  <2>1. /\ buckets[k].left > 0 /\ ~Exceeded(k) /\ Pass(q) /\ told' = told
        /\ buckets' = [buckets EXCEPT ![k].count = Bump(buckets[k].count)]
    BY <1>8 DEF CountRequest
  <2>2. buckets[k].count < MaxRequests /\ Bump(buckets[k].count) = buckets[k].count + 1
    BY <1>4, <1>5, <2>1, BumpType DEF Exceeded
  <2>3. [count |-> Bump(buckets[k].count), left |-> buckets[k].left] \in Bucket
    BY <1>4, BumpType DEF Bucket
  <2>4. buckets' = [buckets EXCEPT ![k] = [count |-> Bump(buckets[k].count),
                                           left |-> buckets[k].left]]
    BY <2>1, EqualBuckets, <1>1, <1>4
  <2>5. buckets' \in [Key -> Bucket] /\ passed' \in [Key -> [Age -> Nat]]
    <3>1. [a \in Age |-> passed[k][a] + 1] \in [Age -> Nat]
      BY <1>1, <1>4
    <3>2. passed' = [passed EXCEPT ![k] = [a \in Age |-> passed[k][a] + 1]]
      BY <1>6, <2>1
    <3> QED BY <1>1, <1>4, <2>3, <2>4, <3>1, <3>2
  <2>6. TypeOK'
    BY <1>3, <1>4, <1>6, <2>1, <2>5 DEF TypeOK
  <2>7. /\ buckets'[k].count = buckets[k].count + 1 /\ buckets'[k].left = buckets[k].left
        /\ \A a \in Age : passed'[k][a] = passed[k][a] + 1
        /\ \A l \in Key \ {k} : buckets'[l] = buckets[l] /\ passed'[l] = passed[l]
    BY <1>1, <1>4, <1>6, <2>1, <2>2, <2>4
  <2> QED BY <1>1, <1>3, <1>4, <1>6, <2>1, <2>2, <2>6, <2>7
<1>9. CASE Limit(q)
  <2>1. /\ buckets[k].left > 0 /\ Exceeded(k) /\ passed' = passed
        /\ buckets' = [buckets EXCEPT ![k].count = Bump(buckets[k].count)]
        /\ told' = [told EXCEPT ![k] = RetryAfter(k)]
        /\ answer' = [request |-> q, status |-> 429]
    BY <1>9 DEF Limit
  <2>2. buckets[k].count >= MaxRequests /\ Bump(buckets[k].count) = MaxRequests + 1
    <3>1. Bump(buckets[k].count) > MaxRequests /\ buckets[k].count \in 0..(MaxRequests + 1)
      BY <1>4, <2>1 DEF Exceeded
    <3> QED BY <1>5, <3>1 DEF Bump
  <2>3. [count |-> Bump(buckets[k].count), left |-> buckets[k].left] \in Bucket
    BY <1>4, BumpType DEF Bucket
  <2>4. RetryAfter(k) \in 0..(Window + Second)
    BY <1>1, <1>4, <1>5, RetryAfterType
  <2>5. buckets' = [buckets EXCEPT ![k] = [count |-> Bump(buckets[k].count),
                                           left |-> buckets[k].left]]
    BY <2>1, EqualBuckets, <1>1, <1>4
  <2>6. buckets' \in [Key -> Bucket] /\ told' \in [Key -> 0..(Window + Second)] /\ answer' \in Answer
    <3>1. buckets' \in [Key -> Bucket]
      BY <1>1, <1>4, <2>3, <2>5
    <3>2. told' \in [Key -> 0..(Window + Second)]
      BY <1>1, <1>4, <2>1, <2>4
    <3>3. answer' \in Answer
      BY <2>1 DEF Answer
    <3> QED BY <3>1, <3>2, <3>3
  <2>7. TypeOK'
    BY <1>3, <1>4, <2>1, <2>6 DEF TypeOK
  <2>8. /\ buckets'[k].count = MaxRequests + 1 /\ buckets'[k].left = buckets[k].left
        /\ told'[k] = RetryAfter(k)
        /\ \A l \in Key \ {k} : buckets'[l] = buckets[l] /\ told'[l] = told[l]
    BY <1>1, <1>4, <2>1, <2>2, <2>5
  <2> QED BY <1>1, <1>3, <1>4, <2>1, <2>2, <2>7, <2>8
<1> QED BY <1>7, <1>8, <1>9 DEF Counted

LEMMA CountedInvStep ==
    ASSUME GovernanceInv, NEW q \in Requests, Counted(q)
    PROVE  GovernanceInv'
<1>1. PICK k, x : k = KeyOf(q) /\ x = ClientOf(q)
  OBVIOUS
<1>2. TypeOK
  BY DEF GovernanceInv
<1>3. /\ Allowed(q) /\ k \in Key /\ x \in Client
      /\ \A a \in Age : asked'[x][a] = Bump(asked[x][a])
      /\ \A y \in Client \ {x} : asked'[y] = asked[y]
      /\ \A l \in Key \ {k} : /\ buckets'[l] = buckets[l]
                              /\ told'[l] = told[l] /\ passed'[l] = passed[l]
      /\ TypeOK'
  BY <1>1, <1>2, CountedStep
<1>4. /\ buckets[k].count \in 0..(MaxRequests + 1) /\ buckets[k].left \in 0..Window
      /\ \/ /\ buckets[k].left = 0
            /\ buckets'[k] = [count |-> 1, left |-> Window] /\ told'[k] = 0
            /\ \A a \in Age : passed'[k][a] = passed[k][a] + 1
            /\ answer'.status # 429
         \/ /\ buckets[k].left > 0 /\ buckets[k].count < MaxRequests
            /\ buckets'[k].count = buckets[k].count + 1
            /\ buckets'[k].left = buckets[k].left /\ told'[k] = told[k]
            /\ \A a \in Age : passed'[k][a] = passed[k][a] + 1
            /\ answer'.status # 429
         \/ /\ buckets[k].left > 0 /\ buckets[k].count >= MaxRequests
            /\ buckets'[k].count = MaxRequests + 1 /\ buckets'[k].left = buckets[k].left
            /\ told'[k] = RetryAfter(k) /\ passed'[k] = passed[k]
            /\ answer' = [request |-> q, status |-> 429]
  BY <1>1, <1>2, CountedStep
<1>5. Window \in Nat \ {0} /\ Second \in Nat \ {0} /\ MaxRequests \in Nat \ {0}
  BY LimitAssumption
<1>6. Age \subseteq Nat /\ Window - 1 \in Age /\ 0 \in Age
  BY <1>5 DEF Age
<1>7. \A y \in Client, a \in Age : asked[y][a] \in 0..(MaxRequests + 1)
  BY <1>2 DEF TypeOK
<1>8. \A a \in Age : passed[k][a] \in Nat
  BY <1>2, <1>3 DEF TypeOK
<1>9. RetryAfterSuffices'
  <2>1. /\ RetryAfter(k) \in Nat /\ buckets[k].left <= RetryAfter(k)
        /\ RetryAfter(k) < buckets[k].left + Second
    BY <1>2, <1>3, RetryAfterType
  <2>2. ASSUME buckets'[k].left > 0, buckets'[k].count > MaxRequests
        PROVE  buckets'[k].left <= told'[k] /\ told'[k] < buckets'[k].left + Second
    <3>1. told'[k] = RetryAfter(k) /\ buckets'[k].left = buckets[k].left
      BY <1>4, <1>5, <2>2
    <3> QED BY <2>1, <3>1
  <2> QED BY <1>3, <2>2 DEF GovernanceInv, RetryAfterSuffices
<1>10. \A y \in Client : Grows(asked[y])'
  <2>1. ASSUME NEW a \in Age, NEW b \in Age, a <= b PROVE asked'[x][a] <= asked'[x][b]
    <3>1. asked[x][a] <= asked[x][b] /\ asked[x][a] \in 0..(MaxRequests + 1)
          /\ asked[x][b] \in 0..(MaxRequests + 1)
      BY <1>3, <1>7, <2>1 DEF GovernanceInv, Grows
    <3> QED BY <1>3, <1>5, <3>1, BumpType
  <2> QED BY <1>3, <2>1 DEF GovernanceInv, Grows
<1>11. ASSUME NEW i \in DOMAIN AuthTokens, NEW t \in Tenant, NEW r \in Route
       PROVE  CountedInv(i, t, r)'
  <2> DEFINE l == <<AuthTokens[i].id, t, r>>
             y == <<AuthTokens[i].secret, t, r>>
  <2>1. l \in Key /\ y \in Client
    <3>1. AuthTokens[i] \in Token
      BY TokenAssumption
    <3> QED BY <3>1 DEF Token, Key, Client
  <2>2. buckets[l].left > 0 => buckets[l].count <= asked[y][Window - buckets[l].left]
    BY DEF GovernanceInv, CountedInv
  <2>3. l = k => y = x
    BY <1>1, <1>3, KeyTellsClient
  <2>4. buckets[l].left \in 0..Window /\ buckets[l].count \in 0..(MaxRequests + 1)
    BY <1>2, <2>1 DEF TypeOK, Bucket
  <2> HIDE DEF l, y
  <2>5. buckets[l].left > 0 => Window - buckets[l].left \in Age
    BY <1>5, <2>4 DEF Age
  <2>6. CASE l # k
    <3>1. buckets'[l] = buckets[l]
      BY <1>3, <2>1, <2>6
    <3>2. \A a \in Age : asked[y][a] <= asked'[y][a]
      BY <1>3, <1>7, <2>1, BumpType
    <3>3. buckets[l].left > 0 => buckets'[l].count <= asked'[y][Window - buckets'[l].left]
      <4>1. \A a \in Age : asked'[y][a] \in 0..(MaxRequests + 1)
        BY <1>3, <2>1 DEF TypeOK
      <4> QED BY <1>7, <2>1, <2>2, <2>4, <2>5, <3>1, <3>2, <4>1
    <3> QED BY <3>1, <3>3 DEF CountedInv, l, y
  <2>7. CASE l = k /\ buckets[k].left = 0
    <3>1. buckets'[k].count = 1 /\ buckets'[k].left = Window /\ asked'[x][0] = Bump(asked[x][0])
      BY <1>3, <1>4, <1>6, <2>7
    <3>2. Bump(asked[x][0]) >= 1
      BY <1>3, <1>5, <1>6, <1>7, BumpType
    <3>3. buckets'[l].count <= asked'[y][Window - buckets'[l].left]
      BY <1>5, <2>3, <2>7, <3>1, <3>2
    <3> QED BY <3>3 DEF CountedInv, l, y
  <2>8. CASE l = k /\ buckets[k].left > 0
    <3> DEFINE a == Window - buckets[k].left
    <3>1. a \in Age /\ buckets[k].count <= asked[x][a] /\ asked[x][a] \in 0..(MaxRequests + 1)
      BY <1>3, <1>7, <2>2, <2>3, <2>5, <2>8
    <3>2. buckets'[k].left = buckets[k].left /\ buckets'[k].count = Bump(buckets[k].count)
      BY <1>4, <1>5, <2>8, BumpType
    <3>3. Bump(buckets[k].count) <= Bump(asked[x][a])
      BY <1>4, <1>5, <3>1, BumpType
    <3>4. buckets'[l].count <= asked'[y][Window - buckets'[l].left]
      BY <1>3, <2>3, <2>8, <3>1, <3>2, <3>3
    <3> QED BY <3>4 DEF CountedInv, l, y
  <2> QED BY <1>4, <2>6, <2>7, <2>8
<1>12. LimitedByOwnRequests'
  <2> SUFFICES ASSUME answer'.status = 429
               PROVE  Total(asked[ClientOf(answer.request)])' > MaxRequests
    BY DEF LimitedByOwnRequests
  <2>1. /\ answer'.request = q /\ buckets'[k].count = MaxRequests + 1
        /\ buckets'[k].left = buckets[k].left /\ buckets[k].left > 0
    BY <1>4
  <2>2. PICK i \in DOMAIN AuthTokens : Principal(q) = AuthTokens[i]
    BY <1>3, PrincipalType
  <2>3. q.tenant \in Tenant /\ q.route \in Route
    BY <1>1, <1>3 DEF KeyOf, Key
  <2>4. k = <<AuthTokens[i].id, q.tenant, q.route>> /\ x = <<AuthTokens[i].secret, q.tenant, q.route>>
    BY <1>1, <1>3, <2>2, PrincipalType DEF KeyOf, ClientOf
  <2>5. buckets'[k].count <= asked'[x][Window - buckets'[k].left]
    BY <1>11, <2>1, <2>3, <2>4 DEF CountedInv
  <2>6. PICK a \in Age : a = Window - buckets'[k].left /\ a <= Window - 1
    BY <1>4, <1>5, <2>1 DEF Age
  <2>7. PICK d \in Age : d = Window - 1
    BY <1>6
  <2>8. asked'[x][a] <= asked'[x][d]
    BY <1>3, <1>10, <2>6, <2>7 DEF Grows
  <2>9. asked'[x][a] \in Nat /\ asked'[x][d] \in Nat
    BY <1>3, <1>5 DEF TypeOK
  <2>10. MaxRequests + 1 <= asked'[x][a]
    BY <2>1, <2>5, <2>6
  <2>11. asked'[x][d] > MaxRequests
    BY <1>5, <2>8, <2>9, <2>10
  <2> QED BY <1>1, <2>1, <2>7, <2>11 DEF Total, ClientOf
<1>13. ASSUME NEW l \in Key PROVE BurstInv(l)'
  <2>1. BurstInv(l)
    BY DEF GovernanceInv
  <2>2. CASE l # k
    <3>1. buckets'[l] = buckets[l] /\ passed'[l] = passed[l]
      BY <1>3, <2>2
    <3> QED BY <2>1, <3>1 DEF BurstInv, Grows, Used
  <2>3. CASE l = k /\ buckets[k].left = 0
    <3>1. /\ buckets'[k].left = Window /\ buckets'[k].count = 1
          /\ \A a \in Age : passed'[k][a] = passed[k][a] + 1
      BY <1>4, <2>3
    <3>2. passed[k][0] = 0 /\ passed[k][Window - 1] < MaxRequests /\ Grows(passed[k])
      BY <2>1, <2>3 DEF BurstInv
    <3>3. Grows(passed[k])'
      BY <1>8, <3>1, <3>2 DEF Grows
    <3>4. /\ passed'[k][Window - Window] = 1 /\ passed'[k][Window - 1] < MaxRequests + 1
          /\ Used(k)' = 1
      BY <1>5, <1>6, <1>8, <3>1, <3>2 DEF Used
    <3> QED BY <1>5, <2>3, <3>1, <3>3, <3>4 DEF BurstInv
  <2>4. CASE l = k /\ buckets[k].left > 0
    <3>1. /\ Window - buckets[k].left \in Age
          /\ buckets[k].left < Window => Window - buckets[k].left - 1 \in Age
      BY <1>4, <1>5, <2>4 DEF Age
    <3>2. /\ buckets'[k].left = buckets[k].left /\ buckets'[k].count > 0
          /\ \/ Used(k)' = Used(k) + 1 /\ \A a \in Age : passed'[k][a] = passed[k][a] + 1
             \/ Used(k)' = Used(k) /\ passed'[k] = passed[k]
      BY <1>4, <1>5, <2>4 DEF Used
    <3>3. Grows(passed[k])'
      BY <1>8, <2>1, <2>4, <3>2 DEF BurstInv, Grows
    <3>4. Used(k) \in Nat
      BY <1>4, <1>5 DEF Used
    <3>5. /\ passed[k][Window - buckets[k].left] = Used(k)
          /\ buckets[k].left < Window => passed[k][Window - buckets[k].left - 1] < Used(k)
          /\ passed[k][Window - 1] < MaxRequests + Used(k)
      BY <2>1, <2>4 DEF BurstInv
    <3>6. /\ passed'[k][Window - buckets[k].left] = Used(k)'
          /\ buckets[k].left < Window => passed'[k][Window - buckets[k].left - 1] < Used(k)'
          /\ passed'[k][Window - 1] < MaxRequests + Used(k)'
      <4>1. CASE Used(k)' = Used(k) + 1 /\ \A a \in Age : passed'[k][a] = passed[k][a] + 1
        <5> DEFINE a == Window - buckets[k].left
                   d == Window - 1
                   b == Window - buckets[k].left - 1
        <5>1. passed'[k][a] = passed[k][a] + 1 /\ passed'[k][d] = passed[k][d] + 1
          BY <1>6, <3>1, <4>1
        <5>2. passed[k][a] \in Nat /\ passed[k][d] \in Nat
          BY <1>6, <1>8, <3>1
        <5>3. buckets[k].left < Window =>
                /\ passed'[k][b] = passed[k][b] + 1 /\ passed[k][b] \in Nat
                /\ passed[k][b] < Used(k)
          BY <1>8, <3>1, <3>5, <4>1
        <5>4. passed[k][a] = Used(k) /\ passed[k][d] < MaxRequests + Used(k)
          BY <3>5
        <5> HIDE DEF a, b, d
        <5>5. /\ passed'[k][a] = Used(k)' /\ passed'[k][d] < MaxRequests + Used(k)'
              /\ buckets[k].left < Window => passed'[k][b] < Used(k)'
          BY <1>5, <3>4, <4>1, <5>1, <5>2, <5>3, <5>4
        <5> QED BY <5>5 DEF a, b, d
      <4>2. CASE Used(k)' = Used(k) /\ passed'[k] = passed[k]
        BY <3>5, <4>2
      <4> QED BY <3>2, <4>1, <4>2
    <3> QED BY <2>4, <3>2, <3>3, <3>6 DEF BurstInv
  <2> QED BY <1>4, <2>2, <2>3, <2>4
<1> QED BY <1>3, <1>9, <1>10, <1>11, <1>12, <1>13 DEF GovernanceInv

LEMMA TickStep ==
    ASSUME GovernanceInv, Tick
    PROVE  GovernanceInv'
<1>1. /\ \A k \in Key : told'[k] = Decrement(told[k]) /\ passed'[k] = Older(passed[k])
      /\ \A x \in Client : asked'[x] = Older(asked[x])
      /\ answer' = None
  BY DEF Tick
<1>2. Window \in Nat \ {0} /\ Second \in Nat \ {0} /\ MaxRequests \in Nat \ {0}
  BY LimitAssumption
<1>4. Age \subseteq Nat /\ Window - 1 \in Age /\ 0 \in Age
  BY AgeType
<1>3. \A k \in Key : /\ buckets[k] \in Bucket /\ told[k] \in 0..(Window + Second)
                     /\ passed[k] \in [Age -> Nat]
  BY DEF GovernanceInv, TypeOK
<1>5. ASSUME NEW k \in Key
      PROVE  /\ buckets[k].count \in 0..(MaxRequests + 1) /\ buckets[k].left \in 0..Window
             /\ buckets[k].count \in Nat /\ buckets[k].left \in Nat /\ told[k] \in Nat
             /\ buckets'[k].count = buckets[k].count
             /\ buckets'[k].left = IF buckets[k].left = 0 THEN 0 ELSE buckets[k].left - 1
             /\ told'[k] = IF told[k] = 0 THEN 0 ELSE told[k] - 1
             /\ buckets'[k] \in Bucket
  <2>1. buckets[k] \in [count : 0..(MaxRequests + 1), left : 0..Window]
    BY <1>3 DEF Bucket
  <2> DEFINE c == buckets[k].count
             n == buckets[k].left
  <2>2. c \in 0..(MaxRequests + 1) /\ n \in 0..Window
    BY <2>1
  <2>3. buckets'[k] = [buckets[k] EXCEPT !.left = Decrement(n)]
    BY DEF Tick
  <2>4. buckets'[k] = [count |-> c, left |-> Decrement(n)]
    BY <2>1, <2>3
  <2> HIDE DEF c, n
  <2>5. Decrement(n) \in 0..Window /\ Decrement(n) = IF n = 0 THEN 0 ELSE n - 1
    BY <1>2, <2>2 DEF Decrement
  <2>6. buckets'[k] \in Bucket /\ buckets'[k].count = c /\ buckets'[k].left = Decrement(n)
    BY <2>2, <2>4, <2>5 DEF Bucket
  <2>7. told[k] \in Nat /\ told'[k] = Decrement(told[k])
    BY <1>1, <1>2, <1>3
  <2>8. c \in Nat /\ n \in Nat
    BY <1>2, <2>2
  <2>9. told'[k] = IF told[k] = 0 THEN 0 ELSE told[k] - 1
    BY <2>7 DEF Decrement
  <2> QED BY <2>2, <2>5, <2>6, <2>7, <2>8, <2>9 DEF c, n
<1>6. \A x \in Client : asked[x] \in [Age -> 0..(MaxRequests + 1)]
  BY DEF GovernanceInv, TypeOK
<1>7. TypeOK'
  <2>1. ASSUME NEW k \in Key
        PROVE  /\ buckets'[k] \in Bucket /\ told'[k] \in 0..(Window + Second)
               /\ Older(passed[k]) \in [Age -> Nat]
    <3>2. told[k] \in 0..(Window + Second)
      BY <1>3
    <3>3. told'[k] \in 0..(Window + Second)
      BY <1>2, <1>5, <3>2
    <3>4. buckets'[k] \in Bucket
      BY <1>5
    <3>5. Older(passed[k]) \in [Age -> Nat]
      BY <1>3, OlderFunction
    <3> QED BY <3>3, <3>4, <3>5
  <2>2. \A x \in Client : Older(asked[x]) \in [Age -> 0..(MaxRequests + 1)]
    <3>1. 0 \in 0..(MaxRequests + 1)
      BY <1>2
    <3> HIDE DEF Age
    <3> QED BY <1>6, <3>1, OlderFunction
  <2>3. /\ buckets' = [k \in Key |-> buckets'[k]] /\ told' = [k \in Key |-> told'[k]]
        /\ passed' = [k \in Key |-> Older(passed[k])] /\ asked' = [x \in Client |-> Older(asked[x])]
    BY DEF Tick
  <2> QED BY <1>1, <2>1, <2>2, <2>3 DEF TypeOK, Answer
<1>8. RetryAfterSuffices'
  <2> SUFFICES ASSUME NEW k \in Key, buckets'[k].left > 0, buckets'[k].count > MaxRequests
               PROVE  buckets'[k].left <= told'[k] /\ told'[k] < buckets'[k].left + Second
    BY DEF RetryAfterSuffices
  <2>1. buckets[k].left > 0 /\ buckets'[k].left = buckets[k].left - 1 /\ buckets[k].count > MaxRequests
    BY <1>5
  <2>2. buckets[k].left <= told[k] /\ told[k] < buckets[k].left + Second
    BY <2>1 DEF GovernanceInv, RetryAfterSuffices
  <2>3. told'[k] = told[k] - 1
    BY <1>5, <2>1, <2>2
  <2>4. told[k] \in Nat /\ buckets[k].left \in Nat
    BY <1>5
  <2> QED BY <1>2, <2>1, <2>2, <2>3, <2>4
<1>9. \A x \in Client : Grows(asked[x])'
  <2>1. \A x \in Client : Grows(Older(asked[x]))
    <3>1. \A x \in Client : Grows(asked[x]) /\ \A a \in Age : asked[x][a] \in Nat
      BY <1>2, <1>6 DEF GovernanceInv
    <3> QED BY <3>1, OlderType
  <2> QED BY <1>1, <2>1 DEF Grows
<1>10. ASSUME NEW i \in DOMAIN AuthTokens, NEW t \in Tenant, NEW r \in Route
       PROVE  CountedInv(i, t, r)'
  <2> DEFINE l == <<AuthTokens[i].id, t, r>>
             y == <<AuthTokens[i].secret, t, r>>
  <2>1. l \in Key /\ y \in Client
    <3>1. AuthTokens[i] \in Token
      BY TokenAssumption
    <3> QED BY <3>1 DEF Token, Key, Client
  <2>2. buckets[l].left > 0 => buckets[l].count <= asked[y][Window - buckets[l].left]
    BY DEF GovernanceInv, CountedInv
  <2> HIDE DEF l, y
  <2>3. ASSUME buckets'[l].left > 0
        PROVE  buckets'[l].count <= asked'[y][Window - buckets'[l].left]
    <3>1. /\ buckets[l].left > 0 /\ buckets'[l].left = buckets[l].left - 1
          /\ buckets'[l].count = buckets[l].count /\ buckets[l].left \in 0..Window
      BY <1>5, <2>1, <2>3
    <3> DEFINE a == Window - buckets'[l].left
    <3>2. a \in Age /\ a > 0 /\ a - 1 = Window - buckets[l].left
      BY <1>2, <2>3, <3>1 DEF Age
    <3> HIDE DEF a
    <3>3. asked'[y][a] = asked[y][a - 1]
      <4>1. asked'[y] = Older(asked[y]) /\ a # 0
        BY <1>1, <2>1, <3>2
      <4> QED BY <3>2, <4>1 DEF Older
    <3> QED BY <2>2, <3>1, <3>2, <3>3 DEF a
  <2> QED BY <2>3 DEF CountedInv, l, y
<1>11. LimitedByOwnRequests'
  BY <1>1 DEF LimitedByOwnRequests
<1>12. ASSUME NEW k \in Key PROVE BurstInv(k)'
  <2>1. BurstInv(k) /\ \A a \in Age : passed[k][a] \in Nat
    BY <1>3 DEF GovernanceInv
  <2> DEFINE h == Older(passed[k])
  <2>2. /\ passed'[k] = h /\ Grows(h) /\ h[0] = 0 /\ \A a \in Age : a > 0 => h[a] = passed[k][a - 1]
        /\ h[Window - 1] <= passed[k][Window - 1]
    BY <1>1, <2>1, OlderType DEF BurstInv
  <2>3. /\ Used(k)' = Used(k) /\ buckets'[k].count = buckets[k].count
        /\ Used(k) \in Nat /\ Used(k) <= MaxRequests /\ (buckets[k].count > 0 => Used(k) > 0)
    <3>1. buckets'[k].count = buckets[k].count /\ buckets[k].count \in Nat
      BY <1>5
    <3> QED BY <1>2, <3>1 DEF Used
  <2>4. \A a \in Age : h[a] \in Nat
    BY <1>3, OlderFunction
  <2> HIDE DEF h
  <2>5. CASE buckets[k].left = 0
    <3>1. buckets'[k].left = 0 /\ passed[k][Window - 1] < MaxRequests
      BY <1>5, <2>1, <2>5 DEF BurstInv
    <3> QED BY <1>2, <1>4, <2>1, <2>2, <2>4, <3>1 DEF BurstInv, Grows
  <2>6. CASE buckets[k].left = 1
    <3>1. buckets'[k].left = 0 /\ buckets[k].count > 0
      BY <1>5, <2>1, <2>6 DEF BurstInv
    <3>2. h[Window - 1] < MaxRequests
      <4>1. CASE Window = 1
        BY <1>2, <2>2, <4>1
      <4>2. CASE Window > 1
        <5>1. h[Window - 1] = passed[k][Window - 1 - 1] /\ passed[k][Window - 1 - 1] < Used(k)
          BY <1>2, <1>4, <2>1, <2>2, <2>6, <4>2 DEF BurstInv
        <5>2. Window - 1 - 1 \in Age
          BY <1>2, <4>2 DEF Age
        <5> QED BY <1>2, <2>1, <2>3, <5>1, <5>2
      <4> QED BY <1>2, <4>1, <4>2
    <3> QED BY <2>2, <3>1, <3>2 DEF BurstInv, Grows
  <2>7. CASE buckets[k].left > 1
    <3>1. buckets'[k].left = buckets[k].left - 1 /\ buckets[k].left \in 0..Window
      BY <1>5, <2>7
    <3> DEFINE a == Window - buckets[k].left
    <3>2. a \in Age /\ a + 1 \in Age /\ Window - buckets'[k].left = a + 1
      BY <1>2, <2>7, <3>1 DEF Age
    <3>3. /\ buckets[k].count > 0 /\ passed[k][a] = Used(k)
          /\ passed[k][Window - 1] < MaxRequests + Used(k)
          /\ a > 0 => passed[k][a - 1] < Used(k)
      BY <1>2, <2>1, <2>7, <3>1 DEF BurstInv
    <3> HIDE DEF a
    <3>4. h[a + 1] = Used(k) /\ h[a] < Used(k)
      <4>1. h[a + 1] = passed[k][a + 1 - 1] /\ a + 1 - 1 = a
        <5>1. a \in Nat /\ a + 1 \in Age
          BY <1>4, <3>2
        <5>2. a + 1 > 0 /\ a + 1 - 1 = a
          BY <5>1
        <5> QED BY <2>2, <5>1, <5>2
      <4>2. a > 0 \/ a = 0
        BY <1>4, <3>2
      <4> QED BY <2>2, <2>3, <3>2, <3>3, <4>1, <4>2
    <3>5. h[Window - 1] < MaxRequests + Used(k)
      BY <1>2, <1>4, <2>1, <2>2, <2>3, <2>4, <3>3
    <3>6. buckets'[k].left > 0 /\ Window - buckets'[k].left - 1 = a
      BY <1>4, <2>7, <3>1, <3>2
    <3>7. Used(k)' = Used(k) /\ buckets'[k].count = buckets[k].count /\ buckets[k].count > 0
      BY <2>3, <3>3
    <3>8. Grows(passed[k])'
      BY <2>2 DEF Grows
    <3>9. passed'[k] = h
      BY <2>2
    <3>10. /\ passed'[k][Window - buckets'[k].left] = Used(k)'
           /\ passed'[k][Window - buckets'[k].left - 1] < Used(k)'
           /\ passed'[k][Window - 1] < MaxRequests + Used(k)'
      BY <3>2, <3>4, <3>5, <3>6, <3>7, <3>9
    <3> QED BY <3>6, <3>7, <3>8, <3>10 DEF BurstInv
  <2> QED BY <1>5, <2>5, <2>6, <2>7
<1> QED BY <1>7, <1>8, <1>9, <1>10, <1>11, <1>12 DEF GovernanceInv

\* The hook answers without counting the request.
LEMMA AnswerStep ==
    ASSUME GovernanceInv, UNCHANGED <<buckets, told, asked, passed>>,
           answer' \in Answer, answer' = answer \/ answer'.status # 429
    PROVE  GovernanceInv'
<1>1. TypeOK' /\ RetryAfterSuffices' /\ LimitedByOwnRequests'
  <2>1. TypeOK'
    BY DEF GovernanceInv, TypeOK
  <2>2. RetryAfterSuffices'
    BY DEF GovernanceInv, RetryAfterSuffices
  <2>3. LimitedByOwnRequests'
    BY DEF GovernanceInv, LimitedByOwnRequests, Total, ClientOf
  <2> QED BY <2>1, <2>2, <2>3
<1>2. \A k \in Key : BurstInv(k)'
  BY DEF GovernanceInv, BurstInv, Grows, Used
<1>3. \A k \in Client : Grows(asked[k])'
  BY DEF GovernanceInv, Grows
<1>4. \A i \in DOMAIN AuthTokens, t \in Tenant, r \in Route : CountedInv(i, t, r)'
  BY DEF GovernanceInv, CountedInv
<1> QED BY <1>1, <1>2, <1>3, <1>4 DEF GovernanceInv

LEMMA InitInv ==
    ASSUME Init
    PROVE  GovernanceInv
<1>1. Window \in Nat \ {0} /\ Second \in Nat \ {0} /\ MaxRequests \in Nat \ {0}
  BY LimitAssumption
<1>2. 0 \in Age /\ Window - 1 \in Age /\ Age \subseteq Nat
  BY <1>1 DEF Age
<1>3. TypeOK
  BY <1>1 DEF Init, TypeOK, Bucket, Answer
<1>4. /\ \A k \in Key : buckets[k].left = 0 /\ \A a \in Age : passed[k][a] = 0
      /\ \A x \in Client, a \in Age : asked[x][a] = 0
      /\ answer = None
  BY DEF Init
<1>5. RetryAfterSuffices /\ LimitedByOwnRequests
  BY <1>4 DEF RetryAfterSuffices, LimitedByOwnRequests
<1>6. \A k \in Key : BurstInv(k)
  BY <1>1, <1>2, <1>4 DEF BurstInv, Grows
<1>7. \A x \in Client : Grows(asked[x])
  BY <1>4 DEF Grows
<1>8. ASSUME NEW i \in DOMAIN AuthTokens, NEW t \in Tenant, NEW r \in Route
      PROVE  CountedInv(i, t, r)
  <2>1. AuthTokens[i] \in Token
    BY TokenAssumption
  <2>2. <<AuthTokens[i].id, t, r>> \in Key
    BY <2>1 DEF Token, Key
  <2> QED BY <1>4, <2>2 DEF CountedInv
<1> QED BY <1>3, <1>5, <1>6, <1>7, <1>8 DEF GovernanceInv

LEMMA StepInv ==
    ASSUME GovernanceInv, [Next]_vars
    PROVE  GovernanceInv'
<1>1. ASSUME NEW q \in Requests, AnswerExempt(q) \/ RefuseCredentials(q)
                                 \/ RefuseTenantHeader(q) \/ RefuseTenant(q)
      PROVE  GovernanceInv'
  <2>1. /\ UNCHANGED <<buckets, told, asked, passed>>
        /\ answer' \in Answer /\ answer'.status # 429
    BY <1>1 DEF AnswerExempt, RefuseCredentials, RefuseTenantHeader, RefuseTenant, Refuse, Answer
  <2> QED BY <2>1, AnswerStep
<1>2. CASE UNCHANGED vars
  <2>1. UNCHANGED <<buckets, told, asked, passed, answer>> /\ answer \in Answer
    BY <1>2 DEF vars, GovernanceInv, TypeOK
  <2> QED BY <2>1, AnswerStep
<1> QED BY <1>1, <1>2, TickStep, CountedInvStep DEF Next, Serve, Counted
-----------------------------------------------------------------------------
(* The theorems. *)

\* In every reachable state buckets and histories agree as the parts of the
\* invariant say.
THEOREM GovernanceInvCorrect == Spec => []GovernanceInv
BY InitInv, StepInv, PTL DEF Spec

\* Buckets, answers and histories hold what the hook can put there.
THEOREM TypeCorrect == Spec => []TypeOK
<1>1. GovernanceInv => TypeOK
  BY DEF GovernanceInv
<1> QED BY <1>1, GovernanceInvCorrect, PTL

\* In no interval as long as a window does the limiter let twice the limit
\* pass, wherever the interval lies.
THEOREM BurstsAreBounded == Spec => []BurstBounded
<1>1. GovernanceInv => BurstBounded
  <2> SUFFICES ASSUME GovernanceInv, NEW k \in Key PROVE passed[k][Window - 1] < 2 * MaxRequests
    BY DEF BurstBounded, Total
  <2>1. /\ buckets[k].left \in Nat /\ buckets[k].count \in Nat /\ BurstInv(k)
        /\ MaxRequests \in Nat \ {0} /\ Window - 1 \in Age
    BY LimitAssumption DEF GovernanceInv, TypeOK, Bucket, Age
  <2>2. passed[k][Window - 1] \in Nat
    BY <2>1 DEF GovernanceInv, TypeOK
  <2> QED BY <2>1, <2>2 DEF BurstInv, Used
<1> QED BY <1>1, GovernanceInvCorrect, PTL

\* Whoever is answered 429 has itself asked for that tenant and route more often
\* than the limit in the last window.
THEOREM LimitsAreDeserved == Spec => []LimitedByOwnRequests
<1>1. GovernanceInv => LimitedByOwnRequests
  BY DEF GovernanceInv
<1> QED BY <1>1, GovernanceInvCorrect, PTL

\* The last retry-after of a full bucket reaches to the end of its window, and
\* by less than a second further.
THEOREM RetryAfterIsEnough == Spec => []RetryAfterSuffices
<1>1. GovernanceInv => RetryAfterSuffices
  BY DEF GovernanceInv
<1> QED BY <1>1, GovernanceInvCorrect, PTL
=============================================================================
