-------------------------- MODULE OutboxRelayProofs --------------------------
(***************************************************************************)
(* Proofs about OutboxRelay, for every number of relays and events, every  *)
(* batch size and every number of stops.                                   *)
(***************************************************************************)
EXTENDS OutboxRelay, FiniteSetTheorems, FunctionTheorems, SequenceTheorems, TLAPS

Distinct(s) == \A i, j \in 1..Len(s) : s[i] = s[j] => i = j
-----------------------------------------------------------------------------
(* The operations on the queue, the snapshot and the batch. *)

\* A set has the elements of a sequence over it.
LEMMA ElementsType ==
    ASSUME NEW E, NEW s \in Seq(E)
    PROVE  Elements(s) \subseteq E
BY DEF Elements

LEMMA EmptyElements ==
    ASSUME NEW E, NEW s \in Seq(E), Elements(s) = {}
    PROVE  s = <<>>
<1>1. Len(s) \in Nat /\ (Len(s) # 0 => 1 \in 1..Len(s))
  OBVIOUS
<1> QED BY <1>1 DEF Elements

LEMMA AppendElements ==
    ASSUME NEW E, NEW s \in Seq(E), NEW e \in E
    PROVE  /\ Append(s, e) \in Seq(E)
           /\ Elements(Append(s, e)) = Elements(s) \cup {e}
           /\ Distinct(s) /\ e \notin Elements(s) => Distinct(Append(s, e))
<1> DEFINE t == Append(s, e)
<1>1. /\ t \in Seq(E) /\ Len(t) = Len(s) + 1 /\ Len(s) \in Nat
      /\ \A i \in 1..Len(s) : t[i] = s[i]
      /\ t[Len(s) + 1] = e
  OBVIOUS
<1> HIDE DEF t
<1>2. 1..Len(t) = 1..Len(s) \cup {Len(s) + 1}
  BY <1>1
<1>3. Elements(t) = Elements(s) \cup {e}
  BY <1>1, <1>2 DEF Elements
<1>4. ASSUME Distinct(s), e \notin Elements(s) PROVE Distinct(t)
  BY <1>1, <1>2, <1>4 DEF Distinct, Elements
<1> QED BY <1>1, <1>3, <1>4 DEF t

LEMMA TailElements ==
    ASSUME NEW E, NEW s \in Seq(E), s # <<>>
    PROVE  /\ Head(s) \in Elements(s) /\ Tail(s) \in Seq(E) /\ Len(Tail(s)) = Len(s) - 1
           /\ Elements(s) = Elements(Tail(s)) \cup {Head(s)}
           /\ Distinct(s) => Distinct(Tail(s)) /\ Head(s) \notin Elements(Tail(s))
<1> DEFINE t == Tail(s)
<1>1. /\ t \in Seq(E) /\ Len(t) = Len(s) - 1 /\ Len(s) \in Nat \ {0} /\ Head(s) = s[1]
      /\ \A i \in 1..Len(t) : t[i] = s[i + 1]
  BY HeadTailProperties, EmptySeq
<1> HIDE DEF t
<1>2. Head(s) \in Elements(s)
  BY <1>1 DEF Elements
<1>3. Elements(s) = Elements(t) \cup {Head(s)}
  <2>1. ASSUME NEW i \in 1..Len(s) PROVE s[i] \in Elements(t) \cup {Head(s)}
    <3>1. CASE i = 1
      BY <3>1, <1>1
    <3>2. CASE i # 1
      <4>1. i - 1 \in 1..Len(t) /\ t[i - 1] = s[i]
        BY <1>1, <3>2
      <4> QED BY <4>1 DEF Elements
    <3> QED BY <3>1, <3>2
  <2>2. ASSUME NEW i \in 1..Len(t) PROVE t[i] \in Elements(s)
    <3>1. i + 1 \in 1..Len(s)
      BY <1>1
    <3> QED BY <1>1, <3>1 DEF Elements
  <2> QED BY <1>2, <2>1, <2>2 DEF Elements
<1>4. ASSUME Distinct(s) PROVE Distinct(t) /\ Head(s) \notin Elements(t)
  <2>1. \A i \in 1..Len(t) : i + 1 \in 1..Len(s) /\ i + 1 # 1
    BY <1>1
  <2>2. 1 \in 1..Len(s)
    BY <1>1
  <2>3. Head(s) \notin Elements(t)
    BY <1>1, <1>4, <2>1, <2>2 DEF Distinct, Elements
  <2>4. ASSUME NEW i \in 1..Len(t), NEW j \in 1..Len(t), t[i] = t[j] PROVE i = j
    <3>1. i + 1 = j + 1
      BY <1>1, <1>4, <2>1, <2>4 DEF Distinct
    <3> QED BY <3>1
  <2> QED BY <2>3, <2>4 DEF Distinct
<1> QED BY <1>1, <1>2, <1>3, <1>4 DEF t

\* A concatenation has the elements of both parts, and repeats none if neither
\* does and they share none.
LEMMA ConcatElements ==
    ASSUME NEW E, NEW s \in Seq(E), NEW t \in Seq(E)
    PROVE  /\ s \o t \in Seq(E)
           /\ Elements(s \o t) = Elements(s) \cup Elements(t)
           /\ Distinct(s \o t) <=> /\ Distinct(s) /\ Distinct(t)
                                   /\ Elements(s) \cap Elements(t) = {}
<1> DEFINE u == s \o t
           m == Len(s)
           n == Len(t)
<1>1. /\ u \in Seq(E) /\ Len(u) = m + n /\ m \in Nat /\ n \in Nat
      /\ \A i \in 1..(m + n) : u[i] = IF i <= m THEN s[i] ELSE t[i - m]
  BY ConcatProperties, LenProperties
<1> HIDE DEF u, m, n
<1>2. \A i \in 1..m : i \in 1..(m + n) /\ u[i] = s[i]
  BY <1>1
<1>3. \A i \in 1..n : m + i \in 1..(m + n) /\ u[m + i] = t[i]
  <2> TAKE i \in 1..n
  <2>1. m + i \in 1..(m + n) /\ ~(m + i <= m) /\ (m + i) - m = i
    BY <1>1
  <2> QED BY <1>1, <2>1
<1>4. \A i \in 1..(m + n) : i \in 1..m \/ \E j \in 1..n : i = m + j
  <2> TAKE i \in 1..(m + n)
  <2>1. i \notin 1..m => i - m \in 1..n /\ i = m + (i - m)
    BY <1>1
  <2> QED BY <2>1
<1>5. Elements(u) = Elements(s) \cup Elements(t)
  <2>1. \A i \in 1..(m + n) : u[i] \in Elements(s) \cup Elements(t)
    BY <1>2, <1>3, <1>4 DEF Elements, m, n
  <2>2. Elements(u) = {u[i] : i \in 1..(m + n)}
    BY <1>1 DEF Elements
  <2>3. (\A i \in 1..m : s[i] \in Elements(u)) /\ (\A i \in 1..n : t[i] \in Elements(u))
    BY <1>2, <1>3, <2>2
  <2>4. Elements(u) \subseteq Elements(s) \cup Elements(t)
    BY <2>1, <2>2
  <2>5. Elements(s) \subseteq Elements(u) /\ Elements(t) \subseteq Elements(u)
    BY <2>3 DEF Elements, m, n
  <2> QED BY <2>4, <2>5
<1>6. ASSUME Distinct(u)
      PROVE  Distinct(s) /\ Distinct(t) /\ Elements(s) \cap Elements(t) = {}
  <2>1. Distinct(s)
    BY <1>1, <1>2, <1>6 DEF Distinct, m
  <2>2. \A i, j \in 1..n : m + i = m + j => i = j
    BY <1>1
  <2>3. Distinct(t)
    BY <1>1, <1>3, <1>6, <2>2 DEF Distinct, n
  <2>4. \A i \in 1..m, j \in 1..n : i # m + j
    BY <1>1
  <2> QED BY <1>1, <1>2, <1>3, <1>6, <2>1, <2>3, <2>4 DEF Distinct, Elements, m, n
<1>7. ASSUME Distinct(s), Distinct(t), Elements(s) \cap Elements(t) = {}
      PROVE  Distinct(u)
  <2>1. \A i \in 1..m, j \in 1..n : s[i] # t[j]
    BY <1>7 DEF Elements, m, n
  <2>2. \A i, j \in 1..m : s[i] = s[j] => i = j
    BY <1>7 DEF Distinct, m
  <2>3. \A i, j \in 1..n : t[i] = t[j] => i = j
    BY <1>7 DEF Distinct, n
  <2> SUFFICES ASSUME NEW i \in 1..(m + n), NEW j \in 1..(m + n), u[i] = u[j] PROVE i = j
    BY <1>1 DEF Distinct
  <2>4. CASE i \in 1..m /\ j \in 1..m
    BY <1>2, <2>2, <2>4
  <2>5. ASSUME NEW k \in 1..n, i = m + k, j \in 1..m PROVE FALSE
    BY <1>2, <1>3, <2>1, <2>5
  <2>6. ASSUME NEW k \in 1..n, j = m + k, i \in 1..m PROVE FALSE
    BY <1>2, <1>3, <2>1, <2>6
  <2>7. ASSUME NEW k \in 1..n, NEW l \in 1..n, i = m + k, j = m + l PROVE i = j
    BY <1>3, <2>3, <2>7
  <2> QED BY <1>4, <2>4, <2>5, <2>6, <2>7
<1> QED BY <1>1, <1>5, <1>6, <1>7 DEF u

\* A row that is inserted anywhere in the queue joins it once.
LEMMA InsertElements ==
    ASSUME NEW E, NEW s \in Seq(E), NEW e \in E, NEW k \in 0..Len(s)
    PROVE  LET t == SubSeq(s, 1, k) \o <<e>> \o SubSeq(s, k + 1, Len(s))
           IN  /\ t \in Seq(E)
               /\ Elements(t) = Elements(s) \cup {e}
               /\ Distinct(s) /\ e \notin Elements(s) => Distinct(t)
<1> DEFINE a == SubSeq(s, 1, k)
           b == SubSeq(s, k + 1, Len(s))
<1>1. Len(s) \in Nat
  BY LenProperties
<1>2. a \in Seq(E) /\ b \in Seq(E)
  <2>1. (\A i \in 1..k : s[i] \in E) /\ (\A i \in (k + 1)..Len(s) : s[i] \in E)
    BY <1>1, ElementOfSeq
  <2>2. a \in Seq(E)
    BY <1>1, <2>1, SubSeqProperties
  <2>3. b \in Seq(E)
    BY <1>1, <2>1, SubSeqProperties
  <2> QED BY <2>2, <2>3
<1>3. s = a \o b
  <2>1. 1 \in 1..Len(s) + 1 /\ k \in (1 - 1)..Len(s) /\ Len(s) \in k..Len(s)
    BY <1>1
  <2>2. a \o b = SubSeq(s, 1, Len(s))
    BY <2>1, ConcatAdjacentSubSeq
  <2> QED BY <2>2, SubSeqFull
<1> DEFINE c == <<e>>
           d == a \o c
<1>4. c \in Seq(E) /\ Elements(c) = {e} /\ Distinct(c)
  BY DEF Elements, Distinct
<1> HIDE DEF a, b, c
<1>5. /\ d \in Seq(E) /\ Elements(d) = Elements(a) \cup {e}
      /\ Distinct(a) /\ e \notin Elements(a) => Distinct(d)
  BY <1>2, <1>4, ConcatElements
<1> HIDE DEF d
<1>6. /\ d \o b \in Seq(E) /\ Elements(d \o b) = Elements(d) \cup Elements(b)
      /\ Distinct(d) /\ Distinct(b) /\ Elements(d) \cap Elements(b) = {} => Distinct(d \o b)
  BY <1>2, <1>5, ConcatElements
<1>7. /\ Elements(s) = Elements(a) \cup Elements(b)
      /\ Distinct(s) => Distinct(a) /\ Distinct(b) /\ Elements(a) \cap Elements(b) = {}
  BY <1>2, <1>3, ConcatElements
<1>8. SubSeq(s, 1, k) \o <<e>> \o SubSeq(s, k + 1, Len(s)) = d \o b
  BY DEF a, b, c, d
<1> QED BY <1>5, <1>6, <1>7, <1>8

Rank(K, i) == Cardinality({j \in K : j <= i})

\* In a finite set of numbers, every rank belongs to exactly one number.
LEMMA RankBijective ==
    ASSUME NEW n \in Nat, NEW K \in SUBSET (1..n)
    PROVE  /\ Cardinality(K) \in Nat
           /\ \A i \in K : Rank(K, i) \in 1..Cardinality(K)
           /\ \A i, j \in K : Rank(K, i) = Rank(K, j) => i = j
           /\ \A k \in 1..Cardinality(K) : \E i \in K : Rank(K, i) = k
<1>1. IsFiniteSet(K) /\ Cardinality(K) \in Nat
  <2>1. IsFiniteSet(1..n)
    BY FS_Interval
  <2>2. IsFiniteSet(K)
    BY <2>1, FS_Subset
  <2> QED BY <2>2, FS_CardinalityType
<1>2. \A i \in K : {j \in K : j <= i} \in SUBSET K
  OBVIOUS
<1>3. \A i \in K : Rank(K, i) \in Nat /\ Rank(K, i) <= Cardinality(K)
  BY <1>1, <1>2, FS_Subset, FS_CardinalityType DEF Rank
<1>4. \A i \in K : Rank(K, i) # 0
  <2> TAKE i \in K
  <2>1. IsFiniteSet({j \in K : j <= i})
    BY <1>1, <1>2, FS_Subset
  <2>2. i \in {j \in K : j <= i}
    OBVIOUS
  <2> QED BY <2>1, <2>2, FS_EmptySet DEF Rank
<1>5. ASSUME NEW i \in K, NEW j \in K, i < j PROVE Rank(K, i) # Rank(K, j)
  <2> DEFINE S == {x \in K : x <= i}
             T == {x \in K : x <= j}
  <2>1. S \in SUBSET T /\ j \in T /\ j \notin S
    <3>1. \A x \in K : x \in Nat /\ (x <= i => x <= j)
      BY <1>5
    <3>2. i \in Nat /\ j \in Nat /\ ~(j <= i) /\ j <= j
      BY <1>5
    <3>3. j \in T /\ j \notin S
      BY <3>2
    <3>4. S \in SUBSET T
      BY <3>1
    <3> QED BY <3>3, <3>4
  <2>2. IsFiniteSet(T)
    BY <1>1, <1>2, FS_Subset
  <2>3. Cardinality(T) = Cardinality(S) => T = S
    BY <2>1, <2>2, FS_Subset
  <2> QED BY <2>1, <2>3 DEF Rank
<1>6. \A i, j \in K : Rank(K, i) = Rank(K, j) => i = j
  BY <1>5
<1>7. \A k \in 1..Cardinality(K) : \E i \in K : Rank(K, i) = k
  <2> DEFINE f == [i \in K |-> Rank(K, i)]
             N == 1..Cardinality(K)
  <2>1. f \in Injection(K, N)
    BY <1>1, <1>3, <1>4, <1>6 DEF Injection, IsInjective
  <2>2. IsFiniteSet(N) /\ Cardinality(N) = Cardinality(K)
    BY <1>1, FS_Interval
  <2>3. f \in Surjection(K, N)
    BY <2>1, <2>2, FS_Injection
  <2> QED BY <2>3 DEF Surjection
<1> QED BY <1>1, <1>3, <1>4, <1>6, <1>7

\* Taking rows out of a sequence leaves the others, each as often as before.
LEMMA WithoutElements ==
    ASSUME NEW E, NEW s \in Seq(E), NEW S
    PROVE  /\ Without(s, S) \in Seq(E)
           /\ Elements(Without(s, S)) = Elements(s) \ S
           /\ Distinct(s) => Distinct(Without(s, S))
<1> DEFINE K == {i \in 1..Len(s) : s[i] \notin S}
           n == Cardinality(K)
           At(k) == CHOOSE i \in K : Rank(K, i) = k
           t == Without(s, S)
<1>1. /\ n \in Nat
      /\ \A i \in K : Rank(K, i) \in 1..n
      /\ \A i, j \in K : Rank(K, i) = Rank(K, j) => i = j
      /\ \A k \in 1..n : \E i \in K : Rank(K, i) = k
  <2>1. Len(s) \in Nat /\ K \in SUBSET (1..Len(s))
    OBVIOUS
  <2> HIDE DEF K
  <2> QED BY <2>1, RankBijective
<1>2. t = [k \in 1..n |-> s[At(k)]]
  BY DEF Without, Rank
<1>3. \A k \in 1..n : At(k) \in K /\ Rank(K, At(k)) = k
  <2> HIDE DEF K
  <2> QED BY <1>1
<1>4. \A i \in K : At(Rank(K, i)) = i
  <2> HIDE DEF K
  <2> QED BY <1>1
<1>5. \A i \in K : s[i] \in E /\ s[i] \in Elements(s) /\ s[i] \notin S
  BY ElementOfSeq DEF Elements
<1>6. \A e \in Elements(s) \ S : \E i \in K : s[i] = e
  BY DEF Elements
<1> HIDE DEF K, n, At, t
<1>7. t \in Seq(E) /\ Len(t) = n
  BY <1>1, <1>2, <1>3, <1>5
<1>8. Elements(t) = {s[At(k)] : k \in 1..n}
  BY <1>2, <1>7 DEF Elements
<1>9. Elements(t) = Elements(s) \ S
  BY <1>1, <1>3, <1>4, <1>5, <1>6, <1>8
<1>10. ASSUME Distinct(s) PROVE Distinct(t)
  <2> SUFFICES ASSUME NEW k \in 1..n, NEW l \in 1..n, s[At(k)] = s[At(l)] PROVE k = l
    BY <1>2, <1>7 DEF Distinct
  <2>1. At(k) = At(l)
    BY <1>3, <1>10 DEF Distinct, K
  <2> QED BY <1>3, <2>1
<1> QED BY <1>7, <1>9, <1>10 DEF t
-----------------------------------------------------------------------------
(* The inductive invariant of the relays. *)

InHands == {"publish", "mark", "fail"}

\* The rows of a relay are locked rows of the queue until they are claimed, and
\* rows that no relay can claim from then on.
RelayRows(r) ==
    /\ pc[r] = "idle" => batch[r] = <<>>
    /\ pc[r] # "lock" => found[r] = <<>>
    /\ pc[r] = "lock" => Elements(found[r]) \cup Elements(batch[r]) \subseteq Elements(queue)
    /\ pc[r] \in InHands =>
         /\ batch[r] # <<>>
         /\ \A e \in Elements(batch[r]) : /\ e \notin Elements(queue)
                                          /\ row[e] \in {"processing", "published"}
    /\ pc[r] = "mark" => Head(batch[r]) \in appended
    /\ Distinct(found[r]) /\ Distinct(batch[r])
    /\ Elements(found[r]) \cap Elements(batch[r]) = {}

\* Only rows that wait for their first or next attempt are in the queue.
QueueRows == Distinct(queue) /\ \A e \in Elements(queue) : row[e] \in {"pending", "failed"}

BatchesDiffer ==
    \A r, s \in Relay : r # s => Elements(batch[r]) \cap Elements(batch[s]) = {}

RelayInv == /\ TypeOK
            /\ QueueRows
            /\ \A r \in Relay : RelayRows(r)
            /\ BatchesDiffer
            /\ PublishedIsAppended

\* A row that joins the queue is in no relay's hands.
LEMMA QueueGrows ==
    ASSUME RelayInv, NEW e \in Event, Insert(e) \/ ComeDue(e)
    PROVE  RelayInv'
<1> USE DEF RelayInv, TypeOK, RowStatus
<1>1. /\ queue' \in Seq(Event) /\ Elements(queue') = Elements(queue) \cup {e}
      /\ e \notin Elements(queue) => Distinct(queue')
  <2>1. CASE Insert(e)
    <3>1. PICK k \in 0..Len(queue) :
            queue' = SubSeq(queue, 1, k) \o <<e>> \o SubSeq(queue, k + 1, Len(queue))
      BY <2>1 DEF Insert
    <3> DEFINE t == SubSeq(queue, 1, k) \o <<e>> \o SubSeq(queue, k + 1, Len(queue))
    <3>2. /\ t \in Seq(Event) /\ Elements(t) = Elements(queue) \cup {e}
          /\ Distinct(queue) /\ e \notin Elements(queue) => Distinct(t)
      BY InsertElements
    <3> QED BY <3>1, <3>2 DEF QueueRows
  <2>2. CASE ComeDue(e)
    BY <2>2, AppendElements DEF ComeDue, QueueRows
  <2> QED BY <2>1, <2>2
<1>2. /\ row' \in [Event -> RowStatus] /\ row'[e] \in {"pending", "failed"}
      /\ row[e] \in {"absent", "failed"} /\ e \notin Elements(queue)
      /\ \A x \in Event \ {e} : row'[x] = row[x]
      /\ UNCHANGED <<appended, mode, pc, found, batch, stops>>
  BY DEF Insert, ComeDue, relayVars, QueueRows
<1>3. \A r \in Relay : Elements(batch[r]) \subseteq Event
  BY ElementsType
<1>4. QueueRows'
  BY <1>1, <1>2, ElementsType DEF QueueRows
<1>5. \A r \in Relay : RelayRows(r)'
  BY <1>1, <1>2, <1>3 DEF RelayRows, InHands
<1> QED BY <1>1, <1>2, <1>4, <1>5 DEF BatchesDiffer, PublishedIsAppended

\* A tick takes a snapshot of the queue.
LEMMA TickInv ==
    ASSUME RelayInv, NEW r \in Relay, Tick(r)
    PROVE  RelayInv'
<1> USE DEF RelayInv, TypeOK, Tick
<1>1. RelayRows(r)'
  <2>1. found'[r] = queue /\ pc'[r] = "lock" /\ UNCHANGED <<row, queue, appended, batch>>
    OBVIOUS
  <2>2. batch[r] = <<>> /\ Elements(<<>>) = {} /\ Distinct(batch[r])
    BY DEF RelayRows, Elements
  <2> QED BY <2>1, <2>2 DEF RelayRows, InHands, QueueRows
<1>2. ASSUME NEW s \in Relay \ {r} PROVE RelayRows(s)'
  <2>1. /\ found'[s] = found[s] /\ pc'[s] = pc[s]
        /\ UNCHANGED <<row, queue, appended, batch>>
    OBVIOUS
  <2> QED BY <2>1 DEF RelayRows, InHands
<1> QED BY <1>1, <1>2 DEF BatchesDiffer, PublishedIsAppended, QueueRows

\* A relay locks a row that no other claiming transaction has locked, and that
\* nobody has in hand, since it is still in the queue.
LEMMA LockRowInv ==
    ASSUME RelayInv, NEW r \in Relay, LockRow(r)
    PROVE  RelayInv'
<1> USE DEF RelayInv, TypeOK, LockRow
<1> DEFINE e == Head(found[r])
<1>1. /\ e \in Event /\ e \in Elements(found[r])
      /\ Tail(found[r]) \in Seq(Event) /\ Distinct(Tail(found[r]))
      /\ Elements(found[r]) = Elements(Tail(found[r])) \cup {e}
      /\ e \notin Elements(Tail(found[r]))
  BY TailElements, ElementsType DEF RelayRows
<1>2. /\ Append(batch[r], e) \in Seq(Event)
      /\ Elements(Append(batch[r], e)) = Elements(batch[r]) \cup {e}
      /\ Distinct(Append(batch[r], e))
  BY <1>1, AppendElements DEF RelayRows
<1>3. \A s \in Relay \ {r} : e \notin Elements(batch[s])
  <2> SUFFICES ASSUME NEW s \in Relay \ {r} PROVE e \notin Elements(batch[s])
    OBVIOUS
  <2>1. CASE pc[s] = "lock"
    BY <2>1 DEF Locked
  <2>2. CASE pc[s] = "idle"
    BY <2>2 DEF RelayRows, Elements
  <2>3. CASE pc[s] \in InHands
    BY <1>1, <2>3 DEF RelayRows
  <2> QED BY <2>1, <2>2, <2>3 DEF InHands
<1>4. \A s \in Relay : RelayRows(s)'
  BY <1>1, <1>2 DEF RelayRows, InHands
<1>5. BatchesDiffer'
  BY <1>1, <1>2, <1>3 DEF BatchesDiffer
<1> QED BY <1>1, <1>2, <1>4, <1>5 DEF PublishedIsAppended, QueueRows

\* The claim takes the rows of the batch out of the queue and out of all other
\* snapshots; no other relay has locked one of them.
LEMMA ClaimInv ==
    ASSUME RelayInv, NEW r \in Relay, Claim(r)
    PROVE  RelayInv'
<1> USE DEF RelayInv, TypeOK, RowStatus
<1> DEFINE claimed == Elements(batch[r])
<1>1. /\ pc[r] = "lock" /\ claimed \subseteq Elements(queue) /\ claimed \subseteq Event
      /\ row' = [e \in Event |-> IF e \in claimed THEN "processing" ELSE row[e]]
      /\ queue' = Without(queue, claimed)
      /\ found' = [s \in Relay |-> IF s = r THEN <<>> ELSE Without(found[s], claimed)]
      /\ pc' = [pc EXCEPT ![r] = IF claimed = {} THEN "idle" ELSE "publish"]
      /\ UNCHANGED <<appended, mode, batch, stops>>
  BY ElementsType DEF Claim, RelayRows
<1>2. /\ queue' \in Seq(Event) /\ Distinct(queue')
      /\ Elements(queue') = Elements(queue) \ claimed
  BY <1>1, WithoutElements DEF QueueRows
<1>3. \A s \in Relay \ {r} : /\ found'[s] \in Seq(Event) /\ Distinct(found'[s])
                             /\ Elements(found'[s]) = Elements(found[s]) \ claimed
  BY <1>1, WithoutElements DEF RelayRows
<1>4. found'[r] = <<>> /\ Elements(<<>>) = {} /\ Distinct(<<>>) /\ <<>> \in Seq(Event)
  BY <1>1 DEF Elements, Distinct
<1>5. \A s \in Relay : pc[s] # "lock" => found'[s] = <<>>
  <2> SUFFICES ASSUME NEW s \in Relay \ {r}, pc[s] # "lock" PROVE found'[s] = <<>>
    BY <1>1
  <2>1. Elements(found'[s]) = {}
    BY <1>3, <1>4 DEF RelayRows
  <2> QED BY <1>3, <2>1, EmptyElements
<1>6. TypeOK'
  <2>1. found' \in [Relay -> Seq(Event)]
    BY <1>1, <1>3, <1>4
  <2> QED BY <1>1, <1>2, <2>1
<1>7. QueueRows'
  BY <1>1, <1>2, ElementsType DEF QueueRows
<1>8. RelayRows(r)'
  <2>1. claimed = {} => batch[r] = <<>>
    BY EmptyElements
  <2> QED BY <1>1, <1>2, <1>4, <2>1 DEF RelayRows, InHands
<1>9. ASSUME NEW s \in Relay \ {r} PROVE RelayRows(s)'
  <2>1. Elements(batch[s]) \cap claimed = {} /\ Elements(batch[s]) \subseteq Event
    BY ElementsType DEF BatchesDiffer
  <2>2. pc'[s] = pc[s] /\ batch'[s] = batch[s]
    BY <1>1
  <2> QED BY <1>1, <1>2, <1>3, <1>5, <2>1, <2>2 DEF RelayRows, InHands
<1> QED BY <1>1, <1>6, <1>7, <1>8, <1>9 DEF BatchesDiffer, PublishedIsAppended

\* Publishing, or failing to, changes no row: only what is in the topic.
LEMMA PublishInv ==
    ASSUME RelayInv, NEW r \in Relay, Deliver(r) \/ PublishFails(r)
    PROVE  RelayInv'
<1> USE DEF RelayInv, TypeOK
<1>1. /\ pc[r] = "publish" /\ batch[r] # <<>> /\ UNCHANGED <<row, queue, mode, found, batch, stops>>
      /\ \E p \in {"mark", "fail"} : /\ pc' = [pc EXCEPT ![r] = p]
                                     /\ p = "mark" => Head(batch[r]) \in appended'
      /\ appended \subseteq appended'
      /\ appended' \subseteq appended \cup {Head(batch[r])}
  BY DEF Deliver, Publish, PublishUnacknowledged, PublishFails, RelayRows, InHands
<1>2. Head(batch[r]) \in Event
  BY <1>1, TailElements, ElementsType
<1>3. \A s \in Relay : RelayRows(s)'
  BY <1>1 DEF RelayRows, InHands
<1> QED BY <1>1, <1>2, <1>3 DEF BatchesDiffer, PublishedIsAppended, QueueRows

\* A relay that is done with its first row has the others in hand.
LEMMA AdvanceInv ==
    ASSUME RelayInv, NEW r \in Relay, MarkPublished(r) \/ MarkFailed(r)
    PROVE  RelayInv'
<1> USE DEF RelayInv, TypeOK, RowStatus
<1> DEFINE e == Head(batch[r])
           rest == Tail(batch[r])
<1>1. /\ pc[r] \in {"mark", "fail"} /\ batch[r] # <<>>
      /\ batch' = [batch EXCEPT ![r] = rest]
      /\ pc' = [pc EXCEPT ![r] = IF Len(batch[r]) = 1 THEN "idle" ELSE "publish"]
      /\ UNCHANGED <<queue, appended, mode, found, stops>>
      /\ \E p \in {"published", "failed"} : /\ row' = [row EXCEPT ![e] = p]
                                            /\ p = "published" => e \in appended
  BY DEF MarkPublished, MarkFailed, Advance, RelayRows, InHands
<1>2. /\ e \in Event /\ e \in Elements(batch[r]) /\ e \notin Elements(rest)
      /\ rest \in Seq(Event) /\ Distinct(rest) /\ Len(rest) = Len(batch[r]) - 1
      /\ Elements(rest) \subseteq Elements(batch[r])
  BY <1>1, TailElements, ElementsType DEF RelayRows
<1>3. e \notin Elements(queue)
  BY <1>1, <1>2 DEF RelayRows, InHands
<1>4. \A s \in Relay \ {r} : e \notin Elements(batch[s])
  BY <1>2 DEF BatchesDiffer
<1>5. \A x \in Event \ {e} : row'[x] = row[x]
  BY <1>1
<1>6. TypeOK' /\ PublishedIsAppended' /\ QueueRows'
  BY <1>1, <1>2, <1>3, ElementsType DEF PublishedIsAppended, QueueRows
<1>7. BatchesDiffer'
  BY <1>1, <1>2 DEF BatchesDiffer
<1>8. RelayRows(r)'
  <2>1. found[r] = <<>> /\ found'[r] = <<>> /\ batch'[r] = rest /\ pc'[r] \in {"idle", "publish"}
    BY <1>1 DEF RelayRows
  <2>2. CASE pc'[r] = "idle"
    <3>1. rest = <<>>
      <4>1. Len(batch[r]) = 1
        BY <1>1, <2>2
      <4> HIDE DEF rest
      <4> QED BY <1>2, <4>1, EmptySeq
    <3> QED BY <2>1, <2>2, <3>1 DEF RelayRows, InHands, Elements, Distinct
  <2>3. CASE pc'[r] = "publish"
    <3>1. rest # <<>>
      <4>1. Len(batch[r]) # 1 /\ Len(batch[r]) \in Nat
        BY <1>1, <2>3
      <4> HIDE DEF rest
      <4> QED BY <1>2, <4>1
    <3>2. \A x \in Elements(rest) : /\ x \notin Elements(queue) /\ x # e /\ x \in Event
                                    /\ row[x] \in {"processing", "published"}
      BY <1>1, <1>2, ElementsType DEF RelayRows, InHands
    <3>3. \A x \in Elements(rest) : /\ x \notin Elements(queue)
                                    /\ row'[x] \in {"processing", "published"}
      BY <1>5, <3>2
    <3>4. Distinct(<<>>) /\ Elements(<<>>) = {}
      BY DEF Distinct, Elements
    <3> HIDE DEF rest
    <3> QED BY <1>1, <1>2, <2>1, <2>3, <3>1, <3>3, <3>4 DEF RelayRows, InHands
  <2> QED BY <2>1, <2>2, <2>3
<1>9. ASSUME NEW s \in Relay \ {r} PROVE RelayRows(s)'
  <2>1. \A x \in Elements(batch[s]) : row'[x] = row[x]
    <3>1. Elements(batch[s]) \subseteq Event
      BY ElementsType
    <3> QED BY <1>4, <1>5, <3>1
  <2>2. pc'[s] = pc[s] /\ batch'[s] = batch[s]
    BY <1>1
  <2> QED BY <1>1, <2>1, <2>2 DEF RelayRows, InHands
<1> QED BY <1>6, <1>7, <1>8, <1>9

\* A markPublished that fails may have taken effect: the event is in its topic.
LEMMA MarkPublishedFailsInv ==
    ASSUME RelayInv, NEW r \in Relay, MarkPublishedFails(r)
    PROVE  RelayInv'
<1> USE DEF RelayInv, TypeOK, RowStatus
<1> DEFINE e == Head(batch[r])
<1>1. /\ pc[r] = "mark" /\ batch[r] # <<>> /\ e \in appended
      /\ UNCHANGED <<queue, appended, mode, found, batch, stops>>
      /\ pc' = [pc EXCEPT ![r] = "fail"]
  BY DEF MarkPublishedFails, RelayRows, InHands
<1>2. e \in Event /\ e \in Elements(batch[r])
  BY <1>1, TailElements, ElementsType
<1>3. /\ row' \in [Event -> RowStatus]
      /\ \A x \in Event : row'[x] = row[x] \/ (x = e /\ row'[x] = "published")
  <2>1. row' = row \/ row' = [row EXCEPT ![e] = "published"]
    BY DEF MarkPublishedFails
  <2> QED BY <1>2, <2>1
<1>4. e \notin Elements(queue)
  BY <1>1, <1>2 DEF RelayRows, InHands
<1>5. TypeOK' /\ PublishedIsAppended' /\ QueueRows'
  BY <1>1, <1>3, <1>4, ElementsType DEF PublishedIsAppended, QueueRows
<1>6. ASSUME NEW s \in Relay PROVE RelayRows(s)'
  <2>1. \A x \in Elements(batch[s]) : row'[x] = row[x] \/ row'[x] = "published"
    BY <1>3, ElementsType
  <2>2. pc'[s] \in InHands <=> pc[s] \in InHands
    BY <1>1 DEF InHands
  <2>3. pc[s] \in {"idle", "lock"} => pc'[s] = pc[s]
    BY <1>1
  <2> QED BY <1>1, <2>1, <2>2, <2>3 DEF RelayRows, InHands
<1> QED BY <1>1, <1>5, <1>6 DEF BatchesDiffer

\* An instance that stops forgets its rows; nothing else changes.
LEMMA HaltInv ==
    ASSUME RelayInv, NEW r \in Relay, Stop(r) \/ Exit(r) \/ Crash(r) \/ Start(r)
    PROVE  RelayInv'
<1> USE DEF RelayInv, TypeOK
<1>1. UNCHANGED <<row, queue, appended>> /\ mode' \in [Relay -> {"up", "stopping", "down"}]
      /\ stops' \in 0..MaxStops
  <2>1. UNCHANGED <<row, queue, appended>>
    BY DEF Stop, Exit, Crash, Start, Halt
  <2>2. stops' = stops \/ (stops < MaxStops /\ stops' = stops + 1)
    <3>1. Stop(r) => stops < MaxStops /\ stops' = stops + 1
      BY DEF Stop
    <3>2. Crash(r) => stops < MaxStops /\ stops' = stops + 1
      BY DEF Crash
    <3>3. Exit(r) \/ Start(r) => stops' = stops
      BY DEF Exit, Start
    <3> QED BY <3>1, <3>2, <3>3
  <2>3. \E m \in {"up", "stopping", "down"} : mode' = [mode EXCEPT ![r] = m]
    BY DEF Stop, Exit, Crash, Start, Halt
  <2> QED BY BoundAssumption, <2>1, <2>2, <2>3
<1>2. \/ UNCHANGED <<pc, found, batch>>
      \/ /\ pc' = [pc EXCEPT ![r] = "idle"]
         /\ found' = [found EXCEPT ![r] = <<>>]
         /\ batch' = [batch EXCEPT ![r] = <<>>]
  BY DEF Stop, Exit, Crash, Start, Halt
<1>3. Elements(<<>>) = {} /\ Distinct(<<>>) /\ <<>> \in Seq(Event)
  BY DEF Elements, Distinct
<1>4. /\ pc' \in [Relay -> {"idle", "lock", "publish", "mark", "fail"}]
      /\ found' \in [Relay -> Seq(Event)] /\ batch' \in [Relay -> Seq(Event)]
  <2>1. CASE UNCHANGED <<pc, found, batch>>
    BY <2>1
  <2>2. CASE ~UNCHANGED <<pc, found, batch>>
    <3> HIDE DEF TypeOK
    <3>1. /\ pc \in [Relay -> {"idle", "lock", "publish", "mark", "fail"}]
          /\ found \in [Relay -> Seq(Event)] /\ batch \in [Relay -> Seq(Event)]
      BY DEF TypeOK
    <3>2. /\ pc' = [pc EXCEPT ![r] = "idle"]
          /\ found' = [found EXCEPT ![r] = <<>>]
          /\ batch' = [batch EXCEPT ![r] = <<>>]
      BY <1>2, <2>2
    <3>3. pc' \in [Relay -> {"idle", "lock", "publish", "mark", "fail"}]
      BY <3>1, <3>2
    <3>4. found' \in [Relay -> Seq(Event)] /\ batch' \in [Relay -> Seq(Event)]
      BY <1>3, <3>1, <3>2
    <3> QED BY <3>3, <3>4
  <2> QED BY <2>1, <2>2
<1>5. TypeOK'
  BY <1>1, <1>4
<1>6. \A s \in Relay :
        \/ pc'[s] = pc[s] /\ found'[s] = found[s] /\ batch'[s] = batch[s]
        \/ pc'[s] = "idle" /\ found'[s] = <<>> /\ batch'[s] = <<>>
  BY <1>2
<1> HIDE DEF TypeOK
<1>7. ASSUME NEW s \in Relay PROVE RelayRows(s)'
  <2>1. CASE pc'[s] = pc[s] /\ found'[s] = found[s] /\ batch'[s] = batch[s]
    BY <1>1, <2>1 DEF RelayRows, InHands
  <2>2. CASE pc'[s] = "idle" /\ found'[s] = <<>> /\ batch'[s] = <<>>
    BY <1>3, <2>2 DEF RelayRows, InHands
  <2> QED BY <1>6, <2>1, <2>2
<1>8. BatchesDiffer'
  BY <1>3, <1>6 DEF BatchesDiffer
<1> QED BY <1>1, <1>5, <1>7, <1>8 DEF PublishedIsAppended, QueueRows

LEMMA InitInv ==
    ASSUME Init
    PROVE  RelayInv
<1>1. Elements(<<>>) = {} /\ Distinct(<<>>) /\ <<>> \in Seq(Event)
  BY DEF Elements, Distinct
<1>2. TypeOK
  BY <1>1, BoundAssumption DEF Init, TypeOK, RowStatus
<1> QED BY <1>1, <1>2 DEF Init, RelayInv, QueueRows, RelayRows, InHands, BatchesDiffer,
                          PublishedIsAppended

LEMMA StepInv ==
    ASSUME RelayInv, [Next]_vars
    PROVE  RelayInv'
<1>1. CASE Next
  BY <1>1, QueueGrows, TickInv, LockRowInv, ClaimInv, PublishInv, AdvanceInv,
     MarkPublishedFailsInv, HaltInv DEF Next, Work
<1>2. CASE UNCHANGED vars
  <2> USE <1>2 DEF vars, relayVars, RelayInv
  <2>1. TypeOK' /\ PublishedIsAppended'
    BY DEF TypeOK, PublishedIsAppended
  <2>2. QueueRows' /\ BatchesDiffer'
    BY DEF QueueRows, BatchesDiffer
  <2>3. \A r \in Relay : RelayRows(r)'
    BY DEF RelayRows
  <2> QED BY <2>1, <2>2, <2>3
<1> QED BY <1>1, <1>2

\* In every reachable state the rows of the relays and of the queue are as
\* RelayInv says.
THEOREM RelayInvCorrect == Spec => []RelayInv
BY InitInv, StepInv, PTL DEF Spec

\* Every status, phase and batch of the relays is one that the code can store.
THEOREM TypeCorrect == Spec => []TypeOK
<1>1. RelayInv => TypeOK
  BY DEF RelayInv
<1> QED BY <1>1, RelayInvCorrect, PTL

\* A row is marked published only when its event is in the topic, whatever
\* relays crash and whatever calls are refused or take effect unseen.
THEOREM PublishedAreAppended == Spec => []PublishedIsAppended
<1>1. RelayInv => PublishedIsAppended
  BY DEF RelayInv
<1> QED BY <1>1, RelayInvCorrect, PTL

\* No two relays have a row in hand, and none can claim a row that is.
THEOREM ClaimsAreExclusive == Spec => []ExclusiveClaim
<1>1. RelayInv => ExclusiveClaim
  <2> SUFFICES ASSUME RelayInv, NEW r \in Relay
               PROVE  /\ InHand(r) \cap Elements(queue) = {}
                      /\ \A s \in Relay \ {r} : InHand(r) \cap InHand(s) = {}
    BY DEF ExclusiveClaim
  <2>1. InHand(r) \cap Elements(queue) = {}
    <3>1. CASE pc[r] = "lock"
      BY <3>1 DEF InHand
    <3>2. CASE pc[r] = "idle"
      BY <3>2 DEF RelayInv, RelayRows, InHand, Elements
    <3>3. CASE pc[r] \in InHands
      BY <3>3 DEF RelayInv, RelayRows, InHand, InHands
    <3> QED BY <3>1, <3>2, <3>3 DEF RelayInv, TypeOK, InHands
  <2>2. \A s \in Relay \ {r} : InHand(r) \cap InHand(s) = {}
    BY DEF RelayInv, BatchesDiffer, InHand
  <2> QED BY <2>1, <2>2
<1> QED BY <1>1, RelayInvCorrect, PTL
-----------------------------------------------------------------------------
(* Rows that nobody deals with. *)

\* Until an instance stops, all of them run and each processing row is in the
\* batch of one.
NoOrphans ==
    stops = 0 => /\ \A r \in Relay : mode[r] = "up"
                 /\ \A e \in Event : row[e] = "processing" =>
                        \E r \in Relay : e \in Elements(batch[r])

\* A step that loses a processing row is one by which an instance stops.
LEMMA NoOrphansStep ==
    ASSUME RelayInv, NoOrphans, [Next]_vars
    PROVE  NoOrphans'
<1> USE DEF RelayInv, TypeOK, RowStatus
<1>1. ASSUME UNCHANGED <<mode, batch, stops>>,
             \A e \in Event : row'[e] = "processing" => row[e] = "processing"
      PROVE  NoOrphans'
  BY <1>1 DEF NoOrphans
<1>2. ASSUME NEW e \in Event, Insert(e) \/ ComeDue(e) PROVE NoOrphans'
  BY <1>1, <1>2 DEF Insert, ComeDue, relayVars
<1>3. ASSUME NEW r \in Relay, Deliver(r) \/ PublishFails(r) \/ Tick(r) \/ MarkPublishedFails(r)
      PROVE  NoOrphans'
  BY <1>1, <1>3 DEF Deliver, Publish, PublishUnacknowledged, PublishFails, Tick,
                    MarkPublishedFails
<1>4. ASSUME NEW r \in Relay, LockRow(r) PROVE NoOrphans'
  <2>1. Elements(batch[r]) \subseteq Elements(batch'[r])
    <3>1. Head(found[r]) \in Event
      BY <1>4, TailElements, ElementsType DEF LockRow
    <3> QED BY <1>4, <3>1, AppendElements DEF LockRow
  <2> QED BY <1>4, <2>1 DEF LockRow, NoOrphans
<1>5. ASSUME NEW r \in Relay, Claim(r) PROVE NoOrphans'
  BY <1>5 DEF Claim, NoOrphans
<1>6. ASSUME NEW r \in Relay, MarkPublished(r) \/ MarkFailed(r) PROVE NoOrphans'
  <2> DEFINE e == Head(batch[r])
  <2>1. batch[r] # <<>>
    BY <1>6 DEF MarkPublished, MarkFailed, RelayRows, InHands
  <2>2. Elements(batch[r]) = Elements(Tail(batch[r])) \cup {e} /\ e \in Event
    BY <2>1, TailElements, ElementsType
  <2>3. /\ batch' = [batch EXCEPT ![r] = Tail(@)] /\ UNCHANGED <<mode, stops>>
        /\ row'[e] # "processing" /\ \A x \in Event \ {e} : row'[x] = row[x]
    BY <1>6, <2>2 DEF MarkPublished, MarkFailed, Advance
  <2>4. \A s \in Relay : \A x \in Elements(batch[s]) : x = e \/ x \in Elements(batch'[s])
    BY <2>2, <2>3
  <2> QED BY <2>3, <2>4 DEF NoOrphans
<1>7. ASSUME NEW r \in Relay, Stop(r) \/ Crash(r) PROVE NoOrphans'
  <2>1. stops' # 0
    BY <1>7 DEF Stop, Crash
  <2> QED BY <2>1 DEF NoOrphans
<1>8. ASSUME NEW r \in Relay, Exit(r) \/ Start(r) PROVE NoOrphans'
  BY <1>8 DEF Exit, Start, NoOrphans
<1>9. ASSUME UNCHANGED vars PROVE NoOrphans'
  BY <1>1, <1>9 DEF vars, relayVars
<1> QED BY <1>2, <1>3, <1>4, <1>5, <1>6, <1>7, <1>8, <1>9 DEF Next, Work

\* No refused call, lost acknowledgement or race between relays leaves a row
\* that is processing for ever: only an instance that stops does.
THEOREM OrphansComeFromStops == Spec => []OrphanedByStopOnly
<1>1. Init => NoOrphans
  BY DEF Init, NoOrphans
<1>2. RelayInv /\ NoOrphans /\ [Next]_vars => NoOrphans'
  BY NoOrphansStep
<1>3. NoOrphans => OrphanedByStopOnly
  BY DEF NoOrphans, OrphanedByStopOnly, Orphaned
<1> QED BY <1>1, <1>2, <1>3, RelayInvCorrect, PTL DEF Spec
=============================================================================
