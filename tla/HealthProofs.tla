---------------------------- MODULE HealthProofs ----------------------------
(***************************************************************************)
(* Theorems about Health for any number of streams, providers and probe    *)
(* loops, any budgets, headroom, concurrency and breaker.                  *)
(***************************************************************************)
EXTENDS Health, FiniteSetTheorems, FunctionTheorems, SequenceTheorems, WellFoundedInduction,
        TLAPS

\* The queue holds every stream, once: the streams of a batch are different ones.
QueueIsWhole ==
  /\ \A i, j \in DOMAIN order : order[i] = order[j] => i = j
  /\ \A s \in Streams : \E i \in DOMAIN order : order[i] = s

\* A loop has probes under way only while it waits for them.
ProbesAreAwaited == \A l \in Loops : /\ at[l] # "probing" => probes[l] = {}
                                     /\ hung[l] \subseteq probes[l]

\* The probes of p that are still to answer in time.
Sampling(p) == {x \in Probing(p) : x[2] \notin hung[x[1]]}

\* What the windows that are over may have cost.
Spent(p) == windows[p] * Window(p)

\* Before the breaker trips it counts what a window condemns; when it trips the last
\* probes under way are all that may still condemn in this one.
BreakerCounts ==
  \A p \in Providers :
    /\ breaker[p] = "closed" =>
         condemned[p] <= Spent(p) + streak[p] /\ streak[p] < BREAKER_TRIP_STREAK
    /\ breaker[p] = "elapsed" => Sampling(p) = {}
    /\ breaker[p] # "closed" =>
         condemned[p] + Cardinality(Sampling(p)) <= Spent(p) + Window(p)

HealthInv == /\ TypeOK /\ QueueIsWhole /\ ProbesAreAwaited /\ max = Budget
             /\ ProbesArePolite /\ BreakerCounts

\* Its parts that the steps disturb separately.
PoolInv    == /\ PoolTypeOK /\ viewing \in [Providers -> Nat] /\ blocked \subseteq Providers
              /\ max = Budget
QueueInv   == order \in Seq(Streams) /\ due \in 0 .. Len(order) /\ QueueIsWhole
BreakerInv == /\ streak \in [Providers -> 0 .. BREAKER_TRIP_STREAK]
              /\ breaker \in [Providers -> {"closed", "open", "elapsed"}]
              /\ condemned \in [Providers -> Nat]
              /\ windows \in [Providers -> 0 .. MAX_WINDOWS]
LoopInv    == /\ current \in Loops /\ at \in [Loops -> Places]
              /\ probes \in [Loops -> SUBSET Streams] /\ hung \in [Loops -> SUBSET Streams]
              /\ strikes \in 0 .. MAX_STRIKES /\ wedges \in 0 .. MAX_STRIKES + 1
              /\ ProbesAreAwaited

LEMMA InvParts ==
  HealthInv <=> PoolInv /\ QueueInv /\ BreakerInv /\ LoopInv /\ ProbesArePolite /\ BreakerCounts
BY DEF HealthInv, TypeOK, PoolInv, QueueInv, BreakerInv, LoopInv

LEMMA InvPartsAgain ==
  HealthInv' <=> /\ PoolInv' /\ QueueInv' /\ BreakerInv' /\ LoopInv'
                 /\ ProbesArePolite' /\ BreakerCounts'
BY InvParts, PTL

-----------------------------------------------------------------------------
(* The queue.                                                              *)

LEMMA QueueStarts ==
  ASSUME order \in SetToSeqs(Streams), due = Len(order)
  PROVE  /\ order \in Seq(Streams) /\ due \in 0 .. Len(order)
         /\ QueueIsWhole
<1> DEFINE n == Cardinality(Streams)
<1>1. n \in Nat /\ IsFiniteSet(Streams)
  BY FS_CardinalityType, HealthAssumption
<1>2. order \in [1 .. n -> Streams] /\ \A i, j \in 1 .. n : order[i] = order[j] => i = j
  BY DEF SetToSeqs
<1>3. order \in Seq(Streams) /\ Len(order) = n /\ DOMAIN order = 1 .. n
  BY <1>1, <1>2, LenProperties, SeqDef
<1>4. order \in Injection(1 .. n, Streams)
  BY <1>2, Fun_IsInj
<1>5. Cardinality(1 .. n) = n
  BY <1>1, FS_Interval
<1>6. order \in Surjection(1 .. n, Streams)
  BY <1>1, <1>4, <1>5, FS_Injection
<1>7. \A s \in Streams : \E i \in 1 .. n : order[i] = s
  BY <1>6 DEF Surjection
<1>8. due \in 0 .. Len(order)
  <2>1. Len(order) \in 0 .. Len(order)
    BY <1>1, <1>3
  <2>. QED
    BY <2>1
<1> HIDE DEF n
<1>9. QueueIsWhole
  BY <1>2, <1>3, <1>7 DEF QueueIsWhole
<1>. QED
  BY <1>3, <1>8, <1>9

\* A stream that was probed goes to the end.
LEMMA QueueMoves ==
  ASSUME order \in Seq(Streams), due \in 0 .. Len(order), QueueIsWhole,
         NEW s \in Streams, Probed(s)
  PROVE  /\ order' \in Seq(Streams) /\ due' \in 0 .. Len(order')
         /\ QueueIsWhole'
<1> DEFINE n == Len(order)
           i == CHOOSE j \in DOMAIN order : order[j] = s
           front == SubSeq(order, 1, i - 1)
           back == SubSeq(order, i + 1, n)
           rest == front \o back
<1>1. n \in Nat /\ DOMAIN order = 1 .. n /\ \A j \in 1 .. n : order[j] \in Streams
  BY LenProperties, ElementOfSeq
<1>2. i \in 1 .. n /\ order[i] = s
  BY <1>1 DEF QueueIsWhole
<1>3. /\ order' = Append(rest, s)
      /\ due' = IF i <= due THEN due - 1 ELSE due
  BY DEF Probed, RemoveAt
<1> HIDE DEF i
<1>4. /\ front \in Seq(Streams) /\ Len(front) = i - 1
      /\ \A j \in 1 .. i - 1 : front[j] = order[j]
  <2>1. \A j \in 1 .. i - 1 : order[j] \in Streams
    BY <1>1, <1>2
  <2>. QED
    BY <1>1, <1>2, <2>1, SubSeqProperties, Z3
<1>5. /\ back \in Seq(Streams) /\ Len(back) = n - i
      /\ \A j \in 1 .. n - i : back[j] = order[i + j]
  <2>1. \A j \in i + 1 .. n : order[j] \in Streams
    BY <1>1, <1>2
  <2>2. /\ back \in Seq(Streams)
        /\ Len(back) = IF i + 1 <= n THEN n - (i + 1) + 1 ELSE 0
        /\ \A j \in 1 .. n - (i + 1) + 1 : back[j] = order[i + 1 + j - 1]
    BY <1>1, <1>2, <2>1, SubSeqProperties, Z3
  <2> HIDE DEF n, back
  <2>3. n - (i + 1) + 1 = n - i
    BY <1>1, <1>2
  <2>4. i + 1 <= n \/ n - i = 0
    BY <1>1, <1>2
  <2>5. \A j \in 1 .. n - i : i + 1 + j - 1 = i + j
    BY <1>1, <1>2
  <2>. QED
    BY <2>2, <2>3, <2>4, <2>5
<1> HIDE DEF front, back, n
<1>6. /\ rest \in Seq(Streams) /\ Len(rest) = n - 1
      /\ \A j \in 1 .. n - 1 : rest[j] = IF j < i THEN order[j] ELSE order[j + 1]
  <2>1. /\ rest \in Seq(Streams) /\ Len(rest) = Len(front) + Len(back)
        /\ \A j \in 1 .. Len(front) + Len(back) :
             rest[j] = IF j <= Len(front) THEN front[j] ELSE back[j - Len(front)]
    BY <1>4, <1>5, ConcatProperties
  <2> HIDE DEF rest
  <2>2. Len(front) = i - 1 /\ Len(front) + Len(back) = n - 1
    BY <1>1, <1>2, <1>4, <1>5
  <2>4. \A j \in 1 .. n - 1 : rest[j] = IF j <= i - 1 THEN front[j] ELSE back[j - (i - 1)]
    BY <2>1, <2>2
  <2>3. ASSUME NEW j \in 1 .. n - 1
        PROVE  rest[j] = IF j < i THEN order[j] ELSE order[j + 1]
    <3>1. CASE j < i
      BY <1>1, <1>2, <1>4, <2>4, <3>1
    <3>2. CASE j >= i
      <4>1. j - (i - 1) \in 1 .. n - i /\ i + (j - (i - 1)) = j + 1
        BY <1>1, <1>2, <3>2
      <4>2. rest[j] = back[j - (i - 1)]
        BY <1>1, <1>2, <2>4, <3>2
      <4>. QED
        BY <1>1, <1>2, <1>5, <3>2, <4>1, <4>2
    <3>. QED
      BY <1>1, <1>2, <3>1, <3>2
  <2>. QED
    BY <2>1, <2>2, <2>3
<1> HIDE DEF rest
<1>7. /\ order' \in Seq(Streams) /\ Len(order') = n
      /\ \A j \in 1 .. n - 1 : order'[j] = rest[j]
      /\ order'[n] = s
  <2>1. /\ Append(rest, s) \in Seq(Streams) /\ Len(Append(rest, s)) = Len(rest) + 1
        /\ \A j \in 1 .. Len(rest) : Append(rest, s)[j] = rest[j]
        /\ Append(rest, s)[Len(rest) + 1] = s
    BY <1>6, AppendProperties
  <2>. QED
    BY <1>1, <1>2, <1>3, <1>6, <2>1
<1>8. DOMAIN order' = 1 .. n
  BY <1>7, LenProperties
<1>9. \A j \in 1 .. n :
        order'[j] = IF j = n THEN s ELSE IF j < i THEN order[j] ELSE order[j + 1]
  BY <1>1, <1>2, <1>6, <1>7
<1>10. due' \in 0 .. Len(order')
  BY <1>1, <1>2, <1>3, <1>7 DEF n
<1>11. \A j, k \in 1 .. n : order'[j] = order'[k] => j = k
  <2>1. \A j, k \in 1 .. n : order[j] = order[k] => j = k
    BY <1>1 DEF QueueIsWhole
  <2> SUFFICES ASSUME NEW j \in 1 .. n, NEW k \in 1 .. n, order'[j] = order'[k]
               PROVE  j = k
    OBVIOUS
  <2> DEFINE From(m) == IF m = n THEN i ELSE IF m < i THEN m ELSE m + 1
  <2>2. From(j) \in 1 .. n /\ From(k) \in 1 .. n
    BY <1>1, <1>2
  <2>3. order'[j] = order[From(j)] /\ order'[k] = order[From(k)]
    BY <1>2, <1>9
  <2>4. From(j) = From(k)
    BY <2>1, <2>2, <2>3
  <2>. QED
    BY <1>1, <1>2, <2>4
<1>12. ASSUME NEW t \in Streams PROVE \E j \in 1 .. n : order'[j] = t
  <2>1. PICK j \in 1 .. n : order[j] = t
    BY <1>1 DEF QueueIsWhole
  <2>2. CASE j < i
    <3>1. j \in 1 .. n /\ j # n
      BY <1>1, <1>2, <2>2
    <3>. QED
      BY <1>9, <2>1, <2>2, <3>1
  <2>3. CASE j = i
    <3>1. n \in 1 .. n
      BY <1>1, <1>2
    <3>. QED
      BY <1>2, <1>9, <2>1, <2>3, <3>1
  <2>4. CASE j > i
    <3>1. j - 1 \in 1 .. n /\ j - 1 # n /\ ~(j - 1 < i) /\ j - 1 + 1 = j
      BY <1>1, <1>2, <2>4
    <3>2. order'[j - 1] = order[j]
      BY <1>9, <3>1
    <3>. QED
      BY <2>1, <3>1, <3>2
  <2>. QED
    BY <1>1, <1>2, <2>1, <2>2, <2>3, <2>4
<1>. QED
  BY <1>7, <1>8, <1>10, <1>11, <1>12 DEF QueueIsWhole

-----------------------------------------------------------------------------
(* How many probes an iteration may start.                                 *)

LEMMA LargestExists ==
  ASSUME NEW n \in Nat, NEW T, T \subseteq 1 .. n, T # {}
  PROVE  \E i \in T : \A j \in T : j <= i
<1> DEFINE D == {n - i : i \in T}
<1>1. D \subseteq Nat /\ D # {}
  <2>1. \A i \in T : n - i \in Nat
    OBVIOUS
  <2>2. PICK i \in T : TRUE
    OBVIOUS
  <2>3. n - i \in D
    BY <2>2
  <2>. QED
    BY <2>1, <2>3
<1>2. PICK x \in D : \A y \in D : ~ (<<y, x>> \in OpToRel(<, Nat))
  BY <1>1, NatLessThanWellFounded, WFMin
<1>3. PICK i \in T : x = n - i
  OBVIOUS
<1>4. ASSUME NEW j \in T PROVE j <= i
  <2>1. n - j \in D /\ n - j \in Nat /\ n - i \in Nat
    BY <1>1, <1>3
  <2>2. ~ (<<n - j, n - i>> \in OpToRel(<, Nat))
    BY <1>2, <1>3, <2>1
  <2>3. ~ (n - j < n - i)
    BY <2>1, <2>2 DEF OpToRel
  <2>4. i \in Nat /\ j \in Nat
    OBVIOUS
  <2> HIDE DEF D
  <2>. QED
    BY <2>3, <2>4
<1>. QED
  BY <1>4

\* The places in the queue from which an iteration starts a probe of p.
Wave(p) == {i \in Batch : Admitted(i) /\ ProviderAt(i) = p}

LEMMA BatchIsQueued ==
  ASSUME order \in Seq(Streams), due \in 0 .. Len(order)
  PROVE  /\ Len(order) \in Nat /\ Batch \subseteq 1 .. Len(order)
         /\ DOMAIN order = 1 .. Len(order)
         /\ \A i \in 1 .. Len(order) : order[i] \in Streams /\ ProviderAt(i) \in Providers
<1>1. Len(order) \in Nat /\ DOMAIN order = 1 .. Len(order)
      /\ \A i \in 1 .. Len(order) : order[i] \in Streams
  BY LenProperties, ElementOfSeq
<1>2. Batch \subseteq 1 .. Len(order)
  BY <1>1, HealthAssumption DEF Batch
<1>. QED
  BY <1>1, <1>2, HealthAssumption DEF ProviderAt

LEMMA WaveIsFinite ==
  ASSUME order \in Seq(Streams), due \in 0 .. Len(order), NEW p
  PROVE  IsFiniteSet(Wave(p)) /\ Cardinality(Wave(p)) \in Nat /\ Wave(p) \subseteq Batch
<1>1. Wave(p) \in SUBSET (1 .. Len(order)) /\ Wave(p) \subseteq Batch /\ Len(order) \in Nat
  BY BatchIsQueued DEF Wave
<1>2. IsFiniteSet(1 .. Len(order))
  BY <1>1, FS_Interval
<1>. QED
  BY <1>1, <1>2, FS_Subset, FS_CardinalityType

\* The last probe that is admitted has counted all the others.
LEMMA WaveFits ==
  ASSUME TypeOK, max = Budget, NEW p \in Providers, Wave(p) # {}
  PROVE  used[p] + Cardinality(Wave(p)) <= Capacity(p)
<1> DEFINE W == Wave(p)
<1>1. order \in Seq(Streams) /\ due \in 0 .. Len(order) /\ used[p] \in Nat
  BY DEF TypeOK, PoolTypeOK
<1>2. /\ Len(order) \in Nat /\ W \subseteq 1 .. Len(order)
      /\ IsFiniteSet(W) /\ Cardinality(W) \in Nat
  BY <1>1, BatchIsQueued, WaveIsFinite
<1>3. PICK i \in W : \A j \in W : j <= i
  BY <1>2, LargestExists
<1> DEFINE A == {j \in 1 .. i - 1 : ProviderAt(j) = ProviderAt(i)}
<1>4. i \in 1 .. Len(order) /\ Admitted(i) /\ ProviderAt(i) = p
  BY <1>2, <1>3 DEF Wave
<1>5. IsFiniteSet(A) /\ Cardinality(A) \in Nat
  <2>1. IsFiniteSet(1 .. i - 1)
    BY <1>2, <1>4, FS_Interval
  <2>2. A \in SUBSET (1 .. i - 1)
    OBVIOUS
  <2>. QED
    BY <2>1, <2>2, FS_Subset, FS_CardinalityType
<1>6. W \ {i} \in SUBSET A
  <2>1. \A j \in W : j \in 1 .. Len(order) /\ ProviderAt(j) = p /\ j <= i
    BY <1>2, <1>3 DEF Wave
  <2>2. \A j \in W \ {i} : j \in 1 .. i - 1
    BY <1>2, <1>4, <2>1
  <2>. QED
    BY <1>4, <2>1, <2>2
<1>7. Cardinality(W \ {i}) = Cardinality(W) - 1
  BY <1>2, <1>3, FS_RemoveElement
<1>8. Cardinality(W) - 1 <= Cardinality(A)
  BY <1>5, <1>6, <1>7, FS_Subset
<1>9. used[p] + Cardinality(A) + HEADROOM_SLOTS < Budget[p]
  BY <1>4 DEF Admitted, Ahead
<1> HIDE DEF W, A
<1>10. Budget[p] \in Nat /\ HEADROOM_SLOTS \in Nat
  BY HealthAssumption
<1>11. used[p] + Cardinality(W) <= Budget[p] - HEADROOM_SLOTS
       /\ Budget[p] > HEADROOM_SLOTS /\ Budget[p] \in Nat
  <2>1. \A u, w, a, b, h \in Nat :
          w - 1 <= a /\ u + a + h < b => u + w <= b - h /\ (w > 0 => b > h)
    OBVIOUS
  <2>2. Cardinality(W) > 0
    BY <1>2, <1>3, FS_EmptySet
  <2>. QED
    BY <1>1, <1>2, <1>5, <1>8, <1>9, <1>10, <2>1, <2>2
<1>. QED
  BY <1>11 DEF Capacity, LessSlots, W

-----------------------------------------------------------------------------
(* The probes under way.                                                   *)

LEMMA ProbingMembers ==
  probes \in [Loops -> SUBSET Streams]
  => \A p : /\ Probing(p) \in SUBSET (Loops \X Streams)
            /\ \A l \in Loops, s \in Streams :
                 <<l, s>> \in Probing(p) <=> s \in probes[l] /\ ProviderOf[s] = p
BY DEF Probing

LEMMA ProbingIsFinite ==
  ASSUME probes \in [Loops -> SUBSET Streams]
  PROVE  \A p : IsFiniteSet(Probing(p)) /\ Cardinality(Probing(p)) \in Nat
<1>1. IsFiniteSet(Loops \X Streams)
  BY FS_Product, HealthAssumption
<1>2. \A p : Probing(p) \in SUBSET (Loops \X Streams)
  BY ProbingMembers
<1>. QED
  BY <1>1, <1>2, FS_Subset, FS_CardinalityType

LEMMA SamplingMembers ==
  probes \in [Loops -> SUBSET Streams]
  => \A p : /\ Sampling(p) \in SUBSET Probing(p)
            /\ \A l \in Loops, s \in Streams :
                 <<l, s>> \in Sampling(p) <=> s \in probes[l] \ hung[l] /\ ProviderOf[s] = p
BY ProbingMembers DEF Sampling

LEMMA ProbingMembersAgain ==
  probes' \in [Loops -> SUBSET Streams]
  => \A p : /\ Probing(p)' \in SUBSET (Loops \X Streams)
            /\ \A l \in Loops, s \in Streams :
                 <<l, s>> \in Probing(p)' <=> s \in probes'[l] /\ ProviderOf[s] = p
BY DEF Probing

LEMMA SamplingMembersAgain ==
  probes' \in [Loops -> SUBSET Streams]
  => \A p : /\ Sampling(p)' \in SUBSET Probing(p)'
            /\ \A l \in Loops, s \in Streams :
                 <<l, s>> \in Sampling(p)' <=> s \in probes'[l] \ hung'[l] /\ ProviderOf[s] = p
BY ProbingMembersAgain DEF Sampling

LEMMA SamplingIsFinite ==
  ASSUME probes \in [Loops -> SUBSET Streams]
  PROVE  \A p : /\ IsFiniteSet(Sampling(p)) /\ Cardinality(Sampling(p)) \in Nat
                /\ Cardinality(Sampling(p)) <= Cardinality(Probing(p))
BY ProbingIsFinite, SamplingMembers, FS_Subset, FS_CardinalityType

\* Samples that end, or hang, are not counted any more.
LEMMA FewerSamples ==
  ASSUME probes \in [Loops -> SUBSET Streams], probes' \in [Loops -> SUBSET Streams],
         \A l \in Loops : probes'[l] \ hung'[l] \subseteq probes[l] \ hung[l]
  PROVE  \A p : /\ Sampling(p)' \in SUBSET Sampling(p)
                /\ Cardinality(Sampling(p)') \in Nat
                /\ Cardinality(Sampling(p)') <= Cardinality(Sampling(p))
<1>1. ASSUME NEW p, NEW x \in Sampling(p)' PROVE x \in Sampling(p)
  <2>1. PICK l \in Loops, s \in Streams : x = <<l, s>>
    BY ProbingMembersAgain, SamplingMembersAgain
  <2>. QED
    BY <2>1, SamplingMembers, SamplingMembersAgain
<1>2. \A p : Sampling(p)' \in SUBSET Sampling(p)
  BY <1>1
<1>. QED
  BY <1>2, SamplingIsFinite, FS_Subset, FS_CardinalityType

\* One probe ends.
LEMMA OneProbeLess ==
  ASSUME probes \in [Loops -> SUBSET Streams], NEW l \in Loops, NEW s \in probes[l],
         probes' = [probes EXCEPT ![l] = @ \ {s}]
  PROVE  /\ \A p : p # ProviderOf[s] => Probing(p)' = Probing(p)
         /\ LET p == ProviderOf[s]
            IN  /\ Cardinality(Probing(p)) \in Nat \ {0}
                /\ Cardinality(Probing(p)') = Cardinality(Probing(p)) - 1
<1> DEFINE q == ProviderOf[s]
<1>1. s \in Streams /\ probes' \in [Loops -> SUBSET Streams]
  OBVIOUS
<1>2. \A m \in Loops, t \in Streams :
        t \in probes'[m] <=> t \in probes[m] /\ <<m, t>> # <<l, s>>
  OBVIOUS
<1>3. ASSUME NEW p
      PROVE  Probing(p)' = Probing(p) \ {<<l, s>>}
  <2>1. \A x : x \in Probing(p)' => \E m \in Loops, t \in Streams : x = <<m, t>>
    BY <1>1, ProbingMembersAgain
  <2>2. \A x : x \in Probing(p) => \E m \in Loops, t \in Streams : x = <<m, t>>
    BY ProbingMembers
  <2>3. \A m \in Loops, t \in Streams :
          <<m, t>> \in Probing(p)' <=> <<m, t>> \in Probing(p) \ {<<l, s>>}
    BY <1>1, <1>2, ProbingMembers, ProbingMembersAgain
  <2>. QED
    BY <2>1, <2>2, <2>3
<1>4. <<l, s>> \in Probing(q) /\ \A p : p # q => <<l, s>> \notin Probing(p)
  BY <1>1, ProbingMembers
<1>5. IsFiniteSet(Probing(q)) /\ Cardinality(Probing(q)) \in Nat
  BY ProbingIsFinite
<1> HIDE DEF q
<1>6. Cardinality(Probing(q) \ {<<l, s>>}) = Cardinality(Probing(q)) - 1
  <2> DEFINE P == Probing(q)
             x == <<l, s>>
  <2>1. IsFiniteSet(P) /\ x \in P
    BY <1>4, <1>5
  <2> HIDE DEF P, x
  <2>2. Cardinality(P \ {x}) = Cardinality(P) - 1
    BY <2>1, FS_RemoveElement
  <2>. QED
    BY <2>2 DEF P, x
<1>7. Cardinality(Probing(q)) # 0
  BY <1>4, <1>5, FS_EmptySet
<1>. QED
  BY <1>3, <1>4, <1>5, <1>6, <1>7 DEF q

\* An iteration starts a probe for every place of its waves, each of another stream.
LEMMA WaveStarts ==
  ASSUME QueueInv, LoopInv, NEW l \in Loops, at[l] = "awake",
         probes' = [probes EXCEPT ![l] = {order[i] : i \in {i \in Batch : Admitted(i)}}]
  PROVE  /\ probes' \in [Loops -> SUBSET Streams]
         /\ \A p : Cardinality(Probing(p)') = Cardinality(Probing(p)) + Cardinality(Wave(p))
<1>1. order \in Seq(Streams) /\ due \in 0 .. Len(order) /\ QueueIsWhole
  BY DEF QueueInv
<1>2. probes \in [Loops -> SUBSET Streams] /\ probes[l] = {}
  BY DEF LoopInv, ProbesAreAwaited
<1>3. /\ Batch \subseteq 1 .. Len(order) /\ DOMAIN order = 1 .. Len(order)
      /\ \A i \in 1 .. Len(order) : order[i] \in Streams
  BY <1>1, BatchIsQueued
<1>4. \A s : s \in probes'[l] <=> \E i \in Batch : Admitted(i) /\ order[i] = s
  BY <1>2
<1>5. probes' \in [Loops -> SUBSET Streams]
  BY <1>2, <1>3
<1>6. \A m \in Loops : m # l => probes'[m] = probes[m]
  BY <1>2
<1>7. ASSUME NEW p
      PROVE  Cardinality(Probing(p)') = Cardinality(Probing(p)) + Cardinality(Wave(p))
  <2> DEFINE W == Wave(p)
             New == {<<l, order[i]>> : i \in W}
             F == [i \in W |-> <<l, order[i]>>]
             P == Probing(p)
  <2>1. IsFiniteSet(W) /\ Cardinality(W) \in Nat /\ W \subseteq 1 .. Len(order)
    BY <1>1, <1>3, WaveIsFinite
  <2>2. \A i \in W : i \in Batch /\ Admitted(i) /\ ProviderOf[order[i]] = p
    BY DEF Wave, ProviderAt
  <2>3. \A i \in Batch : Admitted(i) /\ ProviderOf[order[i]] = p => i \in W
    BY DEF Wave, ProviderAt
  <2> HIDE DEF W
  <2>4. F \in [W -> New] /\ \A t \in New : \E i \in W : F[i] = t
    OBVIOUS
  <2>5. \A i, j \in W : F[i] = F[j] => i = j
    BY <1>1, <1>3, <2>1 DEF QueueIsWhole
  <2>6. F \in Bijection(W, New)
    BY <2>4, <2>5, Fun_IsBij
  <2>7. IsFiniteSet(New) /\ Cardinality(New) = Cardinality(W)
    BY <2>1, <2>6, FS_Bijection DEF ExistsBijection
  <2>8. \A s \in Streams : <<l, s>> \in New <=> s \in probes'[l] /\ ProviderOf[s] = p
    BY <1>4, <2>2, <2>3
  <2>9. \A m \in Loops, s \in Streams : <<m, s>> \in New => m = l
    OBVIOUS
  <2>10. \A x \in New : \E m \in Loops, s \in Streams : x = <<m, s>>
    BY <1>3, <2>1
  <2> HIDE DEF New, F
  <2>11. Probing(p)' = P \cup New
    <3>1. \A m \in Loops, s \in Streams :
            <<m, s>> \in Probing(p)' <=> <<m, s>> \in P \/ <<m, s>> \in New
      <4> SUFFICES ASSUME NEW m \in Loops, NEW s \in Streams
                   PROVE  <<m, s>> \in Probing(p)' <=> <<m, s>> \in P \/ <<m, s>> \in New
        OBVIOUS
      <4>1. <<m, s>> \in Probing(p)' <=> s \in probes'[m] /\ ProviderOf[s] = p
        BY <1>5, ProbingMembersAgain
      <4>2. <<m, s>> \in P <=> s \in probes[m] /\ ProviderOf[s] = p
        BY <1>2, ProbingMembers
      <4>. QED
        BY <1>2, <1>6, <2>8, <2>9, <4>1, <4>2
    <3>2. \A x : x \in Probing(p)' => \E m \in Loops, s \in Streams : x = <<m, s>>
      BY <1>5, ProbingMembersAgain
    <3>3. \A x : x \in P => \E m \in Loops, s \in Streams : x = <<m, s>>
      BY <1>2, ProbingMembers
    <3>. QED
      BY <2>10, <3>1, <3>2, <3>3
  <2>12. P \cap New = {}
    <3>1. \A s \in Streams : <<l, s>> \notin P
      BY <1>2, ProbingMembers
    <3>. QED
      BY <2>9, <2>10, <3>1
  <2>13. IsFiniteSet(P) /\ Cardinality(P) \in Nat
    BY <1>2, ProbingIsFinite
  <2> HIDE DEF P
  <2>14. Cardinality(P \cup New) = Cardinality(P) + Cardinality(New) - Cardinality({})
    BY <2>7, <2>12, <2>13, FS_Union
  <2>15. Cardinality(P \cup New) = Cardinality(P) + Cardinality(W)
    BY <2>1, <2>7, <2>13, <2>14, FS_EmptySet
  <2>. QED
    BY <2>11, <2>15 DEF P, W
<1>. QED
  BY <1>5, <1>7

\* Where it starts none for a provider, no sample is added.
LEMMA NoWaveNoSamples ==
  ASSUME QueueInv, LoopInv, NEW l \in Loops, at[l] = "awake", hung' = hung,
         probes' = [probes EXCEPT ![l] = {order[i] : i \in {i \in Batch : Admitted(i)}}],
         NEW p, Wave(p) = {}
  PROVE  Sampling(p)' = Sampling(p)
<1>1. probes' \in [Loops -> SUBSET Streams]
  BY WaveStarts
<1>2. probes \in [Loops -> SUBSET Streams] /\ probes[l] = {}
  BY DEF LoopInv, ProbesAreAwaited
<1>3. \A s \in probes'[l] : ProviderOf[s] # p
  BY <1>2 DEF Wave, ProviderAt
<1>4. ASSUME NEW m \in Loops, NEW s \in Streams
      PROVE  <<m, s>> \in Sampling(p)' <=> <<m, s>> \in Sampling(p)
  <2>1. m # l => probes'[m] = probes[m]
    BY <1>2
  <2>2. <<m, s>> \in Sampling(p)' <=> s \in probes'[m] \ hung[m] /\ ProviderOf[s] = p
    BY <1>1, SamplingMembersAgain
  <2>3. <<m, s>> \in Sampling(p) <=> s \in probes[m] \ hung[m] /\ ProviderOf[s] = p
    BY <1>2, SamplingMembers
  <2>. QED
    BY <1>2, <1>3, <2>1, <2>2, <2>3
<1>5. \A x : x \in Sampling(p)' => \E m \in Loops, s \in Streams : x = <<m, s>>
  BY <1>1, SamplingMembersAgain, ProbingMembersAgain
<1>6. \A x : x \in Sampling(p) => \E m \in Loops, s \in Streams : x = <<m, s>>
  BY <1>2, SamplingMembers, ProbingMembers
<1>. QED
  BY <1>4, <1>5, <1>6

-----------------------------------------------------------------------------
(* The parts a step does not touch, and those it finds in order.           *)

LEMMA SamePool ==
  ASSUME PoolInv, UNCHANGED <<poolVars, viewing, blocked>>
  PROVE  PoolInv'
BY DEF PoolInv, PoolTypeOK, poolVars

LEMMA SameQueue ==
  ASSUME QueueInv, UNCHANGED dueVars
  PROVE  QueueInv'
BY DEF QueueInv, QueueIsWhole, dueVars

LEMMA SameBreaker ==
  ASSUME BreakerInv, UNCHANGED breakerVars
  PROVE  BreakerInv'
BY DEF BreakerInv, breakerVars

LEMMA SamePolite ==
  ASSUME ProbesArePolite, UNCHANGED <<used, viewing, probes>>
  PROVE  ProbesArePolite'
BY DEF ProbesArePolite, SlotsAreAccounted, ProbesLeaveHeadroom, Probing

LEMMA SameCounts ==
  ASSUME BreakerCounts, UNCHANGED <<breakerVars, probes, hung>>
  PROVE  BreakerCounts'
BY DEF BreakerCounts, Sampling, Probing, breakerVars, Spent, Window, Capacity

LEMMA CapacityType ==
  \A p \in Providers : Capacity(p) \in Nat /\ Capacity(p) <= Budget[p]
BY HealthAssumption DEF Capacity, LessSlots

LEMMA SpentType ==
  ASSUME BreakerInv, NEW p \in Providers
  PROVE  /\ windows[p] \in Nat /\ Window(p) \in Nat /\ Spent(p) \in Nat
         /\ Window(p) = BREAKER_TRIP_STREAK + LessSlots(Capacity(p), 1)
         /\ (windows[p] + 1) * Window(p) = Spent(p) + Window(p)
<1>1. windows[p] \in Nat
  BY HealthAssumption DEF BreakerInv
<1>2. Window(p) \in Nat
  BY CapacityType, HealthAssumption DEF Window, LessSlots
<1>3. \A m, n \in Nat : m * n \in Nat /\ (m + 1) * n = m * n + n
  OBVIOUS
<1>. QED
  BY <1>1, <1>2, <1>3 DEF Spent, Window

LEMMA SpentAgain ==
  ASSUME BreakerInv', NEW p \in Providers
  PROVE  Spent(p)' \in Nat
<1>1. windows'[p] \in Nat
  BY HealthAssumption DEF BreakerInv
<1>2. Window(p) \in Nat
  BY CapacityType, HealthAssumption DEF Window, LessSlots
<1>3. Spent(p)' = windows'[p] * Window(p)
  BY DEF Spent, Window, Capacity
<1>4. \A m, n \in Nat : m * n \in Nat
  OBVIOUS
<1>. QED
  BY <1>1, <1>2, <1>3, <1>4

\* Samples only end, and the breaker is not told.
LEMMA FewerCounts ==
  ASSUME BreakerInv, BreakerCounts, UNCHANGED breakerVars,
         probes \in [Loops -> SUBSET Streams], probes' \in [Loops -> SUBSET Streams],
         \A l \in Loops : probes'[l] \ hung'[l] \subseteq probes[l] \ hung[l]
  PROVE  BreakerCounts'
<1> SUFFICES ASSUME NEW p \in Providers
             PROVE  /\ breaker[p] = "closed" =>
                         condemned[p] <= Spent(p) + streak[p] /\ streak[p] < BREAKER_TRIP_STREAK
                    /\ breaker[p] = "elapsed" => Sampling(p)' = {}
                    /\ breaker[p] # "closed" =>
                         condemned[p] + Cardinality(Sampling(p)') <= Spent(p) + Window(p)
  BY DEF BreakerCounts, breakerVars, Spent, Window, Capacity
<1> DEFINE few == Cardinality(Sampling(p)')
           many == Cardinality(Sampling(p))
           bound == Spent(p) + Window(p)
<1>1. Sampling(p)' \in SUBSET Sampling(p) /\ few \in Nat /\ few <= many
  BY FewerSamples
<1>2. many \in Nat /\ condemned[p] \in Nat
  BY SamplingIsFinite DEF BreakerInv
<1>3. bound \in Nat
  BY SpentType
<1>4. breaker[p] # "closed" => condemned[p] + many <= bound
  BY DEF BreakerCounts
<1> HIDE DEF few, many, bound
<1>5. breaker[p] # "closed" => condemned[p] + few <= bound
  BY <1>1, <1>2, <1>3, <1>4
<1>. QED
  BY <1>1, <1>5 DEF BreakerCounts, few, bound

-----------------------------------------------------------------------------
(* A process starts.                                                       *)

LEMMA Starts == Init => HealthInv
<1> SUFFICES ASSUME Init PROVE HealthInv
  OBVIOUS
<1> USE HealthAssumption DEF Init, Booted
<1>1. PoolInv
  BY DEF PoolInv, PoolTypeOK
<1>2. QueueInv
  BY QueueStarts DEF QueueInv
<1>3. BreakerInv
  <2>1. 0 \in 0 .. BREAKER_TRIP_STREAK /\ 0 \in 0 .. MAX_WINDOWS
    OBVIOUS
  <2>. QED
    BY <2>1 DEF BreakerInv
<1>4. LoopInv
  <2>1. 0 \in 0 .. MAX_STRIKES /\ 0 \in 0 .. MAX_STRIKES + 1
    OBVIOUS
  <2>. QED
    BY <2>1 DEF LoopInv, Places, ProbesAreAwaited
<1>5. \A p : Probing(p) = {} /\ Cardinality(Probing(p)) = 0
  <2>1. \A p : Probing(p) = {}
    BY DEF Probing
  <2>. QED
    BY <2>1, FS_EmptySet
<1>6. ProbesArePolite
  BY <1>5, CapacityType DEF ProbesArePolite, SlotsAreAccounted, ProbesLeaveHeadroom
<1>7. BreakerCounts
  BY <1>3, SpentType DEF BreakerCounts
<1>. QED
  BY <1>1, <1>2, <1>3, <1>4, <1>6, <1>7, InvParts

\* The end of a window: what it condemned is what a window may cost.
LEMMA WindowSpent ==
  ASSUME BreakerInv, NEW ps \in SUBSET Providers, WindowEnds(ps)
  PROVE  /\ condemned' \in [Providers -> Nat] /\ windows' \in [Providers -> 0 .. MAX_WINDOWS]
         /\ \A p \in Providers :
              /\ p \notin ps => condemned'[p] = condemned[p] /\ Spent(p)' = Spent(p)
              /\ p \in ps /\ condemned[p] <= Spent(p) + Window(p) =>
                   condemned'[p] <= Spent(p)'
<1>1. \A p \in Providers : windows[p] \in 0 .. MAX_WINDOWS /\ condemned[p] \in Nat
  BY DEF BreakerInv
<1>2. ASSUME NEW p \in Providers
      PROVE  \/ p \notin ps /\ condemned'[p] = condemned[p] /\ windows'[p] = windows[p]
             \/ p \in ps /\ condemned'[p] = 0 /\ windows'[p] = 0
             \/ /\ p \in ps /\ condemned'[p] = condemned[p]
                /\ windows'[p] = windows[p] + 1 /\ windows[p] < MAX_WINDOWS
  BY <1>1, HealthAssumption DEF WindowEnds
<1>3. condemned' \in [Providers -> Nat]
  BY <1>1 DEF WindowEnds
<1>4. windows' \in [Providers -> 0 .. MAX_WINDOWS]
  <2>1. \A p \in Providers : windows'[p] \in 0 .. MAX_WINDOWS
    BY <1>1, <1>2, HealthAssumption
  <2>2. windows' = [p \in Providers |-> windows'[p]]
    BY DEF WindowEnds
  <2>. QED
    BY <2>1, <2>2
<1>5. ASSUME NEW p \in Providers
      PROVE  /\ p \notin ps => condemned'[p] = condemned[p] /\ Spent(p)' = Spent(p)
             /\ p \in ps /\ condemned[p] <= Spent(p) + Window(p) => condemned'[p] <= Spent(p)'
  <2>1. Spent(p)' = windows'[p] * Window(p)
    BY DEF Spent, Window, Capacity
  <2>2. /\ (windows[p] + 1) * Window(p) = Spent(p) + Window(p)
        /\ Window(p) \in Nat /\ 0 * Window(p) = 0
    BY SpentType
  <2>3. CASE windows'[p] = windows[p] /\ condemned'[p] = condemned[p] /\ p \notin ps
    BY <2>1, <2>3 DEF Spent
  <2>4. CASE windows'[p] = 0 /\ condemned'[p] = 0 /\ p \in ps
    BY <2>1, <2>2, <2>4
  <2>5. CASE windows'[p] = windows[p] + 1 /\ condemned'[p] = condemned[p] /\ p \in ps
    BY <2>1, <2>2, <2>5
  <2>. QED
    BY <1>2, <2>3, <2>4, <2>5
<1>. QED
  BY <1>3, <1>4, <1>5

\* At any moment a window has cost what it may.
LEMMA WindowHolds ==
  ASSUME HealthInv, NEW p \in Providers
  PROVE  condemned[p] <= Spent(p) + Window(p)
<1>1. BreakerInv /\ LoopInv /\ BreakerCounts
  BY InvParts
<1>2. condemned[p] \in Nat /\ streak[p] \in Nat /\ Cardinality(Sampling(p)) \in Nat
  BY <1>1, SamplingIsFinite, HealthAssumption DEF BreakerInv, LoopInv
<1>3. /\ LessSlots(Capacity(p), 1) \in Nat /\ Spent(p) \in Nat /\ Window(p) \in Nat
      /\ Window(p) = BREAKER_TRIP_STREAK + LessSlots(Capacity(p), 1)
  BY <1>1, CapacityType, SpentType DEF LessSlots
<1>4. CASE breaker[p] = "closed"
  <2>1. condemned[p] <= Spent(p) + streak[p] /\ streak[p] < BREAKER_TRIP_STREAK
    BY <1>1, <1>4 DEF BreakerCounts
  <2>. QED
    BY <1>2, <1>3, <2>1, HealthAssumption
<1>5. CASE breaker[p] # "closed"
  <2>1. condemned[p] + Cardinality(Sampling(p)) <= Spent(p) + Window(p)
    BY <1>1, <1>5 DEF BreakerCounts
  <2>. QED
    BY <1>2, <1>3, <2>1
<1>. QED
  BY <1>4, <1>5

LEMMA RebootKeeps == HealthInv /\ Reboot => HealthInv'
<1> SUFFICES ASSUME HealthInv, Reboot PROVE HealthInv'
  OBVIOUS
<1> USE HealthAssumption DEF Reboot, Booted
<1>1. PoolInv'
  BY InvParts DEF PoolInv, PoolTypeOK
<1>2. QueueInv'
  BY InvParts, SameQueue
<1>3. BreakerInv' /\ \A p \in Providers : condemned'[p] <= Spent(p)'
  <2>1. 0 \in 0 .. BREAKER_TRIP_STREAK
    OBVIOUS
  <2>2. /\ condemned' \in [Providers -> Nat] /\ windows' \in [Providers -> 0 .. MAX_WINDOWS]
        /\ \A p \in Providers : condemned'[p] <= Spent(p)'
    BY InvParts, WindowSpent, WindowHolds
  <2>. QED
    BY <2>1, <2>2 DEF BreakerInv
<1>4. LoopInv'
  <2>1. 0 \in 0 .. MAX_STRIKES /\ 0 \in 0 .. MAX_STRIKES + 1
    OBVIOUS
  <2>. QED
    BY <2>1 DEF LoopInv, Places, ProbesAreAwaited
<1>5. \A p : Probing(p)' = {} /\ Cardinality(Probing(p)') = 0
  <2>1. \A p : Probing(p)' = {}
    BY DEF Probing
  <2>. QED
    BY <2>1, FS_EmptySet
<1>6. ProbesArePolite'
  BY <1>5, CapacityType DEF ProbesArePolite, SlotsAreAccounted, ProbesLeaveHeadroom
<1>7. BreakerCounts'
  <2> SUFFICES ASSUME NEW p \in Providers
               PROVE  /\ breaker'[p] = "closed"
                      /\ condemned'[p] <= Spent(p)' + streak'[p]
                      /\ streak'[p] < BREAKER_TRIP_STREAK
    BY DEF BreakerCounts
  <2>1. Spent(p)' \in Nat
    BY <1>3, SpentAgain
  <2>. QED
    BY <1>3, <2>1 DEF BreakerInv
<1>. QED
  BY <1>1, <1>2, <1>3, <1>4, <1>6, <1>7, InvPartsAgain

-----------------------------------------------------------------------------
(* The end of a probe.                                                     *)

\* It gives back the slot it holds, and the loop waits for the others.
LEMMA DoneKeeps ==
  ASSUME HealthInv, NEW l \in Loops, NEW s \in probes[l], NEW threw, ProbeDone(l, s, threw)
  PROVE  /\ PoolInv' /\ LoopInv' /\ ProbesArePolite'
         /\ \A m \in Loops : probes'[m] \ hung'[m] \subseteq probes[m] \ hung[m]
<1> DEFINE q == ProviderOf[s]
<1>1. PoolInv /\ LoopInv /\ ProbesArePolite
  BY InvParts
<1>2. s \in Streams /\ q \in Providers /\ probes \in [Loops -> SUBSET Streams]
  BY <1>1, HealthAssumption DEF LoopInv
<1>3. used' = Released(used, q) /\ probes' = [probes EXCEPT ![l] = @ \ {s}]
  BY DEF ProbeDone, AfterProbe
<1>4. PoolInv'
  BY <1>1, <1>2, <1>3 DEF PoolInv, PoolTypeOK, Released, LessSlots, ProbeDone
<1>5. LoopInv'
  <2> USE DEF LoopInv
  <2>1. current' \in Loops /\ strikes' \in 0 .. MAX_STRIKES
    BY <1>1 DEF ProbeDone
  <2>2. at' \in [Loops -> Places] /\ wedges' \in 0 .. MAX_STRIKES + 1
    <3>1. 0 \in 0 .. MAX_STRIKES + 1
      BY HealthAssumption
    <3>. QED
      BY <1>1, <3>1 DEF ProbeDone, Continues, Places
  <2>3. probes' \in [Loops -> SUBSET Streams] /\ hung' \in [Loops -> SUBSET Streams]
    BY <1>1 DEF ProbeDone
  <2>4. ASSUME NEW m \in Loops
        PROVE  (at'[m] # "probing" => probes'[m] = {}) /\ hung'[m] \subseteq probes'[m]
    <3>1. (at[m] # "probing" => probes[m] = {}) /\ hung[m] \subseteq probes[m]
      BY <1>1 DEF ProbesAreAwaited
    <3>2. hung'[m] \subseteq probes'[m]
      BY <1>1, <3>1 DEF ProbeDone
    <3>3. CASE m = l
      <4>1. at[l] = "probing" /\ probes'[l] = probes[l] \ {s}
        BY <1>1, <3>1, <3>3 DEF ProbeDone
      <4>2. probes[l] # {s} => at' = at
        BY DEF ProbeDone
      <4>. QED
        BY <3>2, <3>3, <4>1, <4>2
    <3>4. CASE m # l
      BY <1>1, <3>1, <3>2, <3>4 DEF ProbeDone, Continues
    <3>. QED
      BY <3>3, <3>4
  <2>. QED
    BY <2>1, <2>2, <2>3, <2>4 DEF ProbesAreAwaited
<1>6. ProbesArePolite'
  <2> SUFFICES ASSUME NEW p \in Providers
               PROVE  /\ used'[p] = viewing'[p] + Cardinality(Probing(p)')
                      /\ Cardinality(Probing(p)') <= Capacity(p)
    BY DEF ProbesArePolite, SlotsAreAccounted, ProbesLeaveHeadroom, Capacity
  <2>1. /\ used[p] = viewing[p] + Cardinality(Probing(p))
        /\ Cardinality(Probing(p)) <= Capacity(p)
    BY <1>1 DEF ProbesArePolite, SlotsAreAccounted, ProbesLeaveHeadroom
  <2>2. /\ used \in [Providers -> Nat] /\ viewing' = viewing /\ viewing[p] \in Nat
        /\ Capacity(p) \in Nat
    BY <1>1, CapacityType DEF PoolInv, PoolTypeOK, ProbeDone
  <2>3. CASE p # q
    <3>1. Probing(p)' = Probing(p)
      BY <1>2, <1>3, <2>3, OneProbeLess
    <3>2. used'[p] = used[p]
      BY <1>2, <1>3, <2>2, <2>3 DEF Released
    <3>. QED
      BY <2>1, <2>2, <3>1, <3>2
  <2>4. CASE p = q
    <3>1. /\ Cardinality(Probing(p)) \in Nat \ {0}
          /\ Cardinality(Probing(p)') = Cardinality(Probing(p)) - 1
      BY <1>2, <1>3, <2>4, OneProbeLess
    <3>2. used'[p] = LessSlots(used[p], 1)
      BY <1>2, <1>3, <2>2, <2>4 DEF Released
    <3>. QED
      BY <2>1, <2>2, <3>1, <3>2 DEF LessSlots
  <2>. QED
    BY <2>3, <2>4
<1>7. \A m \in Loops : probes'[m] \ hung'[m] \subseteq probes[m] \ hung[m]
  BY <1>1 DEF ProbeDone, LoopInv
<1>. QED
  BY <1>4, <1>5, <1>6, <1>7

LEMMA AliveKeeps ==
  ASSUME HealthInv, NEW l \in Loops, NEW s \in probes[l], FoundAlive(l, s)
  PROVE  HealthInv'
<1> DEFINE q == ProviderOf[s]
<1>1. PoolInv /\ QueueInv /\ BreakerInv /\ LoopInv /\ BreakerCounts
  BY InvParts
<1>2. /\ PoolInv' /\ LoopInv' /\ ProbesArePolite'
      /\ \A m \in Loops : probes'[m] \ hung'[m] \subseteq probes[m] \ hung[m]
  BY DoneKeeps DEF FoundAlive
<1>3. s \in Streams /\ q \in Providers
  BY <1>1, HealthAssumption DEF LoopInv
<1>4. QueueInv'
  BY <1>1, <1>3, QueueMoves DEF QueueInv, FoundAlive
<1>5. /\ breaker' = breaker
      /\ streak' = IF breaker[q] = "open" THEN streak ELSE [streak EXCEPT ![q] = 0]
      /\ condemned' = IF breaker[q] = "open" THEN condemned ELSE [condemned EXCEPT ![q] = 0]
      /\ windows' = IF breaker[q] = "open" THEN windows ELSE [windows EXCEPT ![q] = 0]
  BY DEF FoundAlive, Gagged
<1>6. BreakerInv'
  <2>1. 0 \in 0 .. BREAKER_TRIP_STREAK /\ 0 \in 0 .. MAX_WINDOWS
    BY HealthAssumption
  <2>. QED
    BY <1>1, <1>5, <2>1 DEF BreakerInv
<1>7. BreakerCounts'
  <2>1. CASE breaker[q] = "open"
    <3>1. UNCHANGED breakerVars
      BY <1>5, <2>1 DEF breakerVars
    <3>. QED
      BY <1>1, <1>2, <3>1, FewerCounts DEF LoopInv
  <2>2. CASE breaker[q] # "open"
    <3> SUFFICES ASSUME NEW p \in Providers
                 PROVE  /\ breaker[p] = "closed" =>
                             condemned'[p] <= Spent(p)' + streak'[p] /\ streak'[p] < BREAKER_TRIP_STREAK
                        /\ breaker[p] = "elapsed" => Sampling(p)' = {}
                        /\ breaker[p] # "closed" =>
                             condemned'[p] + Cardinality(Sampling(p)')
                               <= Spent(p)' + Window(p)
      BY <1>5 DEF BreakerCounts, Window, Capacity
    <3> DEFINE few == Cardinality(Sampling(p)')
               many == Cardinality(Sampling(p))
               spent == Spent(p)
               room == Window(p)
    <3>1. Sampling(p)' \in SUBSET Sampling(p) /\ few \in Nat /\ few <= many
      BY <1>1, <1>2, FewerSamples DEF LoopInv
    <3>2. many \in Nat /\ condemned[p] \in Nat
      BY <1>1, SamplingIsFinite DEF BreakerInv, LoopInv
    <3>3. spent \in Nat /\ room \in Nat
      BY <1>1, SpentType
    <3>4. /\ breaker[p] = "closed" =>
               condemned[p] <= Spent(p) + streak[p] /\ streak[p] < BREAKER_TRIP_STREAK
          /\ breaker[p] = "elapsed" => Sampling(p) = {}
          /\ breaker[p] # "closed" => condemned[p] + many <= spent + room
      BY <1>1 DEF BreakerCounts
    <3>5. \/ p = q /\ streak'[p] = 0 /\ condemned'[p] = 0 /\ Spent(p)' = 0
          \/ /\ p # q /\ streak'[p] = streak[p] /\ condemned'[p] = condemned[p]
             /\ Spent(p)' = spent
      <4>1. Spent(p)' = windows'[p] * Window(p) /\ spent = windows[p] * Window(p)
            /\ Window(p) \in Nat /\ 0 * Window(p) = 0
        BY <1>1, SpentType DEF Spent, Window, Capacity
      <4>. QED
        BY <1>1, <1>3, <1>5, <2>2, <4>1 DEF BreakerInv
    \* While the breaker is not closed a sign of life comes from no probe of this window.
    <3>6. breaker[p] # "closed" => condemned'[p] + few <= Spent(p)' + room
      <4> SUFFICES ASSUME breaker[p] # "closed" PROVE condemned'[p] + few <= Spent(p)' + room
        OBVIOUS
      <4> HIDE DEF few, many, spent, room
      <4>1. CASE p # q
        BY <3>1, <3>2, <3>3, <3>4, <3>5, <4>1
      <4>2. CASE p = q
        <5>1. few = 0
          <6>1. breaker[p] = "elapsed"
            BY <1>1, <1>3, <2>2, <4>2 DEF BreakerInv
          <6>2. Sampling(p)' = {}
            BY <3>1, <3>4, <6>1
          <6>. QED
            BY <6>2, FS_EmptySet DEF few
        <5>. QED
          BY <3>3, <3>5, <4>2, <5>1
      <4>. QED
        BY <4>1, <4>2
    <3> HIDE DEF few, many, spent, room
    <3>7. breaker[p] = "closed" =>
            condemned'[p] <= Spent(p)' + streak'[p] /\ streak'[p] < BREAKER_TRIP_STREAK
      BY <3>4, <3>5, HealthAssumption DEF spent
    <3>. QED
      BY <3>1, <3>4, <3>6, <3>7 DEF few, room
  <2>. QED
    BY <2>1, <2>2
<1>. QED
  BY <1>2, <1>4, <1>6, <1>7, InvPartsAgain

LEMMA DeadKeeps ==
  ASSUME HealthInv, NEW l \in Loops, NEW s \in probes[l], FoundDead(l, s)
  PROVE  HealthInv'
<1> DEFINE q == ProviderOf[s]
<1>1. PoolInv /\ QueueInv /\ BreakerInv /\ LoopInv /\ ProbesArePolite /\ BreakerCounts
  BY InvParts
<1>2. /\ PoolInv' /\ LoopInv' /\ ProbesArePolite'
      /\ \A m \in Loops : probes'[m] \ hung'[m] \subseteq probes[m] \ hung[m]
  BY DoneKeeps DEF FoundDead
<1>3. s \in Streams /\ q \in Providers /\ s \notin hung[l]
  BY <1>1, HealthAssumption DEF LoopInv, FoundDead
<1>4. QueueInv'
  BY <1>1, <1>3, QueueMoves DEF QueueInv, FoundDead
<1>5. probes \in [Loops -> SUBSET Streams] /\ probes' \in [Loops -> SUBSET Streams]
  BY <1>1, <1>2 DEF LoopInv
\* The probe was still sampling: the cooldown has not elapsed.
<1>6. /\ <<l, s>> \in Sampling(q) /\ Sampling(q)' \in SUBSET (Sampling(q) \ {<<l, s>>})
      /\ breaker[q] # "elapsed"
  <2>1. <<l, s>> \in Sampling(q)
    BY <1>3, <1>5, SamplingMembers
  <2>2. s \notin probes'[l]
    BY <1>5 DEF FoundDead, ProbeDone
  <2>3. <<l, s>> \notin Sampling(q)'
    BY <1>3, <1>5, <2>2, SamplingMembersAgain
  <2>4. Sampling(q)' \in SUBSET Sampling(q)
    BY <1>2, <1>5, FewerSamples
  <2>5. breaker[q] # "elapsed"
    BY <1>1, <1>3, <2>1 DEF BreakerCounts
  <2>. QED
    BY <2>1, <2>3, <2>4, <2>5
<1>7. /\ condemned' = [condemned EXCEPT ![q] = @ + 1] /\ windows' = windows
      /\ breaker[q] = "open" => streak' = streak /\ breaker' = breaker
      /\ breaker[q] # "open" =>
           /\ streak' = [streak EXCEPT ![q] = @ + 1]
           /\ breaker' = IF streak[q] + 1 >= BREAKER_TRIP_STREAK
                           THEN [breaker EXCEPT ![q] = "open"] ELSE breaker
  BY DEF FoundDead, Gagged, Trips
<1>8. breaker[q] = "closed" =>
        condemned[q] <= Spent(q) + streak[q] /\ streak[q] < BREAKER_TRIP_STREAK
  BY <1>1, <1>3 DEF BreakerCounts
<1>9. breaker[q] \in {"closed", "open"} /\ streak[q] \in Nat /\ condemned[q] \in Nat
  BY <1>1, <1>3, <1>6, HealthAssumption DEF BreakerInv
<1>10. BreakerInv'
  <2>1. condemned' \in [Providers -> Nat]
    <3>1. condemned[q] + 1 \in Nat
      BY <1>9
    <3>. QED
      BY <1>1, <1>7, <3>1 DEF BreakerInv
  <2>2. breaker' \in [Providers -> {"closed", "open", "elapsed"}]
    BY <1>1, <1>7 DEF BreakerInv
  <2>3. streak[q] + 1 \in 0 .. BREAKER_TRIP_STREAK \/ breaker[q] = "open"
    BY <1>8, <1>9, HealthAssumption
  <2>4. streak' \in [Providers -> 0 .. BREAKER_TRIP_STREAK]
    BY <1>1, <1>7, <2>3 DEF BreakerInv
  <2>. QED
    BY <1>1, <1>7, <2>1, <2>2, <2>4 DEF BreakerInv
<1>11. BreakerCounts'
  <2> SUFFICES ASSUME NEW p \in Providers
               PROVE  /\ breaker'[p] = "closed" =>
                           condemned'[p] <= Spent(p) + streak'[p] /\ streak'[p] < BREAKER_TRIP_STREAK
                      /\ breaker'[p] = "elapsed" => Sampling(p)' = {}
                      /\ breaker'[p] # "closed" =>
                           condemned'[p] + Cardinality(Sampling(p)') <= Spent(p) + Window(p)
    BY <1>7 DEF BreakerCounts, Spent, Window, Capacity
  <2> DEFINE few == Cardinality(Sampling(p)')
             many == Cardinality(Sampling(p))
             spent == Spent(p)
             room == LessSlots(Capacity(p), 1)
  <2>1. Sampling(p)' \in SUBSET Sampling(p) /\ few \in Nat /\ few <= many
    BY <1>2, <1>5, FewerSamples
  <2>2. many \in Nat /\ condemned[p] \in Nat /\ streak[p] \in Nat
    BY <1>1, <1>5, SamplingIsFinite, HealthAssumption DEF BreakerInv
  <2>3. /\ room \in Nat /\ spent \in Nat
        /\ spent + Window(p) = spent + BREAKER_TRIP_STREAK + room
    <3>1. room \in Nat /\ spent \in Nat /\ Window(p) = BREAKER_TRIP_STREAK + room
      BY <1>1, CapacityType, SpentType DEF LessSlots
    <3>. HIDE DEF room, spent
    <3>. QED
      BY <3>1, HealthAssumption
  <2>4. /\ breaker[p] = "closed" =>
             condemned[p] <= spent + streak[p] /\ streak[p] < BREAKER_TRIP_STREAK
        /\ breaker[p] = "elapsed" => Sampling(p) = {}
        /\ breaker[p] # "closed" => condemned[p] + many <= spent + BREAKER_TRIP_STREAK + room
    BY <1>1, <2>3 DEF BreakerCounts
  <2>5. CASE p # q
    <3>1. /\ breaker'[p] = breaker[p] /\ streak'[p] = streak[p]
          /\ condemned'[p] = condemned[p]
      BY <1>1, <1>7, <1>9, <2>5 DEF BreakerInv
    <3> HIDE DEF few, many, room, spent
    <3>2. breaker[p] # "closed" => condemned[p] + few <= spent + BREAKER_TRIP_STREAK + room
      BY <2>1, <2>2, <2>3, <2>4, HealthAssumption
    <3>. QED
      BY <2>1, <2>3, <2>4, <3>1, <3>2 DEF few, spent
  <2>6. CASE p = q
    <3>1. condemned'[p] = condemned[p] + 1
      BY <1>1, <1>3, <1>7, <2>6 DEF BreakerInv
    \* The verdict takes the probe out of those that may still condemn.
    <3>2. few + 1 <= many
      <4>1. IsFiniteSet(Sampling(p)) /\ <<l, s>> \in Sampling(p)
        BY <1>5, <1>6, <2>6, SamplingIsFinite
      <4>2. Cardinality(Sampling(p) \ {<<l, s>>}) = many - 1
            /\ IsFiniteSet(Sampling(p) \ {<<l, s>>})
        <5> DEFINE S == Sampling(p)
                   x == <<l, s>>
        <5>1. IsFiniteSet(S) /\ x \in S
          BY <4>1
        <5> HIDE DEF S, x
        <5>2. Cardinality(S \ {x}) = Cardinality(S) - 1 /\ IsFiniteSet(S \ {x})
          BY <5>1, FS_RemoveElement
        <5>. QED
          BY <5>2 DEF S, x
      <4>3. few <= Cardinality(Sampling(p) \ {<<l, s>>})
        BY <1>6, <2>6, <4>2, FS_Subset
      <4>. QED
        BY <2>1, <2>2, <4>2, <4>3
    <3> HIDE DEF few, many
    <3>3. CASE breaker[q] = "open"
      <4>1. breaker'[p] = "open"
        BY <1>7, <2>6, <3>3
      <4>2. condemned[p] + many <= spent + BREAKER_TRIP_STREAK + room
        BY <2>4, <2>6, <3>3
      <4> HIDE DEF room, spent
      <4>3. condemned'[p] + few <= spent + BREAKER_TRIP_STREAK + room
        BY <2>1, <2>2, <2>3, <3>1, <3>2, <4>2, HealthAssumption
      <4>. QED
        BY <2>3, <4>1, <4>3 DEF few, spent
    <3>4. CASE breaker[q] = "closed" /\ streak[q] + 1 >= BREAKER_TRIP_STREAK
      <4>1. breaker'[p] = "open"
        BY <1>1, <1>3, <1>7, <2>6, <3>4 DEF BreakerInv
      <4>2. condemned'[p] <= spent + BREAKER_TRIP_STREAK /\ condemned'[p] \in Nat
        BY <1>8, <1>9, <2>3, <2>6, <3>1, <3>4, HealthAssumption
      <4>3. many <= Capacity(p)
        <5>1. /\ Cardinality(Sampling(p)) <= Cardinality(Probing(p))
              /\ Cardinality(Probing(p)) \in Nat /\ Cardinality(Probing(p)) <= Capacity(p)
          BY <1>1, <1>5, SamplingIsFinite, ProbingIsFinite DEF ProbesArePolite,
             ProbesLeaveHeadroom
        <5>. QED
          BY <2>2, <5>1, CapacityType DEF many
      <4>4. few <= room
        <5>1. few + 1 <= Capacity(p) /\ Capacity(p) \in Nat
          BY <2>1, <2>2, <3>2, <4>3, CapacityType
        <5>2. Capacity(p) > 1 \/ Capacity(p) = 1
          BY <2>1, <5>1
        <5>. QED
          BY <2>1, <5>1, <5>2 DEF LessSlots
      <4> HIDE DEF room, spent
      <4>5. condemned'[p] + few <= spent + BREAKER_TRIP_STREAK + room
        BY <2>1, <2>3, <4>2, <4>4, HealthAssumption
      <4>. QED
        BY <2>3, <4>1, <4>5 DEF few, spent
    <3>5. CASE breaker[q] = "closed" /\ ~(streak[q] + 1 >= BREAKER_TRIP_STREAK)
      <4>1. breaker'[p] = "closed" /\ streak'[p] = streak[p] + 1
        BY <1>1, <1>3, <1>7, <2>6, <3>5 DEF BreakerInv
      <4>2. condemned'[p] <= Spent(p) + streak'[p] /\ streak'[p] < BREAKER_TRIP_STREAK
        BY <1>8, <1>9, <2>3, <2>6, <3>1, <3>5, <4>1, HealthAssumption
      <4>. QED
        BY <4>1, <4>2
    <3>. QED
      BY <1>9, <3>3, <3>4, <3>5
  <2>. QED
    BY <2>5, <2>6
<1>. QED
  BY <1>2, <1>4, <1>10, <1>11, InvPartsAgain

LEMMA ThrowKeeps ==
  ASSUME HealthInv, NEW l \in Loops, NEW s \in probes[l], ProbeThrows(l, s)
  PROVE  HealthInv'
<1>1. QueueInv /\ BreakerInv /\ LoopInv /\ BreakerCounts
  BY InvParts
<1>2. /\ PoolInv' /\ LoopInv' /\ ProbesArePolite'
      /\ \A m \in Loops : probes'[m] \ hung'[m] \subseteq probes[m] \ hung[m]
  BY DoneKeeps DEF ProbeThrows
<1>3. QueueInv' /\ BreakerInv' /\ BreakerCounts'
  BY <1>1, <1>2, SameQueue, SameBreaker, FewerCounts DEF ProbeThrows, LoopInv
<1>. QED
  BY <1>2, <1>3, InvPartsAgain

-----------------------------------------------------------------------------
(* The other steps.                                                        *)

LEMMA IterateKeeps ==
  ASSUME HealthInv, NEW l \in Loops, Iterate(l)
  PROVE  HealthInv'
<1> DEFINE batch == {i \in Batch : Admitted(i)}
           closing == {p \in {ProviderAt(i) : i \in Batch} \ blocked : breaker[p] = "elapsed"}
<1>1. PoolInv /\ QueueInv /\ BreakerInv /\ LoopInv /\ ProbesArePolite /\ BreakerCounts
  BY InvParts
<1>2. /\ at[l] = "awake" /\ strikes' = 0
      /\ used' = [p \in Providers |-> used[p] + Cardinality({i \in batch : ProviderAt(i) = p})]
      /\ breaker' = [p \in Providers |-> IF p \in closing THEN "closed" ELSE breaker[p]]
      /\ streak' = [p \in Providers |-> IF p \in closing THEN 0 ELSE streak[p]]
      /\ WindowEnds(closing)
      /\ probes' = [probes EXCEPT ![l] = {order[i] : i \in batch}]
      /\ UNCHANGED <<max, viewing, blocked, dueVars, current, hung>>
  BY DEF Iterate
<1>3. \A p : {i \in batch : ProviderAt(i) = p} = Wave(p)
  BY DEF Wave
<1>4. order \in Seq(Streams) /\ due \in 0 .. Len(order) /\ TypeOK /\ max = Budget
  BY <1>1 DEF QueueInv, HealthInv
<1>5. \A p : Cardinality(Wave(p)) \in Nat
  BY <1>4, WaveIsFinite
<1>6. \A p \in Providers : used'[p] = used[p] + Cardinality(Wave(p))
  BY <1>2, <1>3
<1>7. PoolInv'
  <2>1. used' \in [Providers -> Nat]
    <3>1. \A p \in Providers : used[p] + Cardinality(Wave(p)) \in Nat
      BY <1>1, <1>5 DEF PoolInv, PoolTypeOK
    <3>. QED
      BY <1>2, <1>3, <3>1
  <2>. QED
    BY <1>1, <1>2, <2>1 DEF PoolInv, PoolTypeOK
<1>8. QueueInv'
  BY <1>1, <1>2, SameQueue
<1>14. closing \in SUBSET Providers
  BY <1>4, BatchIsQueued
<1>9. BreakerInv'
  <2>1. 0 \in 0 .. BREAKER_TRIP_STREAK
    BY HealthAssumption
  <2>2. condemned' \in [Providers -> Nat] /\ windows' \in [Providers -> 0 .. MAX_WINDOWS]
    BY <1>1, <1>2, <1>14, WindowSpent
  <2> HIDE DEF closing
  <2>. QED
    BY <1>1, <1>2, <2>1, <2>2 DEF BreakerInv
<1>10. /\ probes' \in [Loops -> SUBSET Streams]
       /\ \A p : Cardinality(Probing(p)') = Cardinality(Probing(p)) + Cardinality(Wave(p))
  BY <1>1, <1>2, WaveStarts
<1>11. LoopInv'
  <2>1. 0 \in 0 .. MAX_STRIKES /\ 0 \in 0 .. MAX_STRIKES + 1
    BY HealthAssumption
  <2>2. at' \in [Loops -> Places] /\ wedges' \in 0 .. MAX_STRIKES + 1
    BY <1>1, <2>1 DEF LoopInv, Iterate, Continues, Places
  <2>3. ASSUME NEW m \in Loops
        PROVE  (at'[m] # "probing" => probes'[m] = {}) /\ hung'[m] \subseteq probes'[m]
    <3>1. (at[m] # "probing" => probes[m] = {}) /\ hung[m] \subseteq probes[m]
      BY <1>1 DEF LoopInv, ProbesAreAwaited
    <3>2. CASE m # l
      BY <1>1, <1>2, <3>1, <3>2 DEF LoopInv, Iterate, Continues
    <3>3. CASE m = l
      <4>1. hung'[l] = {}
        BY <1>2, <3>1, <3>3
      <4>2. batch # {} => at'[l] = "probing"
        BY <1>1 DEF LoopInv, Iterate
      <4>3. batch = {} => probes'[l] = {}
        BY <1>1, <1>2 DEF LoopInv
      <4>. QED
        BY <3>3, <4>1, <4>2, <4>3
    <3>. QED
      BY <3>2, <3>3
  <2>. QED
    BY <1>1, <1>2, <1>10, <2>1, <2>2, <2>3 DEF LoopInv, ProbesAreAwaited
<1>12. ProbesArePolite'
  <2> SUFFICES ASSUME NEW p \in Providers
               PROVE  /\ used'[p] = viewing'[p] + Cardinality(Probing(p)')
                      /\ Cardinality(Probing(p)') <= Capacity(p)
    BY DEF ProbesArePolite, SlotsAreAccounted, ProbesLeaveHeadroom, Capacity
  <2> DEFINE n == Cardinality(Probing(p))
             k == Cardinality(Wave(p))
  <2>1. used[p] = viewing[p] + n /\ n <= Capacity(p)
    BY <1>1 DEF ProbesArePolite, SlotsAreAccounted, ProbesLeaveHeadroom
  <2>2. viewing[p] \in Nat /\ n \in Nat /\ k \in Nat /\ Capacity(p) \in Nat
    BY <1>1, <1>5, CapacityType, ProbingIsFinite DEF PoolInv, LoopInv
  <2>3. Wave(p) = {} => k = 0
    BY FS_EmptySet
  <2>4. Wave(p) # {} => used[p] + k <= Capacity(p)
    BY <1>4, WaveFits
  <2>5. used'[p] = used[p] + k /\ Cardinality(Probing(p)') = n + k /\ viewing'[p] = viewing[p]
    BY <1>2, <1>6, <1>10
  <2> HIDE DEF n, k
  <2>6. used[p] + k = viewing[p] + (n + k) /\ n + k <= Capacity(p)
    BY <2>1, <2>2, <2>3, <2>4
  <2>. QED
    BY <2>5, <2>6
<1>13. BreakerCounts'
  <2> SUFFICES ASSUME NEW p \in Providers
               PROVE  /\ breaker'[p] = "closed" =>
                           condemned'[p] <= Spent(p)' + streak'[p] /\ streak'[p] < BREAKER_TRIP_STREAK
                      /\ breaker'[p] = "elapsed" => Sampling(p)' = {}
                      /\ breaker'[p] # "closed" =>
                           condemned'[p] + Cardinality(Sampling(p)')
                             <= Spent(p)' + Window(p)
    BY DEF BreakerCounts, Window, Capacity
  <2>3. /\ p \notin closing => condemned'[p] = condemned[p] /\ Spent(p)' = Spent(p)
        /\ p \in closing => condemned'[p] <= Spent(p)'
    BY <1>1, <1>2, <1>14, WindowSpent, WindowHolds
  <2>1. CASE p \in closing
    <3>1. breaker'[p] = "closed" /\ streak'[p] = 0 /\ condemned'[p] <= Spent(p)'
      BY <1>2, <2>1, <2>3
    <3>2. Spent(p)' \in Nat
      BY <1>9, SpentAgain
    <3>. QED
      BY <3>1, <3>2, HealthAssumption
  <2>2. CASE p \notin closing
    <3>1. /\ breaker'[p] = breaker[p] /\ streak'[p] = streak[p]
          /\ condemned'[p] = condemned[p] /\ Spent(p)' = Spent(p)
      BY <1>2, <2>2, <2>3
    \* A breaker that is not closed starts nothing: asking an elapsed one closes it.
    <3>2. breaker[p] # "closed" => Wave(p) = {}
      BY <1>1, <2>2 DEF Wave, Admitted, Gagged, BreakerInv
    <3>3. breaker[p] # "closed" => Sampling(p)' = Sampling(p)
      BY <1>1, <1>2, <3>2, NoWaveNoSamples
    <3>4. /\ breaker[p] = "closed" =>
               condemned[p] <= Spent(p) + streak[p] /\ streak[p] < BREAKER_TRIP_STREAK
          /\ breaker[p] = "elapsed" => Sampling(p) = {}
          /\ breaker[p] # "closed" =>
               condemned[p] + Cardinality(Sampling(p)) <= Spent(p) + Window(p)
      BY <1>1 DEF BreakerCounts
    <3>. QED
      BY <3>1, <3>3, <3>4
  <2>. QED
    BY <2>1, <2>2
<1>. QED
  BY <1>7, <1>8, <1>9, <1>11, <1>12, <1>13, InvPartsAgain

LEMMA HangKeeps ==
  ASSUME HealthInv, NEW l \in Loops, NEW s \in Streams, ProbeHangs(l, s)
  PROVE  HealthInv'
<1>1. PoolInv /\ QueueInv /\ BreakerInv /\ LoopInv /\ ProbesArePolite /\ BreakerCounts
  BY InvParts
<1>2. PoolInv' /\ QueueInv' /\ BreakerInv'
  BY <1>1, SamePool, SameQueue, SameBreaker DEF ProbeHangs
<1>3. LoopInv'
  BY <1>1 DEF ProbeHangs, LoopInv, ProbesAreAwaited
<1>4. ProbesArePolite'
  BY <1>1, SamePolite DEF ProbeHangs, poolVars
<1>5. \A m \in Loops : probes'[m] \ hung'[m] \subseteq probes[m] \ hung[m]
  BY <1>1 DEF ProbeHangs, LoopInv
<1>6. BreakerCounts'
  BY <1>1, <1>3, <1>5, FewerCounts DEF ProbeHangs, LoopInv
<1>. QED
  BY <1>2, <1>3, <1>4, <1>6, InvPartsAgain

\* Boots, Idles and Restart: only loops change their place.
LEMMA LoopsMove ==
  ASSUME HealthInv, LoopInv',
         UNCHANGED <<poolVars, viewing, blocked, dueVars, breakerVars, probes, hung>>
  PROVE  HealthInv'
<1>1. PoolInv /\ QueueInv /\ BreakerInv /\ ProbesArePolite /\ BreakerCounts
  BY InvParts
<1>2. PoolInv' /\ QueueInv' /\ BreakerInv'
  BY <1>1, SamePool, SameQueue, SameBreaker
<1>3. ProbesArePolite' /\ BreakerCounts'
  BY <1>1, SamePolite, SameCounts DEF poolVars
<1>. QED
  BY <1>2, <1>3, InvPartsAgain

\* A viewer takes or gives back one slot, of which no probe knows.
LEMMA ViewersKeep ==
  ASSUME HealthInv, NEW p \in Providers, ViewerTunes(p) \/ ViewerGoes(p)
  PROVE  HealthInv'
<1>1. PoolInv /\ QueueInv /\ BreakerInv /\ LoopInv /\ ProbesArePolite /\ BreakerCounts
  BY InvParts
<1>2. UNCHANGED <<max, blocked, dueVars, breakerVars, loopVars>>
  BY DEF ViewerTunes, ViewerGoes
<1>3. QueueInv' /\ BreakerInv'
  BY <1>1, <1>2, SameQueue, SameBreaker
<1>4. LoopInv' /\ BreakerCounts'
  BY <1>1, <1>2, SameCounts DEF LoopInv, ProbesAreAwaited, loopVars
<1>5. \A q \in Providers : /\ used[q] = viewing[q] + Cardinality(Probing(q))
                           /\ Cardinality(Probing(q)) \in Nat
                           /\ used[q] \in Nat /\ viewing[q] \in Nat
  BY <1>1, ProbingIsFinite DEF ProbesArePolite, SlotsAreAccounted, PoolInv, PoolTypeOK, LoopInv
<1>6. \/ /\ used' = [used EXCEPT ![p] = used[p] + 1]
         /\ viewing' = [viewing EXCEPT ![p] = viewing[p] + 1]
      \/ /\ used' = [used EXCEPT ![p] = used[p] - 1]
         /\ viewing' = [viewing EXCEPT ![p] = viewing[p] - 1]
         /\ viewing[p] > 0
  BY <1>5 DEF ViewerTunes, ViewerGoes, Acquired, Released, LessSlots
<1>7. PoolInv'
  <2>1. /\ used' \in [Providers -> Nat] /\ viewing' \in [Providers -> Nat]
    BY <1>1, <1>5, <1>6 DEF PoolInv, PoolTypeOK
  <2>. QED
    BY <1>1, <1>2, <2>1 DEF PoolInv, PoolTypeOK
<1>8. \A q : Probing(q)' = Probing(q)
  BY <1>2 DEF Probing, loopVars
<1>9. ProbesArePolite'
  <2>1. \A q \in Providers : used'[q] = viewing'[q] + Cardinality(Probing(q))
    BY <1>1, <1>5, <1>6 DEF PoolInv, PoolTypeOK
  <2>. QED
    BY <1>1, <1>8, <2>1 DEF ProbesArePolite, SlotsAreAccounted, ProbesLeaveHeadroom, Capacity
<1>. QED
  BY <1>3, <1>4, <1>7, <1>9, InvPartsAgain

LEMMA CooldownKeeps ==
  ASSUME HealthInv, NEW p \in Providers, CooldownElapses(p)
  PROVE  HealthInv'
<1>1. PoolInv /\ QueueInv /\ BreakerInv /\ LoopInv /\ ProbesArePolite /\ BreakerCounts
  BY InvParts
<1>2. PoolInv' /\ QueueInv'
  BY <1>1, SamePool, SameQueue DEF CooldownElapses
<1>3. BreakerInv' /\ LoopInv'
  BY <1>1 DEF CooldownElapses, BreakerInv, LoopInv, ProbesAreAwaited, loopVars
<1>4. ProbesArePolite'
  BY <1>1, SamePolite DEF CooldownElapses, poolVars, loopVars
<1>5. \A q : Sampling(q)' = Sampling(q)
  BY DEF CooldownElapses, loopVars, Sampling, Probing
<1>6. Sampling(p) = {}
  <2>1. ASSUME NEW l \in Loops, NEW s \in Streams PROVE <<l, s>> \notin Sampling(p)
    <3>1. <<l, s>> \in Sampling(p) <=> s \in probes[l] \ hung[l] /\ ProviderOf[s] = p
      BY <1>1, SamplingMembers DEF LoopInv
    <3>2. \A k \in Loops : \A t \in probes[k] \ hung[k] : ProviderOf[t] # p
      BY DEF CooldownElapses
    <3>. QED
      BY <3>1, <3>2
  <2>2. \A q : Probing(q) \in SUBSET (Loops \X Streams)
    BY <1>1, ProbingMembers DEF LoopInv
  <2>3. \A x \in Sampling(p) : x \in Loops \X Streams
    BY <2>2 DEF Sampling
  <2>. QED
    BY <2>1, <2>3
<1>7. breaker' = [breaker EXCEPT ![p] = "elapsed"] /\ breaker[p] = "open"
      /\ streak' = streak /\ condemned' = condemned /\ windows' = windows
  BY DEF CooldownElapses
<1>8. BreakerCounts'
  BY <1>1, <1>5, <1>6, <1>7 DEF BreakerCounts, BreakerInv, Spent, Window, Capacity
<1>. QED
  BY <1>2, <1>3, <1>4, <1>8, InvPartsAgain

LEMMA RestKeeps ==
  ASSUME HealthInv,
         BecomesDue \/ (\E p \in Providers : VpnChanges(p)) \/ UNCHANGED vars
  PROVE  HealthInv'
<1>1. PoolInv /\ QueueInv /\ BreakerInv /\ LoopInv /\ ProbesArePolite /\ BreakerCounts
  BY InvParts
<1>2. UNCHANGED <<poolVars, viewing, order, breakerVars, loopVars>>
  BY DEF BecomesDue, VpnChanges, vars, dueVars
<1>3. PoolInv'
  BY <1>1, <1>2 DEF PoolInv, PoolTypeOK, poolVars, BecomesDue, VpnChanges, vars
<1>4. QueueInv'
  <2>1. Len(order) \in Nat
    BY <1>1, LenProperties DEF QueueInv
  <2>2. due' \in 0 .. Len(order)
    BY <1>1, <2>1 DEF QueueInv, BecomesDue, VpnChanges, vars, dueVars
  <2>. QED
    BY <1>1, <1>2, <2>2 DEF QueueInv, QueueIsWhole
<1>5. BreakerInv' /\ LoopInv'
  BY <1>1, <1>2, SameBreaker DEF LoopInv, ProbesAreAwaited, loopVars
<1>6. ProbesArePolite' /\ BreakerCounts'
  BY <1>1, <1>2, SamePolite, SameCounts DEF poolVars, loopVars
<1>. QED
  BY <1>3, <1>4, <1>5, <1>6, InvPartsAgain

-----------------------------------------------------------------------------
(* The theorems.                                                           *)

LEMMA NextKeeps == HealthInv /\ [Next]_vars => HealthInv'
<1> SUFFICES ASSUME HealthInv, [Next]_vars PROVE HealthInv'
  OBVIOUS
<1>1. PoolInv /\ LoopInv
  BY InvParts
<1>2. ASSUME NEW l \in Loops, Boots(l) PROVE HealthInv'
  <2>1. LoopInv'
    BY <1>1, <1>2 DEF Boots, LoopInv, Places, ProbesAreAwaited
  <2>. QED
    BY <1>2, <2>1, LoopsMove DEF Boots
<1>3. ASSUME NEW l \in Loops, Iterate(l) PROVE HealthInv'
  BY <1>3, IterateKeeps
<1>4. ASSUME NEW l \in Loops, Idles(l) PROVE HealthInv'
  <2>1. 0 \in 0 .. MAX_STRIKES /\ 0 \in 0 .. MAX_STRIKES + 1
    BY HealthAssumption
  <2>2. LoopInv'
    BY <1>1, <1>4, <2>1 DEF Idles, Continues, LoopInv, Places, ProbesAreAwaited
  <2>. QED
    BY <1>4, <2>2, LoopsMove DEF Idles
<1>5. ASSUME NEW l \in Loops, NEW s \in Streams, ProbeEnds(l, s) PROVE HealthInv'
  BY <1>5, AliveKeeps, DeadKeeps, ThrowKeeps DEF ProbeEnds
<1>6. ASSUME NEW l \in Loops, NEW s \in Streams, ProbeHangs(l, s) PROVE HealthInv'
  BY <1>6, HangKeeps
<1>7. ASSUME NEW l \in Loops, Restart(l) PROVE HealthInv'
  <2>1. strikes' \in 0 .. MAX_STRIKES /\ wedges' \in 0 .. MAX_STRIKES + 1
    BY <1>1, <1>7, HealthAssumption DEF Restart, LoopInv
  \* The loop that takes over had ended: it has no probe under way.
  <2>2. LoopInv'
    BY <1>1, <1>7, <2>1 DEF Restart, Replaced, LoopInv, Places, ProbesAreAwaited
  <2>. QED
    BY <1>7, <2>2, LoopsMove DEF Restart
<1>8. ASSUME NEW p \in Providers, ViewerTunes(p) \/ ViewerGoes(p) PROVE HealthInv'
  BY <1>8, ViewersKeep
<1>9. ASSUME NEW p \in Providers, CooldownElapses(p) PROVE HealthInv'
  BY <1>9, CooldownKeeps
<1>. QED
  BY <1>2, <1>3, <1>4, <1>5, <1>6, <1>7, <1>8, <1>9, RebootKeeps, RestKeeps
     DEF Next, LoopStep, Watchdog

LEMMA HealthInvHolds == Spec => []HealthInv
BY Starts, NextKeeps, PTL DEF Spec

\* Every variable keeps its type: a place in the queue is due, a streak ends at the trip, the
\* watchdog's strikes stay within its limit.
THEOREM HealthTypes == Spec => []TypeOK
<1>1. HealthInv => TypeOK
  BY DEF HealthInv
<1>. QED
  BY <1>1, HealthInvHolds, PTL

\* Probes are tenants of the pool: however they end, hang or are superseded by a restart, the
\* pool counts exactly the viewers and the probes under way, and all loops together leave
\* every provider its headroom.
THEOREM ProbesStayPolite == Spec => []ProbesArePolite
<1>1. HealthInv => ProbesArePolite
  BY DEF HealthInv
<1>. QED
  BY <1>1, HealthInvHolds, PTL

\* A provider outage condemns the catalogue at a bounded rate: from one sign of life that the
\* breaker takes to the next, no more streams are written dead than it takes to trip and the
\* other probes under way then, and as many again for each cooldown that ended and each
\* restart in between.  MAX_WINDOWS is any number: the bound holds however long it lasts.
THEOREM OutageStaysContained == Spec => []OutageIsContained
<1>1. HealthInv => OutageIsContained
  <2> SUFFICES ASSUME HealthInv, NEW p \in Providers
               PROVE  condemned[p] <= (windows[p] + 1) * Window(p)
    BY DEF OutageIsContained
  <2>1. BreakerInv
    BY InvParts
  <2>. QED
    BY <2>1, SpentType, WindowHolds
<1>. QED
  BY <1>1, HealthInvHolds, PTL
=============================================================================
