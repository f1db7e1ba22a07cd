---------------------------- MODULE UpkeepProofs ----------------------------
(***************************************************************************)
(* Theorems about the loops that keep the catalogue, the guide, the media  *)
(* servers and the process in order, for any number of runs, channels,     *)
(* slots, users, logins and tries.  Each part has its invariant, which     *)
(* holds at the start, is kept by the part's own steps and by those of the *)
(* others, which leave its variables.                                      *)
(***************************************************************************)
EXTENDS MCUpkeep, FiniteSetTheorems, SequenceTheorems, TLAPS

-----------------------------------------------------------------------------
(* Least and greatest members.                                             *)

LEMMA LeastOf ==
  ASSUME NEW S \in SUBSET Nat, S # {}
  PROVE  \E l \in S : \A k \in S : l <= k
<1>1. PICK x \in S : \A y \in S : ~ (<<y, x>> \in OpToRel(<, Nat))
  BY NatLessThanWellFounded, WFMin
<1>2. ASSUME NEW y \in S PROVE x <= y
  <2>1. ~ (<<y, x>> \in OpToRel(<, Nat))
    BY <1>1
  <2>2. ~ (y < x)
    BY <2>1 DEF OpToRel
  <2>. QED
    BY <2>2
<1>. QED
  BY <1>2

LEMMA GreatestOf ==
  ASSUME NEW bound \in Nat, NEW S \in SUBSET (0..bound), S # {}
  PROVE  \E l \in S : \A k \in S : k <= l
<1>. DEFINE Above == {n \in Nat : \A k \in S : k <= n}
<1>2. bound \in Above
  OBVIOUS
<1>3. PICK n \in Above : \A m \in Above : n <= m
  BY <1>2, LeastOf
<1>4. n \in S
  <2>1. SUFFICES ASSUME n \notin S PROVE FALSE
    OBVIOUS
  <2>2. PICK k \in S : TRUE
    OBVIOUS
  <2>3. n \in Nat /\ k \in Nat /\ k <= n /\ k # n
    BY <1>3, <2>1, <2>2
  <2>4. n - 1 \in Above
    BY <1>3, <2>1, <2>3
  <2>. QED
    BY <1>3, <2>3, <2>4
<1>. QED
  BY <1>3, <1>4

\* What is counted from 1 on.
LEMMA Counted ==
  ASSUME NEW S \in {Names, Users, Logins}
  PROVE  \E n \in Nat : S = 1..n
<1>1. IsFiniteSet(S) /\ S = 1..Cardinality(S)
  BY UpkeepAssumption
<1>2. Cardinality(S) \in Nat
  BY <1>1, FS_CardinalityType
<1>. QED
  BY <1>1, <1>2

-----------------------------------------------------------------------------
(* Induction and recursion over numbers and finite sets, for sets and       *)
(* functions.                                                               *)

LEMMA AllNumbers ==
  ASSUME NEW T \in SUBSET Nat, 0 \in T, \A n \in T : n + 1 \in T
  PROVE  T = Nat
<1>. SUFFICES ASSUME Nat \ T # {} PROVE FALSE
  OBVIOUS
<1>1. PICK x \in Nat \ T : \A y \in Nat \ T : x <= y
  BY LeastOf
<1>2. x # 0 /\ x - 1 \in Nat /\ ~(x <= x - 1)
  BY <1>1
<1>3. x - 1 \in T
  BY <1>1, <1>2
<1>4. (x - 1) + 1 \in T
  BY <1>3
<1>. QED
  BY <1>1, <1>2, <1>4

GoesOn(top, A, advance) == \A n \in 1..top : \A a \in A : advance[n][a] \in A
CountsUp(top, A, zero, advance, f) ==
  f \in [0..top -> A] /\ \A n \in 0..top : f[n] = IF n = 0 THEN zero ELSE advance[n][f[n - 1]]

LEMMA RecursionOnNumbers ==
  ASSUME NEW top \in Nat, NEW A, NEW zero \in A, NEW advance, GoesOn(top, A, advance)
  PROVE  \E f : CountsUp(top, A, zero, advance, f)
<1>. USE DEF GoesOn
<1>. DEFINE Upto(k) == \E f \in [0..top -> A] :
              \A n \in 0..top : n <= k => f[n] = IF n = 0 THEN zero ELSE advance[n][f[n - 1]]
            T == {k \in Nat : Upto(k)}
<1>1. 0 \in T
  <2>1. [n \in 0..top |-> zero] \in [0..top -> A]
    OBVIOUS
  <2>2. \A n \in 0..top : n <= 0 => n = 0 /\ [m \in 0..top |-> zero][n] = zero
    OBVIOUS
  <2>. QED
    BY <2>1, <2>2
<1>2. ASSUME NEW k \in T PROVE k + 1 \in T
  <2>1. PICK f \in [0..top -> A] :
          \A n \in 0..top : n <= k => f[n] = IF n = 0 THEN zero ELSE advance[n][f[n - 1]]
    OBVIOUS
  <2>. DEFINE g == [n \in 0..top |-> IF n = 0 THEN zero ELSE advance[n][f[n - 1]]]
  <2>2. \A n \in 0..top : n # 0 => n - 1 \in 0..top /\ n \in 1..top
    OBVIOUS
  <2>3. g \in [0..top -> A]
    BY <2>2
  <2>4. ASSUME NEW n \in 0..top, n <= k + 1
        PROVE  g[n] = IF n = 0 THEN zero ELSE advance[n][g[n - 1]]
    <3>1. CASE n = 0
      BY <3>1
    <3>2. CASE n # 0
      <4>1. n - 1 \in 0..top /\ n - 1 <= k
        BY <2>4, <3>2
      <4>2. g[n - 1] = f[n - 1]
        BY <2>1, <4>1
      <4>. QED
        BY <3>2, <4>2
    <3>. QED
      BY <3>1, <3>2
  <2>. HIDE DEF g
  <2>. QED
    BY <2>3, <2>4
<1>3. T = Nat
  <2>. HIDE DEF T
  <2>1. T \in SUBSET Nat
    BY DEF T
  <2>. QED
    BY <1>1, <1>2, <2>1, AllNumbers
<1>. HIDE DEF T
<1>4. Upto(top)
  BY <1>3 DEF T
<1>5. PICK f \in [0..top -> A] :
        \A n \in 0..top : f[n] = IF n = 0 THEN zero ELSE advance[n][f[n - 1]]
  BY <1>4
<1>6. CountsUp(top, A, zero, advance, f)
  BY <1>5 DEF CountsUp
<1>. QED
  BY <1>6

\* What holds of the empty set and of a set as soon as it holds without one of its members.
Grows(base, good) ==
  \A S \in SUBSET base : S # {} => \E x \in S : S \ {x} \in good => S \in good

LEMMA AllSubsets ==
  ASSUME NEW base, IsFiniteSet(base), NEW good, {} \in good, Grows(base, good)
  PROVE  \A S \in SUBSET base : S \in good
<1>. USE DEF Grows
<1>. DEFINE T == {k \in Nat : \A S \in SUBSET base : Cardinality(S) = k => S \in good}
<1>0. \A S \in SUBSET base : IsFiniteSet(S) /\ Cardinality(S) \in Nat
  BY FS_Subset, FS_CardinalityType
<1>1. 0 \in T
  BY <1>0, FS_EmptySet
<1>2. ASSUME NEW k \in T PROVE k + 1 \in T
  <2>. SUFFICES ASSUME NEW S \in SUBSET base, Cardinality(S) = k + 1 PROVE S \in good
    OBVIOUS
  <2>1. S # {}
    BY FS_EmptySet
  <2>2. PICK x \in S : S \ {x} \in good => S \in good
    BY <2>1
  <2>3. Cardinality(S \ {x}) = Cardinality(S) - 1 /\ S \ {x} \in SUBSET base
    BY <1>0, <2>2, FS_RemoveElement
  <2>4. S \ {x} \in good
    BY <2>3
  <2>. QED
    BY <2>2, <2>4
<1>3. T = Nat
  <2>. HIDE DEF T
  <2>1. T \in SUBSET Nat
    BY DEF T
  <2>. QED
    BY <1>1, <1>2, <2>1, AllNumbers
<1>. QED
  BY <1>0, <1>3

Picks(base, pick) == \A S \in SUBSET base : S # {} => pick[S] \in S
Advances(base, A, advance) ==
  \A S \in SUBSET base : S # {} => \A a \in A : advance[S][a] \in A
Recurs(base, A, zero, pick, advance, f) ==
  f \in [SUBSET base -> A] /\
  \A S \in SUBSET base : f[S] = IF S = {} THEN zero ELSE advance[S][f[S \ {pick[S]}]]

LEMMA RecursionOnSubsets ==
  ASSUME NEW base, IsFiniteSet(base), NEW A, NEW zero \in A, NEW pick, NEW advance,
         Picks(base, pick), Advances(base, A, advance)
  PROVE  \E f : Recurs(base, A, zero, pick, advance, f)
<1>. USE DEF Picks, Advances
<1>. DEFINE Upto(k) == \E f \in [SUBSET base -> A] :
              \A S \in SUBSET base : Cardinality(S) <= k =>
                f[S] = IF S = {} THEN zero ELSE advance[S][f[S \ {pick[S]}]]
            T == {k \in Nat : Upto(k)}
<1>0. \A S \in SUBSET base : IsFiniteSet(S) /\ Cardinality(S) \in Nat
  BY FS_Subset, FS_CardinalityType
<1>1. 0 \in T
  <2>1. [S \in SUBSET base |-> zero] \in [SUBSET base -> A]
    OBVIOUS
  <2>2. \A S \in SUBSET base : Cardinality(S) <= 0 =>
          S = {} /\ [R \in SUBSET base |-> zero][S] = zero
    BY <1>0, FS_EmptySet
  <2>. QED
    BY <2>1, <2>2
<1>2. ASSUME NEW k \in T PROVE k + 1 \in T
  <2>1. PICK f \in [SUBSET base -> A] :
          \A S \in SUBSET base : Cardinality(S) <= k =>
            f[S] = IF S = {} THEN zero ELSE advance[S][f[S \ {pick[S]}]]
    OBVIOUS
  <2>. DEFINE g == [S \in SUBSET base |-> IF S = {} THEN zero ELSE advance[S][f[S \ {pick[S]}]]]
  <2>2. g \in [SUBSET base -> A]
    <3>1. \A S \in SUBSET base : S \ {pick[S]} \in SUBSET base
      OBVIOUS
    <3>2. \A S \in SUBSET base : f[S \ {pick[S]}] \in A
      BY <2>1, <3>1
    <3>. QED
      BY <3>2
  <2>3. ASSUME NEW S \in SUBSET base, Cardinality(S) <= k + 1
        PROVE  g[S] = IF S = {} THEN zero ELSE advance[S][g[S \ {pick[S]}]]
    <3>1. CASE S = {}
      BY <3>1
    <3>2. CASE S # {}
      <4>. DEFINE less == S \ {pick[S]}
      <4>1. Cardinality(less) = Cardinality(S) - 1 /\ less \in SUBSET base
        BY <1>0, <3>2, FS_RemoveElement
      <4>. HIDE DEF less
      <4>2. Cardinality(less) <= k
        BY <1>0, <2>3, <4>1
      <4>3. g[less] = f[less]
        BY <2>1, <4>1, <4>2
      <4>. QED
        BY <3>2, <4>3 DEF less
    <3>. QED
      BY <3>1, <3>2
  <2>. HIDE DEF g
  <2>4. Upto(k + 1)
    BY <2>2, <2>3, Zenon
  <2>5. k + 1 \in Nat
    OBVIOUS
  <2>. HIDE DEF Upto
  <2>. QED
    BY <2>4, <2>5
<1>3. T = Nat
  <2>. HIDE DEF T
  <2>1. T \in SUBSET Nat
    BY DEF T
  <2>. QED
    BY <1>1, <1>2, <2>1, AllNumbers
<1>4. Cardinality(base) \in Nat /\ \A S \in SUBSET base : Cardinality(S) <= Cardinality(base)
  BY FS_Subset, FS_CardinalityType
<1>. HIDE DEF T
<1>5. Upto(Cardinality(base))
  BY <1>3, <1>4 DEF T
<1>6. PICK f \in [SUBSET base -> A] :
        \A S \in SUBSET base : f[S] = IF S = {} THEN zero ELSE advance[S][f[S \ {pick[S]}]]
  BY <1>4, <1>5
<1>7. Recurs(base, A, zero, pick, advance, f)
  BY <1>6 DEF Recurs
<1>. QED
  BY <1>7

-----------------------------------------------------------------------------
(* Ingest: numbers are given out one by one, each to one channel.           *)

Groups == {"live", "ev"}
BlockOf == [live |-> 1, ev |-> 2]
NumbersApart(nums) ==
  \A n \in Names : nums[n] # 0 => nums[n] # 1 /\ \A m \in Names \ {n} : nums[m] # nums[n]

LEMMA IngBounds ==
  /\ Entries = {1, 2} /\ 1 \in Names /\ 2 \in Names /\ IsFiniteSet(Names)
  /\ \E n \in Nat : Names = 1..n
  /\ Names \subseteq Nat /\ 0 \notin Names
<1>1. Entries = {1, 2} /\ 1 \in Names /\ 2 \in Names
  BY UpkeepAssumption
<1>2. IsFiniteSet(Names)
  BY UpkeepAssumption
<1>3. PICK n \in Nat : Names = 1..n
  BY Counted
<1>. QED
  BY <1>1, <1>2, <1>3

LEMMA IngCardinality == \A S : Ing!Cardinality(S) = Cardinality(S)
BY DEF Ing!Cardinality, Cardinality

LEMMA IngLargest ==
  ASSUME NEW S, S # {}, S \in SUBSET Names \/ S \in SUBSET {1, 2}
  PROVE  Ing!Largest(S) \in S
<1>1. \E n \in Nat : S \subseteq 0..n
  <2>1. CASE S \in SUBSET Names
    <3>1. PICK n \in Nat : Names = 1..n
      BY IngBounds
    <3>2. S \subseteq 0..n
      BY <2>1, <3>1
    <3>. QED
      BY <3>2
  <2>2. CASE S \in SUBSET {1, 2}
    <3>1. S \subseteq 0..2
      BY <2>2
    <3>. QED
      BY <3>1
  <2>. QED
    BY <2>1, <2>2
<1>2. \E l \in S : \A k \in S : k <= l
  BY <1>1, GreatestOf
<1>. QED
  BY <1>2, Zenon DEF Ing!Largest

LEMMA IngFree ==
  ASSUME NEW start \in Nat, start # 0, NEW taken \in SUBSET Nat, IsFiniteSet(taken)
  PROVE  /\ Ing!FreeNumber(start, taken) \in Nat /\ Ing!FreeNumber(start, taken) # 0
         /\ Ing!FreeNumber(start, taken) \notin taken /\ Ing!FreeNumber(start, taken) # 1
<1>. DEFINE c == Cardinality(taken)
            span == start..(start + c + 1)
            used == taken \cup {1}
<1>1. c \in Nat
  BY FS_CardinalityType
<1>2. IsFiniteSet(used) /\ Cardinality(used) \in Nat /\ Cardinality(used) <= c + 1
  <2>1. IsFiniteSet(used) /\ (Cardinality(used) = c \/ Cardinality(used) = c + 1)
    BY FS_AddElement
  <2>. HIDE DEF used, c
  <2>. QED
    BY <1>1, <2>1
<1>3. Cardinality(span) = c + 2
  <2>1. start \in Int /\ start + c + 1 \in Int /\ ~(start > start + c + 1)
    BY <1>1
  <2>2. Cardinality(span) = (start + c + 1) - start + 1
    BY <2>1, FS_Interval
  <2>. QED
    BY <1>1, <2>2
<1>4. ~(span \subseteq used)
  <2>1. SUFFICES ASSUME span \subseteq used PROVE FALSE
    OBVIOUS
  <2>2. Cardinality(span) <= Cardinality(used)
    BY <1>2, <2>1, FS_Subset
  <2>. QED
    BY <1>1, <1>2, <1>3, <2>2
<1>5. span \subseteq Nat /\ (span \ used) \in SUBSET Nat /\ span \ used # {}
  BY <1>1, <1>4
<1>6. PICK l \in span \ used : \A k \in span \ used : l <= k
  BY <1>5, LeastOf
<1>7. \A j \in start..(l - 1) : j \in used
  <2>1. ASSUME NEW j \in start..(l - 1) PROVE j \in span /\ ~(l <= j)
    BY <1>1, <1>6
  <2>. QED
    BY <1>6, <2>1
<1>8. \E i \in start..(start + Cardinality(taken) + 1) :
        i \notin taken \cup {1} /\ \A j \in start..(i - 1) : j \in taken \cup {1}
  BY <1>6, <1>7
<1>9. Ing!FreeNumber(start, taken) \in start..(start + Cardinality(taken) + 1)
      /\ Ing!FreeNumber(start, taken) \notin taken \cup {1}
  <2>. DEFINE fits(i) == i \notin taken \cup {1} /\ \A j \in start..(i - 1) : j \in taken \cup {1}
  <2>1. Ing!FreeNumber(start, taken) =
          CHOOSE i \in start..(start + Cardinality(taken) + 1) : fits(i)
    BY IngCardinality DEF Ing!FreeNumber
  <2>2. \E i \in start..(start + Cardinality(taken) + 1) : fits(i)
    BY <1>8
  <2>3. (CHOOSE i \in start..(start + Cardinality(taken) + 1) : fits(i))
           \in start..(start + Cardinality(taken) + 1)
        /\ fits(CHOOSE i \in start..(start + Cardinality(taken) + 1) : fits(i))
    <3>. HIDE DEF fits
    <3>. QED
      BY <2>2, Zenon
  <2>. QED
    BY <2>1, <2>3
<1>. QED
  BY <1>1, <1>9

LEMMA IngTaken ==
  ASSUME NEW nums \in [Names -> Nat]
  PROVE  /\ {nums[m] : m \in Names} \ {0} \in SUBSET Nat
         /\ IsFiniteSet({nums[m] : m \in Names} \ {0})
<1>. DEFINE T == {nums[m] : m \in Names}
<1>1. nums \in Surjection(Names, T)
  BY DEF Surjection
<1>2. IsFiniteSet(T)
  BY <1>1, IngBounds, FS_Surjection
<1>. QED
  BY <1>2, FS_RemoveElement

\* The next number for one channel.
IngGiven(cat, acc, n) ==
  [acc EXCEPT ![n] = Ing!FreeNumber(BlockOf[cat[n]], {acc[m] : m \in Names} \ {0})]

LEMMA IngGives ==
  ASSUME NEW cat, NEW acc \in [Names -> Nat], NEW n \in Names, cat[n] \in Groups
  PROVE  /\ IngGiven(cat, acc, n) \in [Names -> Nat]
         /\ \A m \in Names \ {n} : IngGiven(cat, acc, n)[m] = acc[m]
         /\ NumbersApart(acc) => NumbersApart(IngGiven(cat, acc, n))
<1>. DEFINE taken == {acc[m] : m \in Names} \ {0}
            new == Ing!FreeNumber(BlockOf[cat[n]], taken)
<1>1. BlockOf[cat[n]] \in Nat /\ BlockOf[cat[n]] # 0
  BY DEF Groups, BlockOf
<1>2. new \in Nat /\ new # 0 /\ new \notin taken /\ new # 1
  BY <1>1, IngTaken, IngFree
<1>3. IngGiven(cat, acc, n) = [acc EXCEPT ![n] = new]
  BY DEF IngGiven
<1>4. \A m \in Names : acc[m] # 0 => acc[m] \in taken
  OBVIOUS
<1>. HIDE DEF new, taken
<1>. QED
  BY <1>2, <1>3, <1>4 DEF NumbersApart

LEMMA IngNumbered ==
  ASSUME NEW cat, NEW nums \in [Names -> Nat], NEW todo \in SUBSET Names,
         \A n \in todo : cat[n] \in Groups
  PROVE  /\ Ing!Numbered(cat, nums, todo) \in [Names -> Nat]
         /\ \A m \in Names \ todo : Ing!Numbered(cat, nums, todo)[m] = nums[m]
         /\ NumbersApart(nums) => NumbersApart(Ing!Numbered(cat, nums, todo))
<1>. DEFINE Is(f) == f = [S \in SUBSET todo |->
              IF S = {} THEN nums
              ELSE LET n == Ing!Largest(S) acc == f[S \ {n}]
                   IN  [acc EXCEPT ![n] = Ing!FreeNumber([live |-> 1, ev |-> 2][cat[n]],
                                                         {acc[m] : m \in Names} \ {0})]]
            after == CHOOSE f : Is(f)
            pick == [S \in SUBSET todo |-> Ing!Largest(S)]
            advance == [S \in SUBSET todo |-> [acc \in [Names -> Nat] |->
                          IngGiven(cat, acc, pick[S])]]
<1>1. IsFiniteSet(todo)
  BY IngBounds, FS_Subset
<1>2. \A S \in SUBSET todo : S # {} => pick[S] \in S /\ Ing!Largest(S) = pick[S]
  BY IngLargest
<1>3. \A S \in SUBSET todo : S # {} => \A acc \in [Names -> Nat] :
        advance[S][acc] = IngGiven(cat, acc, pick[S]) /\ advance[S][acc] \in [Names -> Nat]
  <2>. SUFFICES ASSUME NEW S \in SUBSET todo, S # {}, NEW acc \in [Names -> Nat]
                PROVE  advance[S][acc] = IngGiven(cat, acc, pick[S])
                       /\ IngGiven(cat, acc, pick[S]) \in [Names -> Nat]
    OBVIOUS
  <2>1. pick[S] \in todo /\ pick[S] \in Names /\ cat[pick[S]] \in Groups
    BY <1>2
  <2>2. advance[S][acc] = IngGiven(cat, acc, pick[S])
    OBVIOUS
  <2>. HIDE DEF advance, pick
  <2>. QED
    BY <2>1, <2>2, IngGives
<1>. HIDE DEF advance, pick
<1>4. PICK f \in [SUBSET todo -> [Names -> Nat]] :
        \A S \in SUBSET todo :
          f[S] = IF S = {} THEN nums ELSE advance[S][f[S \ {pick[S]}]]
  <2>1. Picks(todo, pick)
    BY <1>2 DEF Picks
  <2>2. Advances(todo, [Names -> Nat], advance)
    BY <1>3 DEF Advances
  <2>3. \E f : Recurs(todo, [Names -> Nat], nums, pick, advance, f)
    BY <1>1, <2>1, <2>2, RecursionOnSubsets
  <2>. QED
    BY <2>3 DEF Recurs
<1>5. Is(f)
  <2>1. ASSUME NEW S \in SUBSET todo, S # {}
        PROVE  f[S] = LET n == Ing!Largest(S) acc == f[S \ {n}]
                      IN  [acc EXCEPT ![n] = Ing!FreeNumber([live |-> 1, ev |-> 2][cat[n]],
                                                            {acc[m] : m \in Names} \ {0})]
    <3>1. S \ {pick[S]} \in SUBSET todo
      OBVIOUS
    <3>2. f[S \ {pick[S]}] \in [Names -> Nat]
      BY <3>1, <1>4
    <3>3. f[S] = IngGiven(cat, f[S \ {pick[S]}], pick[S])
      BY <1>3, <1>4, <2>1, <3>2
    <3>4. Ing!Largest(S) = pick[S]
      BY <1>2, <2>1
    <3>5. f[S] = IngGiven(cat, f[S \ {Ing!Largest(S)}], Ing!Largest(S))
      BY <3>3, <3>4
    <3>. QED
      BY <3>5, Zenon DEF IngGiven, BlockOf
  <2>2. f = [S \in SUBSET todo |-> f[S]]
    OBVIOUS
  <2>3. \A S \in SUBSET todo : f[S] = IF S = {} THEN nums
              ELSE LET n == Ing!Largest(S) acc == f[S \ {n}]
                   IN  [acc EXCEPT ![n] = Ing!FreeNumber([live |-> 1, ev |-> 2][cat[n]],
                                                         {acc[m] : m \in Names} \ {0})]
    BY <1>4, <2>1, Zenon
  <2>. QED
    BY <2>2, <2>3, Zenon
<1>6. Is(after)
  <2>1. \E g : Is(g)
    BY <1>5
  <2>. HIDE DEF Is
  <2>. QED
    BY <2>1, Zenon
<1>7. Ing!Numbered(cat, nums, todo) = after[todo]
  BY Zenon DEF Ing!Numbered
<1>8. /\ after[{}] = nums
      /\ \A S \in SUBSET todo : S # {} => after[S] = IngGiven(cat, after[S \ {pick[S]}], pick[S])
  <2>1. after[{}] = nums
    BY <1>6
  <2>2. ASSUME NEW S \in SUBSET todo, S # {}
        PROVE  after[S] = IngGiven(cat, after[S \ {pick[S]}], pick[S])
    <3>1. after[S] = LET n == Ing!Largest(S) acc == after[S \ {n}]
                     IN  [acc EXCEPT ![n] = Ing!FreeNumber([live |-> 1, ev |-> 2][cat[n]],
                                                           {acc[m] : m \in Names} \ {0})]
      <4>. HIDE DEF after
      <4>. QED
        BY <1>6, <2>2, Zenon
    <3>2. Ing!Largest(S) = pick[S]
      BY <1>2, <2>2
    <3>. HIDE DEF after
    <3>3. after[S] = IngGiven(cat, after[S \ {Ing!Largest(S)}], Ing!Largest(S))
      BY <3>1, Zenon DEF IngGiven, BlockOf
    <3>. QED
      BY <3>2, <3>3
  <2>. HIDE DEF after
  <2>. QED
    BY <2>1, <2>2
<1>. HIDE DEF after, Is
<1>. DEFINE good == {S \in SUBSET todo :
              /\ after[S] \in [Names -> Nat]
              /\ \A m \in Names \ S : after[S][m] = nums[m]
              /\ NumbersApart(nums) => NumbersApart(after[S])}
<1>9. {} \in good
  BY <1>8
<1>10. ASSUME NEW S \in SUBSET todo, S # {}
       PROVE  \E x \in S : S \ {x} \in good => S \in good
  <2>1. pick[S] \in S /\ pick[S] \in Names /\ cat[pick[S]] \in Groups
    BY <1>2, <1>10
  <2>2. ASSUME S \ {pick[S]} \in good PROVE S \in good
    <3>. DEFINE acc == after[S \ {pick[S]}]
    <3>1. /\ acc \in [Names -> Nat] /\ \A m \in Names \ (S \ {pick[S]}) : acc[m] = nums[m]
          /\ NumbersApart(nums) => NumbersApart(acc)
      BY <2>2
    <3>2. after[S] = IngGiven(cat, acc, pick[S])
      BY <1>8, <1>10
    <3>. HIDE DEF acc
    <3>3. /\ after[S] \in [Names -> Nat] /\ \A m \in Names \ {pick[S]} : after[S][m] = acc[m]
          /\ NumbersApart(acc) => NumbersApart(after[S])
      BY <2>1, <3>1, <3>2, IngGives
    <3>4. \A m \in Names \ S : after[S][m] = nums[m]
      BY <2>1, <3>1, <3>3
    <3>. QED
      BY <3>1, <3>3, <3>4, Zenon
  <2>. HIDE DEF good
  <2>. QED
    BY <2>1, <2>2
<1>11. todo \in good
  <2>. HIDE DEF good
  <2>1. Grows(todo, good)
    BY <1>10, Zenon DEF Grows
  <2>2. \A S \in SUBSET todo : S \in good
    BY <1>1, <1>9, <2>1, AllSubsets, Zenon
  <2>. QED
    BY <2>2
<1>. QED
  BY <1>7, <1>11

\* What the admin asks for: everything numbered anew, block by block.
IngOfBlock(b) == {n \in Ing!Rows(category) : BlockOf[category[n]] = b}

LEMMA IngReflowed ==
  ASSUME category \in [Names -> Groups \cup {"none"}]
  PROVE  Ing!Reflowed \in [Names -> Nat] /\ NumbersApart(Ing!Reflowed)
<1>. DEFINE zero == [n \in Names |-> 0]
            Is(f) == f = [B \in SUBSET Ing!Blocks |->
              IF B = {} THEN [n \in Names |-> 0]
              ELSE LET b == Ing!Largest(B)
                   IN  Ing!Numbered(category, f[B \ {b}],
                                    {n \in Ing!Rows(category) :
                                       [live |-> 1, ev |-> 2][category[n]] = b})]
            after == CHOOSE f : Is(f)
            pick == [B \in SUBSET Ing!Blocks |-> Ing!Largest(B)]
            advance == [B \in SUBSET Ing!Blocks |-> [acc \in [Names -> Nat] |->
                          Ing!Numbered(category, acc, IngOfBlock(pick[B]))]]
<1>1. \A n \in Ing!Rows(category) : n \in Names /\ category[n] \in Groups
  BY DEF Ing!Rows
<1>2. Ing!Blocks \subseteq {1, 2} /\ IsFiniteSet(Ing!Blocks)
  <2>1. Ing!Blocks \subseteq {1, 2}
    BY <1>1 DEF Ing!Blocks, Groups
  <2>2. IsFiniteSet({1, 2})
    <3>1. {1, 2} = 1..2
      OBVIOUS
    <3>. QED
      BY <3>1, 1 \in Int, 2 \in Int, FS_Interval
  <2>. QED
    BY <2>1, <2>2, FS_Subset
<1>3. \A B \in SUBSET Ing!Blocks : B # {} => pick[B] \in B /\ Ing!Largest(B) = pick[B]
  BY <1>2, IngLargest
<1>4. \A b : IngOfBlock(b) \in SUBSET Names /\ \A n \in IngOfBlock(b) : category[n] \in Groups
  BY <1>1 DEF IngOfBlock
<1>5. \A b : \A acc \in [Names -> Nat] :
        /\ Ing!Numbered(category, acc, IngOfBlock(b)) \in [Names -> Nat]
        /\ NumbersApart(acc) => NumbersApart(Ing!Numbered(category, acc, IngOfBlock(b)))
  BY <1>4, IngNumbered
<1>6. \A B \in SUBSET Ing!Blocks : \A acc \in [Names -> Nat] :
        advance[B][acc] = Ing!Numbered(category, acc, IngOfBlock(pick[B]))
  OBVIOUS
<1>. HIDE DEF advance, pick
<1>7. PICK f : Recurs(Ing!Blocks, [Names -> Nat], zero, pick, advance, f)
  <2>1. Picks(Ing!Blocks, pick)
    BY <1>3 DEF Picks
  <2>2. Advances(Ing!Blocks, [Names -> Nat], advance)
    BY <1>5, <1>6 DEF Advances
  <2>3. zero \in [Names -> Nat]
    OBVIOUS
  <2>. HIDE DEF zero
  <2>. QED
    BY <1>2, <2>1, <2>2, <2>3, RecursionOnSubsets
<1>8. Is(f)
  <2>0. /\ f \in [SUBSET Ing!Blocks -> [Names -> Nat]]
        /\ \A B \in SUBSET Ing!Blocks : f[B] = IF B = {} THEN zero ELSE advance[B][f[B \ {pick[B]}]]
    <3>. HIDE DEF zero
    <3>. QED
      BY <1>7, Zenon DEF Recurs
  <2>1. ASSUME NEW B \in SUBSET Ing!Blocks, B # {}
        PROVE  f[B] = LET b == Ing!Largest(B)
                      IN  Ing!Numbered(category, f[B \ {b}],
                                       {n \in Ing!Rows(category) :
                                          [live |-> 1, ev |-> 2][category[n]] = b})
    <3>1. B \ {pick[B]} \in SUBSET Ing!Blocks
      OBVIOUS
    <3>2. f[B \ {pick[B]}] \in [Names -> Nat]
      BY <3>1, <2>0
    <3>3. f[B] = Ing!Numbered(category, f[B \ {pick[B]}], IngOfBlock(pick[B]))
      BY <1>6, <2>0, <2>1, <3>2
    <3>4. f[B] = Ing!Numbered(category, f[B \ {Ing!Largest(B)}], IngOfBlock(Ing!Largest(B)))
      BY <3>3, <1>3, <2>1
    <3>. QED
      BY <3>4, Zenon DEF IngOfBlock, BlockOf
  <2>2. f = [B \in SUBSET Ing!Blocks |-> f[B]]
    BY <2>0
  <2>3. \A B \in SUBSET Ing!Blocks : f[B] =
              IF B = {} THEN [n \in Names |-> 0]
              ELSE LET b == Ing!Largest(B)
                   IN  Ing!Numbered(category, f[B \ {b}],
                                    {n \in Ing!Rows(category) :
                                       [live |-> 1, ev |-> 2][category[n]] = b})
    BY <2>0, <2>1, Zenon
  <2>. QED
    BY <2>2, <2>3, Zenon
<1>9. Is(after)
  <2>1. \E g : Is(g)
    BY <1>8
  <2>. HIDE DEF Is
  <2>. QED
    BY <2>1, Zenon
<1>10. Ing!Reflowed = after[Ing!Blocks]
  BY Zenon DEF Ing!Reflowed
<1>11. /\ after[{}] = zero
       /\ \A B \in SUBSET Ing!Blocks : B # {} =>
            after[B] = Ing!Numbered(category, after[B \ {pick[B]}], IngOfBlock(pick[B]))
  <2>1. after[{}] = zero
    BY <1>9
  <2>2. ASSUME NEW B \in SUBSET Ing!Blocks, B # {}
        PROVE  after[B] = Ing!Numbered(category, after[B \ {pick[B]}], IngOfBlock(pick[B]))
    <3>1. after[B] = LET b == Ing!Largest(B)
                     IN  Ing!Numbered(category, after[B \ {b}],
                                      {n \in Ing!Rows(category) :
                                         [live |-> 1, ev |-> 2][category[n]] = b})
      <4>. HIDE DEF after
      <4>. QED
        BY <1>9, <2>2, Zenon
    <3>2. Ing!Largest(B) = pick[B]
      BY <1>3, <2>2
    <3>. HIDE DEF after
    <3>3. after[B] = Ing!Numbered(category, after[B \ {Ing!Largest(B)}],
                                  IngOfBlock(Ing!Largest(B)))
      BY <3>1, Zenon DEF IngOfBlock, BlockOf
    <3>. QED
      BY <3>2, <3>3
  <2>. HIDE DEF after
  <2>. QED
    BY <2>1, <2>2
<1>. HIDE DEF after, Is
<1>. DEFINE good == {B \in SUBSET Ing!Blocks :
                       after[B] \in [Names -> Nat] /\ NumbersApart(after[B])}
<1>12. {} \in good
  BY <1>11 DEF NumbersApart
<1>13. ASSUME NEW B \in SUBSET Ing!Blocks, B # {}
       PROVE  \E x \in B : B \ {x} \in good => B \in good
  <2>1. pick[B] \in B
    BY <1>3, <1>13
  <2>2. ASSUME B \ {pick[B]} \in good PROVE B \in good
    <3>1. after[B \ {pick[B]}] \in [Names -> Nat] /\ NumbersApart(after[B \ {pick[B]}])
      BY <2>2
    <3>2. after[B] = Ing!Numbered(category, after[B \ {pick[B]}], IngOfBlock(pick[B]))
      BY <1>11, <1>13
    <3>3. after[B] \in [Names -> Nat] /\ NumbersApart(after[B])
      BY <1>5, <3>1, <3>2
    <3>. QED
      BY <3>3
  <2>. HIDE DEF good
  <2>. QED
    BY <2>1, <2>2
<1>14. Ing!Blocks \in good
  <2>. HIDE DEF good
  <2>1. Grows(Ing!Blocks, good)
    BY <1>13, Zenon DEF Grows
  <2>2. \A S \in SUBSET Ing!Blocks : S \in good
    BY <1>2, <1>12, <2>1, AllSubsets, Zenon
  <2>. QED
    BY <2>2
<1>. QED
  BY <1>10, <1>14

IngInv == Ing!TypeOK /\ NumbersApart(number)

\* Every entry that is offered names a channel and a group.
LEMMA IngOffers ==
  ASSUME NEW l \in Offers, NEW e \in Entries, l[e] # Ing!Unlisted
  PROVE  l[e].name \in Names /\ l[e].name # 0 /\ l[e].group \in Groups
<1>1. e = 1 \/ e = 2
  BY IngBounds
<1>2. l \in {<<NotListed, NotListed>>, <<Entry(2, "ev"), Entry(1, "live")>>,
             <<Entry(2, "ev"), NotListed>>}
  BY DEF Offers
<1>3. l[e] \in {NotListed, Entry(2, "ev"), Entry(1, "live")}
  BY <1>1, <1>2
<1>4. l[e] # NotListed
  BY DEF NotListed, Ing!Unlisted
<1>5. l[e] = Entry(2, "ev") \/ l[e] = Entry(1, "live")
  BY <1>3, <1>4
<1>. QED
  BY <1>5, IngBounds DEF Entry, Groups

\* The state that a sync leaves.
IngNew(k) == {n \in Names \ Ing!Rows(category) : \E e \in Ing!Seen(k) : fetched[k][e].name = n}
IngCat(k) == [n \in Names |-> IF n \in IngNew(k) THEN fetched[k][Ing!FirstEntry(k, n)].group
                                                 ELSE category[n]]
IngPlaced(k) == [e \in Entries |-> IF e \in Ing!Seen(k) THEN fetched[k][e].name ELSE stream[e]]
IngSt(k) == [e \in Entries |-> IF e \in Ing!Pruned(k, IngCat(k), IngPlaced(k)) THEN 0
                                                                            ELSE IngPlaced(k)[e]]

LEMMA IngApplyIs ==
  ASSUME NEW k, Ing!Apply(k)
  PROVE  /\ fetched[k] # Ing!Idle
         /\ category' = IngCat(k) /\ stream' = IngSt(k)
         /\ number' = IF k = "full" \/ IngNew(k) # {}
                        THEN Ing!Numbered(IngCat(k), number, Ing!Unnumbered(IngCat(k))) ELSE number
         /\ Ing!Reconcile(IngCat(k), IngSt(k), hiddenCategories)
         /\ fetched' = [fetched EXCEPT ![k] = Ing!Idle]
         /\ UNCHANGED <<listing, hiddenCategories, watched, byHand, patches>>
BY Zenon DEF Ing!Apply, IngNew, IngCat, IngPlaced, IngSt

LEMMA IngSeen ==
  ASSUME Ing!TypeOK, NEW k \in Ing!Kinds, fetched[k] # Ing!Idle
  PROVE  /\ Ing!Seen(k) \subseteq Entries
         /\ \A e \in Ing!Seen(k) : /\ fetched[k][e].name \in Names /\ fetched[k][e].name # 0
                                   /\ fetched[k][e].group \in Groups
<1>1. fetched[k] \in Offers
  BY Zenon DEF Ing!TypeOK
<1>2. Ing!Seen(k) \subseteq Entries /\ \A e \in Ing!Seen(k) : fetched[k][e] # Ing!Unlisted
  BY DEF Ing!Seen
<1>. QED
  BY <1>1, <1>2, IngOffers

LEMMA IngFirst ==
  ASSUME Ing!TypeOK, NEW k \in Ing!Kinds, fetched[k] # Ing!Idle, NEW n \in IngNew(k)
  PROVE  Ing!FirstEntry(k, n) \in Ing!Seen(k)
<1>. DEFINE its == {e \in Ing!Seen(k) : fetched[k][e].name = n}
<1>1. its # {} /\ its \in SUBSET Nat
  BY IngSeen, IngBounds DEF IngNew
<1>2. \E e \in its : \A f \in its : e <= f
  BY <1>1, LeastOf
<1>3. \E e \in Ing!Seen(k) :
        fetched[k][e].name = n /\ \A f \in Ing!Seen(k) : fetched[k][f].name = n => e <= f
  BY <1>2
<1>. QED
  BY <1>3, Zenon DEF Ing!FirstEntry

LEMMA IngCatIs ==
  ASSUME Ing!TypeOK, NEW k \in Ing!Kinds, fetched[k] # Ing!Idle
  PROVE  /\ IngCat(k) \in [Names -> Groups \cup {"none"}]
         /\ IngSt(k) \in [Entries -> Names \cup {0}]
         /\ \A e \in Entries : stream[e] \in watched => IngSt(k)[e] # 0
<1>1. category \in [Names -> Groups \cup {"none"}]
  BY Zenon DEF Ing!TypeOK, Groups
<1>2. stream \in [Entries -> Names \cup {0}] /\ watched \subseteq Names
  BY Zenon DEF Ing!TypeOK
<1>3. \A n \in IngNew(k) : fetched[k][Ing!FirstEntry(k, n)].group \in Groups
  BY IngFirst, IngSeen
<1>4. IngCat(k) \in [Names -> Groups \cup {"none"}]
  BY <1>1, <1>3 DEF IngCat
<1>5. /\ IngPlaced(k) \in [Entries -> Names \cup {0}]
      /\ \A e \in Ing!Seen(k) : IngPlaced(k)[e] \in Names /\ IngPlaced(k)[e] # 0
      /\ \A e \in Entries \ Ing!Seen(k) : IngPlaced(k)[e] = stream[e]
  BY <1>2, IngSeen DEF IngPlaced
<1>6. IngSt(k) \in [Entries -> Names \cup {0}]
  BY <1>5 DEF IngSt
<1>7. ASSUME NEW e \in Entries, stream[e] \in watched
      PROVE  IngSt(k)[e] # 0
  <2>1. e \notin Ing!Pruned(k, IngCat(k), IngPlaced(k))
    BY <1>5, <1>7 DEF Ing!Pruned
  <2>2. IngPlaced(k)[e] # 0
    BY <1>2, <1>5, <1>7, IngBounds
  <2>. QED
    BY <2>1, <2>2 DEF IngSt
<1>. QED
  BY <1>4, <1>6, <1>7

LEMMA IngSyncNumbers ==
  ASSUME IngInv, NEW k \in Ing!Kinds, Ing!Apply(k)
  PROVE  /\ number' \in [Names -> Nat] /\ NumbersApart(number')
         /\ \A n \in Names : number[n] # 0 => number'[n] = number[n]
<1>1. number \in [Names -> Nat] /\ NumbersApart(number)
  BY Zenon DEF IngInv, Ing!TypeOK
<1>. DEFINE todo == Ing!Unnumbered(IngCat(k))
<1>2. fetched[k] # Ing!Idle
  BY IngApplyIs
<1>3. todo \in SUBSET Names /\ (\A n \in todo : IngCat(k)[n] \in Groups)
  BY <1>2, IngCatIs DEF IngInv, Ing!Unnumbered, Ing!Rows
<1>4. \A n \in Names : number[n] # 0 => n \notin todo
  BY DEF Ing!Unnumbered
<1>. HIDE DEF todo
<1>5. /\ Ing!Numbered(IngCat(k), number, todo) \in [Names -> Nat]
      /\ \A n \in Names \ todo : Ing!Numbered(IngCat(k), number, todo)[n] = number[n]
      /\ NumbersApart(Ing!Numbered(IngCat(k), number, todo))
  BY <1>1, <1>3, IngNumbered
<1>6. number' = Ing!Numbered(IngCat(k), number, todo) \/ number' = number
  BY IngApplyIs, Zenon DEF todo
<1>7. CASE number' = number
  BY <1>1, <1>7
<1>8. CASE number' = Ing!Numbered(IngCat(k), number, todo)
  BY <1>4, <1>5, <1>8
<1>. QED
  BY <1>6, <1>7, <1>8

\* The pass over all channels, one by one.
IngMoves(n, cat, st, hc) ==
  /\ n \in Ing!Rows(cat)
  /\ IF Ing!Reason(n, cat, st, hc) # "null" THEN ~isHidden[n] \/ hiddenReason[n] # "null"
                                            ELSE hiddenReason[n] # "null"

LEMMA IngReconciles ==
  ASSUME NEW cat, NEW st, NEW hc, Ing!Reconcile(cat, st, hc)
  PROVE  /\ isHidden' = [n \in Names |-> IF IngMoves(n, cat, st, hc)
                           THEN Ing!Reason(n, cat, st, hc) # "null" ELSE isHidden[n]]
         /\ hiddenReason' = [n \in Names |-> IF IngMoves(n, cat, st, hc)
                               THEN Ing!Reason(n, cat, st, hc) ELSE hiddenReason[n]]
<1>. DEFINE hid == [n \in Names |-> IF IngMoves(n, cat, st, hc)
                      THEN Ing!Reason(n, cat, st, hc) # "null" ELSE isHidden[n]]
            why == [n \in Names |-> IF IngMoves(n, cat, st, hc)
                      THEN Ing!Reason(n, cat, st, hc) ELSE hiddenReason[n]]
<1>1. Ing!Reconciled(isHidden, hiddenReason, cat, st, hc) = <<hid, why>>
  BY Zenon DEF Ing!Reconciled, IngMoves
<1>2. /\ isHidden' = Ing!Reconciled(isHidden, hiddenReason, cat, st, hc)[1]
      /\ hiddenReason' = Ing!Reconciled(isHidden, hiddenReason, cat, st, hc)[2]
  BY Zenon DEF Ing!Reconcile
<1>. HIDE DEF hid, why
<1>3. isHidden' = hid /\ hiddenReason' = why
  BY <1>1, <1>2
<1>. QED
  BY <1>3 DEF hid, why

LEMMA IngHides ==
  ASSUME Ing!TypeOK, NEW cat \in [Names -> Groups \cup {"none"}], NEW st, NEW hc,
         Ing!Reconcile(cat, st, hc)
  PROVE  /\ isHidden' \in [Names -> BOOLEAN]
         /\ hiddenReason' \in [Names -> {"null", "no-stream"} \cup Groups]
         /\ \A n \in Ing!Rows(cat) :
              IF isHidden[n] /\ hiddenReason[n] = "null" THEN isHidden'[n]
              ELSE isHidden'[n] = (n \notin Ing!Streamed(st) \/ cat[n] \in hc)
<1>1. isHidden \in [Names -> BOOLEAN]
  BY Zenon DEF Ing!TypeOK
<1>2. hiddenReason \in [Names -> {"null", "no-stream"} \cup Groups]
  BY Zenon DEF Ing!TypeOK, Groups
<1>. DEFINE hides(n) == IF IngMoves(n, cat, st, hc) THEN Ing!Reason(n, cat, st, hc) # "null"
                       ELSE isHidden[n]
<1>0. isHidden' = [n \in Names |-> hides(n)]
  BY IngReconciles
<1>3. isHidden' \in [Names -> BOOLEAN]
  <2>1. ASSUME NEW n \in Names
        PROVE  hides(n) \in BOOLEAN
    BY <1>1, Zenon
  <2>. HIDE DEF hides
  <2>. QED
    BY <2>1, <1>0
<1>4. \A n \in Ing!Rows(cat) : n \in Names /\ cat[n] \in Groups
  BY DEF Ing!Rows
<1>5. \A n \in Ing!Rows(cat) :
        Ing!Reason(n, cat, st, hc) \in {"null", "no-stream"} \cup Groups
  BY <1>4 DEF Ing!Reason
<1>6. \A n \in Ing!Rows(cat) :
        Ing!Reason(n, cat, st, hc) # "null" <=> (n \notin Ing!Streamed(st) \/ cat[n] \in hc)
  BY <1>4 DEF Ing!Reason, Groups
<1>7. hiddenReason' \in [Names -> {"null", "no-stream"} \cup Groups]
  <2>1. \A n \in Names : IngMoves(n, cat, st, hc) => n \in Ing!Rows(cat)
    BY Zenon DEF IngMoves
  <2>. QED
    BY <1>2, <1>5, <2>1, IngReconciles
<1>8. ASSUME NEW n \in Ing!Rows(cat)
      PROVE  IF isHidden[n] /\ hiddenReason[n] = "null" THEN isHidden'[n]
             ELSE isHidden'[n] = (n \notin Ing!Streamed(st) \/ cat[n] \in hc)
  <2>0. n \in Names /\ isHidden[n] \in BOOLEAN
    BY <1>1, <1>4
  <2>1. isHidden'[n] = IF IngMoves(n, cat, st, hc) THEN Ing!Reason(n, cat, st, hc) # "null"
                       ELSE isHidden[n]
    BY <2>0, <1>0, Zenon
  <2>2. Ing!Reason(n, cat, st, hc) # "null" <=> (n \notin Ing!Streamed(st) \/ cat[n] \in hc)
    BY <1>6
  <2>3. IngMoves(n, cat, st, hc) <=>
          IF Ing!Reason(n, cat, st, hc) # "null" THEN ~isHidden[n] \/ hiddenReason[n] # "null"
                                                 ELSE hiddenReason[n] # "null"
    BY Zenon DEF IngMoves
  <2>. DEFINE hiddenNow == isHidden'[n]
              hid == isHidden[n]
              why == hiddenReason[n]
              for == Ing!Reason(n, cat, st, hc)
              flips == IngMoves(n, cat, st, hc)
              bad == n \notin Ing!Streamed(st) \/ cat[n] \in hc
  <2>4. hiddenNow = IF flips THEN for # "null" ELSE hid
    BY <2>1
  <2>5. (for # "null" <=> bad) /\ bad \in BOOLEAN
    BY <2>2
  <2>6. flips <=> IF for # "null" THEN ~hid \/ why # "null" ELSE why # "null"
    BY <2>3
  <2>. HIDE DEF hiddenNow, hid, why, for, flips, bad
  <2>7. IF hid /\ why = "null" THEN hiddenNow ELSE hiddenNow = bad
    <3>0. hid \in BOOLEAN
      BY <2>0 DEF hid
    <3>. QED
      BY <3>0, <2>4, <2>5, <2>6, Zenon
  <2>. QED
    BY <2>7 DEF hiddenNow, hid, why, bad
<1>. QED
  BY <1>3, <1>7, <1>8

LEMMA IngInit == Ing!Init => IngInv
<1>. SUFFICES ASSUME Ing!Init PROVE IngInv
  OBVIOUS
<1>1. /\ listing \in Offers /\ fetched = [k \in Ing!Kinds |-> Ing!Idle]
      /\ stream = [e \in Entries |-> 0] /\ category = [n \in Names |-> "none"]
      /\ number = [n \in Names |-> 0] /\ isHidden = [n \in Names |-> FALSE]
      /\ hiddenReason = [n \in Names |-> "null"]
      /\ hiddenCategories = {} /\ watched = {} /\ byHand = {} /\ patches = 0
  BY Zenon DEF Ing!Init
<1>2. fetched \in [Ing!Kinds -> Offers \cup {Ing!Idle}]
  BY <1>1
<1>3. /\ stream \in [Entries -> Names \cup {0}]
      /\ category \in [Names -> {"live", "ev"} \cup {"none"}]
      /\ number \in [Names -> Nat] /\ isHidden \in [Names -> BOOLEAN]
      /\ hiddenReason \in [Names -> {"null", "no-stream"} \cup {"live", "ev"}]
  BY <1>1
<1>4. Ing!TypeOK
  BY <1>1, <1>2, <1>3 DEF Ing!TypeOK
<1>5. NumbersApart(number)
  BY <1>1 DEF NumbersApart
<1>. QED
  BY <1>4, <1>5 DEF IngInv

LEMMA IngRests == IngInv /\ UNCHANGED ingestVars => IngInv'
<1>. SUFFICES ASSUME IngInv, UNCHANGED ingestVars PROVE IngInv'
  OBVIOUS
<1>1. /\ listing' = listing /\ fetched' = fetched /\ stream' = stream /\ category' = category
      /\ number' = number /\ isHidden' = isHidden /\ hiddenReason' = hiddenReason
      /\ hiddenCategories' = hiddenCategories /\ watched' = watched /\ byHand' = byHand
      /\ patches' = patches
  BY Zenon DEF ingestVars
<1>2. Ing!TypeOK'
  BY <1>1, Zenon DEF IngInv, Ing!TypeOK
<1>3. NumbersApart(number')
  BY <1>1, Zenon DEF IngInv
<1>. QED
  BY <1>2, <1>3, Zenon DEF IngInv, NumbersApart

LEMMA IngStep ==
  ASSUME IngInv, Ing!Next
  PROVE  /\ IngInv'
         /\ \A n \in Names : number[n] # 0 /\ number'[n] # number[n] => Ing!Reflow
         /\ \A e \in Entries : stream[e] \in watched => stream'[e] # 0
<1>. DEFINE Whole == /\ listing' \in Offers
                     /\ fetched' \in [Ing!Kinds -> Offers \cup {Ing!Idle}]
            Rowed == /\ stream' \in [Entries -> Names \cup {0}]
                     /\ category' \in [Names -> Groups \cup {"none"}]
            Shown == /\ isHidden' \in [Names -> BOOLEAN]
                     /\ hiddenReason' \in [Names -> {"null", "no-stream"} \cup Groups]
                     /\ hiddenCategories' \subseteq Groups
            Rest == watched' \subseteq Names /\ byHand' \subseteq Names /\ patches' \in 0..2
            Counts == number' \in [Names -> Nat] /\ NumbersApart(number')
            Sticks == \A n \in Names : number[n] # 0 /\ number'[n] # number[n] => Ing!Reflow
            Keeps == \A e \in Entries : stream[e] \in watched => stream'[e] # 0
            All == Whole /\ Rowed /\ Shown /\ Rest /\ Counts /\ Sticks /\ Keeps
<1>0. /\ listing \in Offers /\ fetched \in [Ing!Kinds -> Offers \cup {Ing!Idle}]
      /\ stream \in [Entries -> Names \cup {0}]
      /\ category \in [Names -> Groups \cup {"none"}]
      /\ number \in [Names -> Nat] /\ isHidden \in [Names -> BOOLEAN]
      /\ hiddenReason \in [Names -> {"null", "no-stream"} \cup Groups]
      /\ hiddenCategories \subseteq Groups /\ watched \subseteq Names
      /\ byHand \subseteq Names /\ patches \in 0..2 /\ NumbersApart(number)
  BY Zenon DEF IngInv, Ing!TypeOK, Groups
<1>00. ASSUME UNCHANGED <<stream, watched>> PROVE Keeps
  BY <1>0, <1>00, IngBounds
<1>01. Ing!Edit => patches' \in 0..2
  BY <1>0 DEF Ing!Edit
<1>1. ASSUME NEW k \in Ing!Kinds, Ing!Fetch(k) PROVE All
  <2>1. /\ fetched' = [fetched EXCEPT ![k] = listing]
        /\ UNCHANGED <<listing, stream, category, number, isHidden, hiddenReason,
                       hiddenCategories, watched, byHand, patches>>
    BY <1>1, Zenon DEF Ing!Fetch
  <2>2. Whole
    BY <1>0, <2>1
  <2>3. Rowed /\ Counts /\ Sticks /\ Keeps
    BY <1>0, <1>00, <2>1
  <2>4. Shown
    BY <1>0, <2>1, Zenon
  <2>5. Rest
    BY <1>0, <2>1
  <2>. QED
    BY <2>2, <2>3, <2>4, <2>5
<1>2. ASSUME NEW k \in Ing!Kinds, Ing!Apply(k) PROVE All
  <2>0. fetched[k] # Ing!Idle
    BY <1>2, IngApplyIs
  <2>1. /\ category' = IngCat(k) /\ stream' = IngSt(k)
        /\ Ing!Reconcile(IngCat(k), IngSt(k), hiddenCategories)
        /\ fetched' = [fetched EXCEPT ![k] = Ing!Idle]
        /\ UNCHANGED <<listing, hiddenCategories, watched, byHand, patches>>
    BY <1>2, IngApplyIs, Zenon
  <2>2. Whole
    BY <1>0, <2>1
  <2>3. /\ IngCat(k) \in [Names -> Groups \cup {"none"}]
        /\ IngSt(k) \in [Entries -> Names \cup {0}]
        /\ \A e \in Entries : stream[e] \in watched => IngSt(k)[e] # 0
    BY <2>0, IngCatIs, Zenon DEF IngInv
  <2>4. Rowed /\ Keeps
    BY <2>1, <2>3, Zenon
  <2>5. Counts /\ Sticks
    BY <1>2, IngSyncNumbers, Zenon
  <2>6. isHidden' \in [Names -> BOOLEAN]
        /\ hiddenReason' \in [Names -> {"null", "no-stream"} \cup Groups]
    BY <2>1, <2>3, IngHides, Zenon DEF IngInv
  <2>7. Shown
    BY <1>0, <2>1, <2>6, Zenon
  <2>8. Rest
    BY <1>0, <2>1
  <2>. QED
    BY <2>2, <2>4, <2>5, <2>7, <2>8
<1>3. ASSUME Ing!Reflow PROVE All
  <2>1. /\ number' = Ing!Reflowed /\ Ing!Edit
        /\ UNCHANGED <<listing, fetched, stream, category, isHidden, hiddenReason,
                       hiddenCategories, watched, byHand>>
    BY <1>3, Zenon DEF Ing!Reflow
  <2>2. Counts
    BY <1>0, <2>1, IngReflowed, Zenon
  <2>3. Sticks
    BY <1>3
  <2>4. Whole /\ Rowed /\ Keeps /\ Rest
    BY <1>0, <1>00, <1>01, <2>1
  <2>5. Shown
    BY <1>0, <2>1, Zenon
  <2>. QED
    BY <2>2, <2>3, <2>4, <2>5
<1>4. ASSUME NEW hc \in SUBSET Groups, Ing!SetHiddenCategories(hc) PROVE All
  <2>1. /\ hiddenCategories' = hc /\ Ing!Reconcile(category, stream, hc) /\ Ing!Edit
        /\ UNCHANGED <<listing, fetched, stream, category, number, watched, byHand>>
    BY <1>4, Zenon DEF Ing!SetHiddenCategories
  <2>2. isHidden' \in [Names -> BOOLEAN]
        /\ hiddenReason' \in [Names -> {"null", "no-stream"} \cup Groups]
    BY <1>0, <2>1, IngHides, Zenon DEF IngInv
  <2>3. Shown
    BY <2>1, <2>2, Zenon
  <2>4. Whole /\ Rowed /\ Counts /\ Sticks /\ Keeps /\ Rest
    BY <1>0, <1>00, <1>01, <2>1
  <2>. QED
    BY <2>3, <2>4
<1>5. ASSUME NEW n \in Names, Ing!Watch(n) PROVE All
  <2>1. /\ watched' = IF n \in watched THEN watched \ {n} ELSE watched \cup {n}
        /\ UNCHANGED <<listing, fetched, stream, category, number, isHidden,
                       hiddenReason, hiddenCategories, byHand, patches>>
    BY <1>5, Zenon DEF Ing!Watch
  <2>2. Rest
    BY <1>0, <2>1
  <2>3. Keeps
    BY <1>0, <2>1, IngBounds
  <2>4. Whole /\ Rowed /\ Counts /\ Sticks
    BY <1>0, <2>1
  <2>5. Shown
    BY <1>0, <2>1, Zenon
  <2>. QED
    BY <2>2, <2>3, <2>4, <2>5
<1>6. ASSUME NEW n \in Names, NEW h \in BOOLEAN, Ing!PatchHidden(n, h) PROVE All
  <2>1. /\ isHidden' = [isHidden EXCEPT ![n] = h]
        /\ byHand' = IF h THEN byHand \cup {n} ELSE byHand \ {n}
        /\ Ing!Edit
        /\ UNCHANGED <<listing, fetched, stream, category, number, hiddenReason,
                       hiddenCategories, watched>>
    BY <1>6, Zenon DEF Ing!PatchHidden
  <2>2. isHidden' \in [Names -> BOOLEAN]
    BY <1>0, <2>1
  <2>3. Shown
    BY <1>0, <2>1, <2>2, Zenon
  <2>4. Whole /\ Rowed /\ Counts /\ Sticks /\ Keeps
    BY <1>0, <1>00, <2>1
  <2>5. byHand' \subseteq Names
    BY <1>0, <2>1
  <2>6. Rest
    BY <1>0, <1>01, <2>1, <2>5
  <2>. QED
    BY <2>3, <2>4, <2>6
<1>7. ASSUME NEW l \in Offers, Ing!Relist(l) PROVE All
  <2>1. /\ listing' = l
        /\ UNCHANGED <<fetched, stream, category, number, isHidden, hiddenReason,
                       hiddenCategories, watched, byHand, patches>>
    BY <1>7, Zenon DEF Ing!Relist
  <2>2. Whole /\ Rowed /\ Counts /\ Sticks /\ Keeps /\ Rest
    BY <1>0, <1>00, <2>1
  <2>3. Shown
    BY <1>0, <2>1, Zenon
  <2>. QED
    BY <2>2, <2>3
<1>8. All
  <2>1. \/ \E k \in Ing!Kinds : Ing!Fetch(k) \/ Ing!Apply(k)
        \/ Ing!Reflow \/ (\E hc \in {{}} \cup {{"ev"}} : Ing!SetHiddenCategories(hc))
        \/ \E n \in Names : Ing!Watch(n) \/ \E h \in BOOLEAN : Ing!PatchHidden(n, h)
        \/ \E l \in Offers : Ing!Relist(l)
    BY Zenon DEF Ing!Next
  <2>2. \A hc \in {{}} \cup {{"ev"}} : hc \in SUBSET Groups
    BY DEF Groups
  <2>. HIDE DEF All
  <2>. QED
    BY <1>1, <1>2, <1>3, <1>4, <1>5, <1>6, <1>7, <2>1, <2>2, Zenon
<1>9. Ing!TypeOK'
  BY <1>8, Zenon DEF Ing!TypeOK, Groups
<1>10. IngInv'
  BY <1>8, <1>9, Zenon DEF IngInv, NumbersApart
<1>. QED
  BY <1>8, <1>10

\* What a sync leaves visible.
LEMMA IngGuide ==
  ASSUME IngInv, NEW k \in Ing!Kinds, Ing!Apply(k), NEW n \in Ing!Rows(category')
  PROVE  IF isHidden[n] /\ hiddenReason[n] = "null" THEN isHidden'[n]
         ELSE isHidden'[n] = (n \notin Ing!Streamed(stream') \/ category'[n] \in hiddenCategories)
<1>1. fetched[k] # Ing!Idle
  BY IngApplyIs
<1>2. /\ category' = IngCat(k) /\ stream' = IngSt(k)
      /\ Ing!Reconcile(IngCat(k), IngSt(k), hiddenCategories)
  BY IngApplyIs, Zenon
<1>3. IngCat(k) \in [Names -> Groups \cup {"none"}]
  BY <1>1, IngCatIs, Zenon DEF IngInv
<1>4. \A m \in Ing!Rows(IngCat(k)) :
        IF isHidden[m] /\ hiddenReason[m] = "null" THEN isHidden'[m]
        ELSE isHidden'[m] = (m \notin Ing!Streamed(IngSt(k))
                             \/ IngCat(k)[m] \in hiddenCategories)
  BY <1>2, <1>3, IngHides, Zenon DEF IngInv
<1>. QED
  BY <1>2, <1>4, Zenon

-----------------------------------------------------------------------------
(* The mutex of the big jobs: the ticks whose job waits or runs stand in a  *)
(* line, each chained to the one before it, and the chain ends with the     *)
(* last.                                                                    *)

JobActive(r) == doing[r] \in {"queued", "runs"}

JobLine(Q) ==
  /\ Q \in Seq(Runs)
  /\ \A i, k \in 1..Len(Q) : Q[i] = Q[k] => i = k
  /\ \A r \in Runs : JobActive(r) <=> \E i \in 1..Len(Q) : Q[i] = r
  /\ chain = IF Len(Q) = 0 THEN None ELSE Q[Len(Q)]
  /\ \A i \in 1..Len(Q) : pred[Q[i]] = IF i = 1 THEN None ELSE Q[i - 1]

JobTicks ==
  /\ \A r \in Runs : doing[r] = "none" <=> job[r] = None
  /\ \A r \in Runs : doing[r] = "runs" => pred[r] = None
  /\ \A r, q \in Runs : job[r] = job[q] /\ job[r] # None => r = q
  /\ \A j \in Job!Jobs : onRun[j] <=> \E r \in Runs : job[r] = j

JobLoops ==
  \A l \in Job!Schedulers : armed[l] \/ \E r \in Runs : job[r] # None /\ Job!LoopOf(job[r]) = l

JobInv == Job!TypeOK /\ (\E Q \in Seq(Runs) : JobLine(Q)) /\ JobTicks /\ JobLoops

LEMMA JobNone == None \notin Runs /\ None \notin Job!Jobs
BY UpkeepAssumption DEF Job!Jobs

LEMMA JobCardinality == \A S : Job!Cardinality(S) = Cardinality(S)
BY DEF Job!Cardinality, Cardinality

LEMMA OneAtMost ==
  ASSUME NEW S, \A x, y \in S : x = y
  PROVE  /\ Cardinality(S) = IF S = {} THEN 0 ELSE 1
         /\ Cardinality(S) <= 1
<1>1. CASE S = {}
  BY <1>1, FS_EmptySet
<1>2. CASE S # {}
  <2>1. PICK x \in S : TRUE
    BY <1>2
  <2>2. S = {x}
    BY <2>1
  <2>3. Cardinality(S) = 1
    BY <2>2, FS_Singleton
  <2>. QED
    BY <1>2, <2>3
<1>. QED
  BY <1>1, <1>2

LEMMA JobOne == JobInv => Job!TypeOK /\ Job!OneBigJob
<1>. SUFFICES ASSUME JobInv PROVE Job!TypeOK /\ Job!OneBigJob
  OBVIOUS
<1>1. PICK Q \in Seq(Runs) : JobLine(Q)
  BY Zenon DEF JobInv
<1>2. ASSUME NEW r \in {q \in Runs : doing[q] = "runs"}, NEW q \in {p \in Runs : doing[p] = "runs"}
      PROVE  r = q
  <2>1. ASSUME NEW p \in Runs, doing[p] = "runs" PROVE 1 \in 1..Len(Q) /\ p = Q[1]
    <3>1. pred[p] = None
      BY <2>1, Zenon DEF JobInv, JobTicks
    <3>2. PICK i \in 1..Len(Q) : Q[i] = p
      BY <1>1, <2>1, Zenon DEF JobLine, JobActive
    <3>3. pred[Q[i]] = IF i = 1 THEN None ELSE Q[i - 1]
      BY <1>1, Zenon DEF JobLine
    <3>4. i # 1 => Q[i - 1] \in Runs
      OBVIOUS
    <3>5. i = 1
      BY <3>1, <3>2, <3>3, <3>4, JobNone
    <3>. QED
      BY <3>2, <3>5
  <2>. QED
    BY <2>1, Zenon
<1>3. Cardinality({r \in Runs : doing[r] = "runs"}) <= 1
  BY <1>2, OneAtMost
<1>4. ASSUME NEW j \in Job!Jobs
      PROVE  Cardinality({r \in Runs : job[r] = j}) = IF onRun[j] THEN 1 ELSE 0
  <2>. DEFINE S == {r \in Runs : job[r] = j}
  <2>1. \A x, y \in S : x = y
    <3>. SUFFICES ASSUME NEW x \in S, NEW y \in S PROVE x = y
      OBVIOUS
    <3>1. j # None /\ job[x] = j /\ job[y] = j /\ x \in Runs /\ y \in Runs
      BY JobNone
    <3>2. \A p, q \in Runs : job[p] = job[q] /\ job[p] # None => p = q
      BY Zenon DEF JobInv, JobTicks
    <3>. QED
      BY <3>1, <3>2
  <2>2. Cardinality(S) = IF S = {} THEN 0 ELSE 1
    BY <2>1, OneAtMost
  <2>3. onRun[j] <=> S # {}
    BY Zenon DEF JobInv, JobTicks
  <2>. QED
    BY <2>2, <2>3
<1>5. \A l \in Job!Schedulers :
        armed[l] \/ \E r \in Runs : job[r] # None /\ Job!LoopOf(job[r]) = l
  BY Zenon DEF JobInv, JobLoops
<1>6. \A j \in Job!Jobs :
        Cardinality({r \in Runs : job[r] = j}) = IF onRun[j] THEN 1 ELSE 0
  BY <1>4
<1>8. Job!Cardinality({r \in Runs : doing[r] = "runs"}) <= 1
  BY <1>3, JobCardinality
<1>9. \A j \in Job!Jobs :
        Job!Cardinality({r \in Runs : job[r] = j}) = IF onRun[j] THEN 1 ELSE 0
  BY <1>6, JobCardinality
<1>10. Job!OneBigJob
  BY <1>5, <1>8, <1>9, Zenon DEF Job!OneBigJob
<1>7. Job!TypeOK
  BY DEF JobInv
<1>. QED
  BY <1>7, <1>10

LEMMA JobInit == Job!Init => JobInv
<1>. SUFFICES ASSUME Job!Init PROVE JobInv
  OBVIOUS
<1>1. Job!TypeOK
  BY DEF Job!Init, Job!TypeOK
<1>2. << >> \in Seq(Runs) /\ Len(<< >>) = 0
  OBVIOUS
<1>3. /\ doing = [r \in Runs |-> "none"] /\ job = [r \in Runs |-> None]
      /\ chain = None /\ pred = [r \in Runs |-> None]
  BY Zenon DEF Job!Init
<1>4. JobLine(<< >>)
  BY <1>2, <1>3 DEF JobLine, JobActive
<1>5. JobTicks
  BY <1>3, JobNone DEF Job!Init, JobTicks
<1>6. JobLoops
  BY DEF Job!Init, JobLoops
<1>. QED
  BY <1>1, <1>2, <1>4, <1>5, <1>6, Zenon DEF JobInv

\* What a tick that waits for nothing leaves behind when it goes on: flags are the running
\* flags without its own.
LEMMA JobGoesOn ==
  ASSUME JobInv, NEW r \in Runs, doing[r] \in {"none", "after"},
         NEW l \in Job!Schedulers, job[r] # None => Job!LoopOf(job[r]) = l,
         NEW list, list \in Seq(Job!Jobs), \A i \in DOMAIN list : Job!LoopOf(list[i]) = l,
         NEW flags \in [Job!Jobs -> BOOLEAN],
         \A j \in Job!Jobs : flags[j] <=> \E q \in Runs \ {r} : job[q] = j,
         Job!Proceeds(r, l, list, flags), due' \in [Job!Jobs -> BOOLEAN]
  PROVE  JobInv'
<1>. DEFINE open == {i \in DOMAIN list : due[list[i]] /\ ~flags[list[i]]}
<1>0. /\ armed \in [Job!Schedulers -> BOOLEAN] /\ onRun \in [Job!Jobs -> BOOLEAN]
      /\ due \in [Job!Jobs -> BOOLEAN] /\ job \in [Runs -> Job!Jobs \cup {None}]
      /\ doing \in [Runs -> {"none", "queued", "runs", "after"}]
      /\ pred \in [Runs -> Runs \cup {None}] /\ chain \in Runs \cup {None}
  BY DEF JobInv, Job!TypeOK
<1>1. PICK Q \in Seq(Runs) : JobLine(Q)
  BY Zenon DEF JobInv
<1>2. CASE open = {}
  <2>1. /\ job' = [job EXCEPT ![r] = None] /\ doing' = [doing EXCEPT ![r] = "none"]
        /\ onRun' = flags /\ armed' = [armed EXCEPT ![l] = TRUE]
        /\ pred' = pred /\ chain' = chain
    BY <1>2, Zenon DEF Job!Proceeds
  <2>2. Job!TypeOK'
    BY <1>0, <2>1 DEF Job!TypeOK
  <2>3. /\ doing'[r] = "none" /\ job'[r] = None
        /\ \A q \in Runs : q # r => doing'[q] = doing[q] /\ job'[q] = job[q]
    BY <1>0, <2>1, Zenon
  <2>4. \A q \in Runs : JobActive(q)' <=> JobActive(q)
    BY <2>3 DEF JobActive
  <2>5. JobLine(Q)'
    BY <1>1, <2>1, <2>4, Zenon DEF JobLine
  <2>6. ASSUME NEW j \in Job!Jobs PROVE onRun'[j] <=> \E q \in Runs : job'[q] = j
    <3>1. flags[j] <=> \E q \in Runs \ {r} : job[q] = j
      OBVIOUS
    <3>2. (\E q \in Runs : job'[q] = j) <=> \E q \in Runs \ {r} : job[q] = j
      BY <2>3, JobNone
    <3>. QED
      BY <2>1, <3>1, <3>2, Zenon
  <2>7. JobTicks'
    <3>1. \A q \in Runs : doing'[q] = "none" <=> job'[q] = None
      BY <2>3 DEF JobInv, JobTicks
    <3>2. \A q \in Runs : doing'[q] = "runs" => pred'[q] = None
      BY <2>1, <2>3 DEF JobInv, JobTicks
    <3>3. \A p, q \in Runs : job'[p] = job'[q] /\ job'[p] # None => p = q
      BY <2>3 DEF JobInv, JobTicks
    <3>. QED
      BY <2>6, <3>1, <3>2, <3>3, Zenon DEF JobTicks
  <2>8. JobLoops'
    <3>. SUFFICES ASSUME NEW m \in Job!Schedulers
                  PROVE  armed'[m] \/ \E q \in Runs : job'[q] # None /\ Job!LoopOf(job'[q]) = m
      BY Zenon DEF JobLoops, Job!LoopOf
    <3>1. CASE m = l
      BY <1>0, <2>1, <3>1, Zenon
    <3>2. CASE m # l
      <4>1. armed'[m] = armed[m]
        BY <1>0, <2>1, <3>2, Zenon
      <4>3. armed[m] \/ \E q \in Runs : job[q] # None /\ Job!LoopOf(job[q]) = m
        BY Zenon DEF JobInv, JobLoops
      <4>. QED
        <5>1. CASE armed[m]
          BY <4>1, <5>1, Zenon
        <5>2. CASE \E q \in Runs : job[q] # None /\ Job!LoopOf(job[q]) = m
          <6>1. PICK q \in Runs : job[q] # None /\ Job!LoopOf(job[q]) = m
            BY <5>2, Zenon
          <6>2. job'[q] = job[q]
            BY <2>3, <3>2, <6>1
          <6>. QED
            BY <6>1, <6>2, Zenon
        <5>. QED
          BY <4>3, <5>1, <5>2
    <3>. QED
      BY <3>1, <3>2
  <2>. QED
    BY <1>1, <2>2, <2>5, <2>7, <2>8, Zenon DEF JobInv
<1>3. CASE open # {}
  <2>. DEFINE first == CHOOSE i \in open : \A k \in open : i <= k
  <2>1. open \subseteq 1..Len(list) /\ Len(list) \in Nat
    OBVIOUS
  <2>2. open \in SUBSET Nat
    BY <2>1
  <2>3. first \in open
    BY <1>3, <2>2, LeastOf, Zenon
  <2>. DEFINE j == list[first]
  <2>4. j \in Job!Jobs /\ ~flags[j] /\ Job!LoopOf(j) = l
    BY <2>1, <2>3
  <2>5. /\ job' = [job EXCEPT ![r] = j] /\ doing' = [doing EXCEPT ![r] = "queued"]
        /\ onRun' = [flags EXCEPT ![j] = TRUE]
        /\ pred' = [pred EXCEPT ![r] = chain] /\ chain' = r
        /\ armed' = [armed EXCEPT ![l] = armed[l] /\ job[r] # None]
    BY <1>3, Zenon DEF Job!Proceeds, Job!Enqueue
  <2>. HIDE DEF first, j, open
  <2>6. /\ doing'[r] = "queued" /\ job'[r] = j /\ pred'[r] = chain
        /\ \A q \in Runs : q # r => /\ doing'[q] = doing[q] /\ job'[q] = job[q]
                                    /\ pred'[q] = pred[q]
    BY <1>0, <2>5, Zenon
  <2>7. Job!TypeOK'
    <3>1. armed' \in [Job!Schedulers -> BOOLEAN]
      BY <1>0, <2>5
    <3>2. onRun' \in [Job!Jobs -> BOOLEAN] /\ due' \in [Job!Jobs -> BOOLEAN]
      BY <1>0, <2>4, <2>5
    <3>3. /\ job' \in [Runs -> Job!Jobs \cup {None}]
          /\ doing' \in [Runs -> {"none", "queued", "runs", "after"}]
          /\ pred' \in [Runs -> Runs \cup {None}] /\ chain' \in Runs \cup {None}
      BY <1>0, <2>4, <2>5
    <3>. QED
      BY <3>1, <3>2, <3>3, Zenon DEF Job!TypeOK
  <2>8. ~JobActive(r) /\ \A i \in 1..Len(Q) : Q[i] # r
    <3>1. ~JobActive(r)
      BY DEF JobActive
    <3>. QED
      BY <1>1, <3>1, Zenon DEF JobLine
  <2>9. JobLine(Append(Q, r))'
    <3>. DEFINE P == Append(Q, r)
    <3>1. /\ P \in Seq(Runs) /\ Len(P) = Len(Q) + 1 /\ P[Len(P)] = r /\ Len(Q) \in Nat
          /\ \A i \in 1..Len(Q) : P[i] = Q[i] /\ Q[i] \in Runs
      OBVIOUS
    <3>. HIDE DEF P
    <3>2. \A i, k \in 1..Len(P) : P[i] = P[k] => i = k
      <4>. SUFFICES ASSUME NEW i \in 1..Len(P), NEW k \in 1..Len(P), P[i] = P[k] PROVE i = k
        OBVIOUS
      <4>1. \A n \in 1..Len(P) : n # Len(P) => n \in 1..Len(Q)
        BY <3>1
      <4>2. CASE i = Len(P) \/ k = Len(P)
        BY <2>8, <3>1, <4>1, <4>2
      <4>3. CASE i # Len(P) /\ k # Len(P)
        <5>1. i \in 1..Len(Q) /\ k \in 1..Len(Q) /\ Q[i] = Q[k]
          BY <3>1, <4>1, <4>3
        <5>. QED
          BY <1>1, <5>1, Zenon DEF JobLine
      <4>. QED
        BY <4>2, <4>3
    <3>3. ASSUME NEW q \in Runs
          PROVE  JobActive(q)' <=> \E i \in 1..Len(P) : P[i] = q
      <4>1. CASE q = r
        <5>1. JobActive(q)'
          BY <2>6, <4>1 DEF JobActive
        <5>2. Len(P) \in 1..Len(P)
          BY <3>1
        <5>. QED
          BY <3>1, <4>1, <5>1, <5>2, Zenon
      <4>2. CASE q # r
        <5>1. JobActive(q)' <=> JobActive(q)
          BY <2>6, <4>2, Zenon DEF JobActive
        <5>2. (\E i \in 1..Len(P) : P[i] = q) <=> \E i \in 1..Len(Q) : Q[i] = q
          <6>1. \A n \in 1..Len(P) : n = Len(P) \/ n \in 1..Len(Q)
            BY <3>1
          <6>2. \A n \in 1..Len(Q) : n \in 1..Len(P)
            BY <3>1
          <6>. QED
            BY <3>1, <4>2, <6>1, <6>2, Zenon
        <5>3. JobActive(q) <=> \E i \in 1..Len(Q) : Q[i] = q
          BY <1>1, Zenon DEF JobLine
        <5>. QED
          BY <5>1, <5>2, <5>3, Zenon
      <4>. QED
        BY <4>1, <4>2
    <3>4. chain' = IF Len(P) = 0 THEN None ELSE P[Len(P)]
      BY <2>5, <3>1
    <3>5. ASSUME NEW i \in 1..Len(P)
          PROVE  pred'[P[i]] = IF i = 1 THEN None ELSE P[i - 1]
      <4>1. CASE i = Len(P)
        <5>1. pred'[P[i]] = chain
          BY <2>6, <3>1, <4>1
        <5>2. chain = IF Len(Q) = 0 THEN None ELSE Q[Len(Q)]
          BY <1>1, Zenon DEF JobLine
        <5>. QED
          BY <3>1, <4>1, <5>1, <5>2
      <4>2. CASE i # Len(P)
        <5>1. i \in 1..Len(Q) /\ P[i] = Q[i] /\ Q[i] \in Runs /\ Q[i] # r
          BY <2>8, <3>1, <4>2
        <5>2. pred'[P[i]] = pred[Q[i]]
          BY <2>6, <5>1
        <5>3. pred[Q[i]] = IF i = 1 THEN None ELSE Q[i - 1]
          BY <1>1, <5>1, Zenon DEF JobLine
        <5>4. i # 1 => i - 1 \in 1..Len(Q)
          BY <3>1, <5>1
        <5>. QED
          BY <3>1, <5>2, <5>3, <5>4, Zenon
      <4>. QED
        BY <4>1, <4>2
    <3>. QED
      BY <3>1, <3>2, <3>3, <3>4, <3>5, Zenon DEF JobLine, P
  <2>10. \A q \in Runs : job[q] = j => q = r
    BY <2>4, Zenon
  <2>11. JobTicks'
    <3>0. j # None
      BY <2>4, JobNone
    <3>1. \A q \in Runs : doing'[q] = "none" <=> job'[q] = None
      BY <2>6, <3>0 DEF JobInv, JobTicks
    <3>2. \A q \in Runs : doing'[q] = "runs" => pred'[q] = None
      BY <2>6 DEF JobInv, JobTicks
    <3>3. \A p, q \in Runs : job'[p] = job'[q] /\ job'[p] # None => p = q
      BY <2>6, <2>10 DEF JobInv, JobTicks
    <3>4. ASSUME NEW k \in Job!Jobs PROVE onRun'[k] <=> \E q \in Runs : job'[q] = k
      <4>1. CASE k = j
        BY <2>4, <2>5, <2>6, <4>1, Zenon
      <4>2. CASE k # j
        <5>1. onRun'[k] = flags[k]
          BY <2>5, <4>2, Zenon
        <5>2. flags[k] <=> \E q \in Runs \ {r} : job[q] = k
          OBVIOUS
        <5>3. ASSUME NEW q \in Runs \ {r} PROVE job'[q] = job[q]
          BY <2>6, Zenon
        <5>4. job'[r] # k
          BY <2>6, <4>2, Zenon
        <5>5. (\E q \in Runs \ {r} : job[q] = k) <=> \E q \in Runs : job'[q] = k
          BY <5>3, <5>4
        <5>. QED
          BY <5>1, <5>2, <5>5, Zenon
      <4>. QED
        BY <4>1, <4>2
    <3>. QED
      BY <3>1, <3>2, <3>3, <3>4, Zenon DEF JobTicks
  <2>12. JobLoops'
    <3>. SUFFICES ASSUME NEW m \in Job!Schedulers
                  PROVE  armed'[m] \/ \E q \in Runs : job'[q] # None /\ Job!LoopOf(job'[q]) = m
      BY Zenon DEF JobLoops, Job!LoopOf
    <3>1. CASE m = l
      <4>1. job'[r] = j /\ j # None /\ Job!LoopOf(j) = l
        BY <2>4, <2>6, JobNone
      <4>. QED
        BY <3>1, <4>1, Zenon
    <3>2. CASE m # l
      <4>1. armed'[m] = armed[m]
        BY <1>0, <2>5, <3>2, Zenon
      <4>2. \A q \in Runs : job[q] # None /\ Job!LoopOf(job[q]) = m => q # r
        BY <3>2, Zenon
      <4>3. armed[m] \/ \E q \in Runs : job[q] # None /\ Job!LoopOf(job[q]) = m
        BY Zenon DEF JobInv, JobLoops
      <4>. QED
        <5>1. CASE armed[m]
          BY <4>1, <5>1, Zenon
        <5>2. CASE \E q \in Runs : job[q] # None /\ Job!LoopOf(job[q]) = m
          <6>1. PICK q \in Runs : job[q] # None /\ Job!LoopOf(job[q]) = m
            BY <5>2, Zenon
          <6>2. job'[q] = job[q]
            BY <2>6, <4>2, <6>1
          <6>. QED
            BY <6>1, <6>2, Zenon
        <5>. QED
          BY <4>3, <5>1, <5>2
    <3>. QED
      BY <3>1, <3>2
  <2>13. Append(Q, r) \in Seq(Runs)
    OBVIOUS
  <2>. QED
    BY <2>7, <2>9, <2>11, <2>12, <2>13, Zenon DEF JobInv
<1>. QED
  BY <1>2, <1>3

LEMMA JobOrders ==
  /\ Job!Schedulers = {"epg", "sync"}
  /\ \A l \in Job!Schedulers :
       /\ Job!Order[l] \in Seq(Job!Jobs)
       /\ \A i \in DOMAIN Job!Order[l] : Job!LoopOf(Job!Order[l][i]) = l
  /\ \A j \in Job!Jobs :
       /\ Job!LoopOf(j) \in Job!Schedulers
       /\ Job!After(j) \in Seq(Job!Jobs)
       /\ \A i \in DOMAIN Job!After(j) : Job!LoopOf(Job!After(j)[i]) = Job!LoopOf(j)
<1>1. Job!Schedulers = {"epg", "sync"}
  BY DEF Job!Schedulers
<1>2. ASSUME NEW l \in Job!Schedulers
      PROVE  /\ Job!Order[l] \in Seq(Job!Jobs)
             /\ \A i \in DOMAIN Job!Order[l] : Job!LoopOf(Job!Order[l][i]) = l
  <2>1. Job!Order["epg"] = <<"epg">> /\ Job!Order["sync"] = <<"lineup", "vod">>
    BY DEF Job!Order
  <2>2. CASE l = "epg"
    BY <2>1, <2>2 DEF Job!Jobs, Job!LoopOf
  <2>3. CASE l = "sync"
    <3>1. <<"lineup", "vod">> \in Seq(Job!Jobs)
      BY DEF Job!Jobs
    <3>2. \A i \in 1..2 : i = 1 \/ i = 2
      OBVIOUS
    <3>3. DOMAIN <<"lineup", "vod">> = 1..2
      OBVIOUS
    <3>4. <<"lineup", "vod">>[1] = "lineup" /\ <<"lineup", "vod">>[2] = "vod"
      OBVIOUS
    <3>5. Job!LoopOf("lineup") = "sync" /\ Job!LoopOf("vod") = "sync"
      BY DEF Job!LoopOf
    <3>. QED
      BY <2>1, <2>3, <3>1, <3>2, <3>3, <3>4, <3>5, Zenon
  <2>. QED
    BY <1>1, <2>2, <2>3
<1>3. ASSUME NEW j \in Job!Jobs
      PROVE  /\ Job!LoopOf(j) \in Job!Schedulers
             /\ Job!After(j) \in Seq(Job!Jobs)
             /\ \A i \in DOMAIN Job!After(j) : Job!LoopOf(Job!After(j)[i]) = Job!LoopOf(j)
  <2>1. Job!LoopOf(j) \in Job!Schedulers
    BY DEF Job!LoopOf, Job!Schedulers
  <2>2. CASE j = "lineup"
    <3>1. Job!After(j) = <<"vod">> /\ Job!LoopOf(j) = "sync" /\ Job!LoopOf("vod") = "sync"
      BY <2>2 DEF Job!After, Job!LoopOf
    <3>2. <<"vod">> \in Seq(Job!Jobs)
      BY DEF Job!Jobs
    <3>. QED
      BY <2>1, <3>1, <3>2
  <2>3. CASE j # "lineup"
    <3>1. Job!After(j) = << >>
      BY <2>3 DEF Job!After
    <3>. QED
      BY <2>1, <3>1
  <2>. QED
    BY <2>2, <2>3
<1>. QED
  BY <1>1, <1>2, <1>3

LEMMA JobTicking ==
  ASSUME JobInv, NEW l \in Job!Schedulers, NEW r \in Runs, Job!Tick(l, r)
  PROVE  JobInv'
<1>1. job[r] = None /\ doing[r] = "none"
  <2>1. Job!Free(r)
    BY Zenon DEF Job!Tick
  <2>2. job[r] = None
    BY <2>1, Zenon DEF Job!Free
  <2>. QED
    BY <2>2, Zenon DEF JobInv, JobTicks
<1>2. \A j \in Job!Jobs : onRun[j] <=> \E q \in Runs \ {r} : job[q] = j
  <2>1. \A j \in Job!Jobs : onRun[j] <=> \E q \in Runs : job[q] = j
    BY Zenon DEF JobInv, JobTicks
  <2>2. ASSUME NEW j \in Job!Jobs
        PROVE  (\E q \in Runs : job[q] = j) <=> \E q \in Runs \ {r} : job[q] = j
    BY <1>1, JobNone
  <2>. QED
    BY <2>1, <2>2, Zenon
<1>3. onRun \in [Job!Jobs -> BOOLEAN]
  BY Zenon DEF JobInv, Job!TypeOK
<1>4. Job!Proceeds(r, l, Job!Order[l], onRun) /\ due' \in [Job!Jobs -> BOOLEAN]
  BY Zenon DEF Job!Tick, JobInv, Job!TypeOK
<1>5. doing[r] \in {"none", "after"} /\ (job[r] # None => Job!LoopOf(job[r]) = l)
  BY <1>1
<1>. QED
  BY <1>2, <1>3, <1>4, <1>5, JobOrders, JobGoesOn, Zenon

LEMMA JobFinishing ==
  ASSUME JobInv, NEW r \in Runs, NEW ok \in BOOLEAN, Job!Finish(r, ok)
  PROVE  JobInv'
<1>0. job \in [Runs -> Job!Jobs \cup {None}] /\ onRun \in [Job!Jobs -> BOOLEAN]
  BY Zenon DEF JobInv, Job!TypeOK
<1>1. /\ doing[r] = "after"
      /\ due' = [due EXCEPT ![job[r]] = due[job[r]] /\ (~ok \/ job[r] # "vod")]
      /\ Job!Proceeds(r, Job!LoopOf(job[r]), Job!After(job[r]), [onRun EXCEPT ![job[r]] = FALSE])
  BY Zenon DEF Job!Finish
<1>. DEFINE flags == [onRun EXCEPT ![job[r]] = FALSE]
<1>2. job[r] # None /\ job[r] \in Job!Jobs
  <2>1. job[r] # None
    BY <1>1 DEF JobInv, JobTicks
  <2>. QED
    BY <1>0, <2>1
<1>3. flags \in [Job!Jobs -> BOOLEAN]
  BY <1>0
<1>4. ASSUME NEW j \in Job!Jobs PROVE flags[j] <=> \E q \in Runs \ {r} : job[q] = j
  <2>1. CASE j = job[r]
    <3>1. ~flags[j]
      BY <1>0, <2>1, Zenon
    <3>2. \A q \in Runs : job[q] = job[r] => q = r
      BY <1>2, Zenon DEF JobInv, JobTicks
    <3>. QED
      BY <2>1, <3>1, <3>2, Zenon
  <2>2. CASE j # job[r]
    <3>1. flags[j] = onRun[j]
      BY <1>0, <2>2, Zenon
    <3>2. (\E q \in Runs : job[q] = j) <=> \E q \in Runs \ {r} : job[q] = j
      BY <2>2
    <3>3. onRun[j] <=> \E q \in Runs : job[q] = j
      BY Zenon DEF JobInv, JobTicks
    <3>. QED
      BY <3>1, <3>2, <3>3, Zenon
  <2>. QED
    BY <2>1, <2>2
<1>5. Job!Proceeds(r, Job!LoopOf(job[r]), Job!After(job[r]), flags)
  BY <1>1
<1>6. /\ Job!LoopOf(job[r]) \in Job!Schedulers /\ Job!After(job[r]) \in Seq(Job!Jobs)
      /\ \A i \in DOMAIN Job!After(job[r]) : Job!LoopOf(Job!After(job[r])[i]) = Job!LoopOf(job[r])
  BY <1>2, JobOrders, Zenon
<1>. HIDE DEF flags
<1>7. doing[r] \in {"none", "after"}
  BY <1>1
<1>8. due' \in [Job!Jobs -> BOOLEAN]
  <2>1. due \in [Job!Jobs -> BOOLEAN]
    BY Zenon DEF JobInv, Job!TypeOK
  <2>2. (due[job[r]] /\ (~ok \/ job[r] # "vod")) \in BOOLEAN
    BY Zenon
  <2>. QED
    BY <1>1, <2>1, <2>2
<1>. QED
  BY <1>1, <1>3, <1>4, <1>5, <1>6, <1>7, <1>8, JobGoesOn, Zenon

LEMMA JobEnding ==
  ASSUME JobInv, NEW r \in Runs, NEW ok \in BOOLEAN, Job!Ends(r, ok)
  PROVE  JobInv'
<1>0. /\ armed \in [Job!Schedulers -> BOOLEAN] /\ onRun \in [Job!Jobs -> BOOLEAN]
      /\ due \in [Job!Jobs -> BOOLEAN] /\ job \in [Runs -> Job!Jobs \cup {None}]
      /\ doing \in [Runs -> {"none", "queued", "runs", "after"}]
      /\ pred \in [Runs -> Runs \cup {None}] /\ chain \in Runs \cup {None}
  BY DEF JobInv, Job!TypeOK
<1>1. PICK Q \in Seq(Runs) : JobLine(Q)
  BY Zenon DEF JobInv
<1>2. /\ doing[r] = "runs" /\ doing' = [doing EXCEPT ![r] = "after"]
      /\ pred' = [q \in Runs |-> IF pred[q] = r THEN None ELSE pred[q]]
      /\ chain' = IF chain = r THEN None ELSE chain
      /\ armed' = armed /\ onRun' = onRun /\ job' = job
  BY Zenon DEF Job!Ends, Job!Settled
<1>3. due' \in [Job!Jobs -> BOOLEAN]
  <2>1. due' = [due EXCEPT ![job[r]] = due[job[r]] /\ (~ok \/ job[r] = "vod")]
    BY Zenon DEF Job!Ends
  <2>2. (due[job[r]] /\ (~ok \/ job[r] = "vod")) \in BOOLEAN
    BY Zenon
  <2>. QED
    BY <1>0, <2>1, <2>2
<1>4. 1 \in 1..Len(Q) /\ Q[1] = r
  <2>1. pred[r] = None
    BY <1>2, Zenon DEF JobInv, JobTicks
  <2>2. JobActive(r)
    BY <1>2 DEF JobActive
  <2>3. PICK i \in 1..Len(Q) : Q[i] = r
    BY <1>1, <2>2, Zenon DEF JobLine
  <2>4. pred[Q[i]] = IF i = 1 THEN None ELSE Q[i - 1]
    BY <1>1, Zenon DEF JobLine
  <2>5. i # 1 => Q[i - 1] \in Runs
    OBVIOUS
  <2>. QED
    BY <2>1, <2>3, <2>4, <2>5, JobNone
<1>5. Job!TypeOK'
  <2>1. doing' \in [Runs -> {"none", "queued", "runs", "after"}]
    BY <1>0, <1>2
  <2>2. pred' \in [Runs -> Runs \cup {None}] /\ chain' \in Runs \cup {None}
    BY <1>0, <1>2
  <2>. QED
    BY <1>0, <1>2, <1>3, <2>1, <2>2, Zenon DEF Job!TypeOK
<1>6. /\ doing'[r] = "after" /\ \A q \in Runs : q # r => doing'[q] = doing[q]
      /\ \A q \in Runs : pred'[q] = IF pred[q] = r THEN None ELSE pred[q]
  BY <1>0, <1>2
<1>. DEFINE P == Tail(Q)
<1>7. /\ P \in Seq(Runs) /\ Len(P) = Len(Q) - 1 /\ Len(Q) \in Nat /\ Len(Q) # 0
      /\ \A i \in 1..Len(P) : P[i] = Q[i + 1] /\ i + 1 \in 1..Len(Q) /\ P[i] \in Runs
  BY <1>4
<1>. HIDE DEF P
<1>8. \A i, k \in 1..Len(Q) : Q[i] = Q[k] => i = k
  BY <1>1, Zenon DEF JobLine
<1>9. JobLine(P)'
  <2>1. \A i, k \in 1..Len(P) : P[i] = P[k] => i = k
    BY <1>7, <1>8
  <2>2. ASSUME NEW q \in Runs PROVE JobActive(q)' <=> \E i \in 1..Len(P) : P[i] = q
    <3>1. CASE q = r
      <4>1. ~JobActive(q)'
        BY <1>6, <3>1 DEF JobActive
      <4>2. \A i \in 1..Len(P) : P[i] # r
        BY <1>4, <1>7, <1>8
      <4>. QED
        BY <3>1, <4>1, <4>2, Zenon
    <3>2. CASE q # r
      <4>1. JobActive(q)' <=> JobActive(q)
        BY <1>6, <3>2, Zenon DEF JobActive
      <4>2. JobActive(q) <=> \E i \in 1..Len(Q) : Q[i] = q
        BY <1>1, Zenon DEF JobLine
      <4>3. ASSUME NEW i \in 1..Len(Q), Q[i] = q PROVE \E k \in 1..Len(P) : P[k] = q
        <5>1. i # 1
          BY <1>4, <3>2, <4>3
        <5>2. i - 1 \in 1..Len(P) /\ P[i - 1] = q
          BY <1>7, <4>3, <5>1
        <5>. QED
          BY <5>2
      <4>4. ASSUME NEW k \in 1..Len(P), P[k] = q PROVE \E i \in 1..Len(Q) : Q[i] = q
        BY <1>7, <4>4
      <4>. QED
        BY <4>1, <4>2, <4>3, <4>4, Zenon
    <3>. QED
      BY <3>1, <3>2
  <2>3. chain' = IF Len(P) = 0 THEN None ELSE P[Len(P)]
    <3>1. chain = Q[Len(Q)]
      BY <1>1, <1>7 DEF JobLine
    <3>2. CASE Len(P) = 0
      <4>1. Len(Q) = 1
        BY <1>7, <3>2
      <4>. QED
        BY <1>2, <1>4, <3>1, <3>2, <4>1
    <3>3. CASE Len(P) # 0
      <4>1. P[Len(P)] = Q[Len(Q)] /\ Len(Q) # 1 /\ Len(Q) \in 1..Len(Q)
        BY <1>7, <3>3
      <4>2. Q[Len(Q)] # r
        BY <1>4, <1>8, <4>1
      <4>. QED
        BY <1>2, <3>1, <3>3, <4>1, <4>2
    <3>. QED
      BY <3>2, <3>3
  <2>4. ASSUME NEW i \in 1..Len(P)
        PROVE  pred'[P[i]] = IF i = 1 THEN None ELSE P[i - 1]
    <3>1. P[i] = Q[i + 1] /\ i + 1 \in 1..Len(Q) /\ P[i] \in Runs /\ i + 1 # 1
      BY <1>7
    <3>2. pred[Q[i + 1]] = Q[i]
      <4>1. pred[Q[i + 1]] = IF i + 1 = 1 THEN None ELSE Q[(i + 1) - 1]
        BY <1>1, <3>1, Zenon DEF JobLine
      <4>2. (i + 1) - 1 = i
        OBVIOUS
      <4>. QED
        BY <3>1, <4>1, <4>2
    <3>3. CASE i = 1
      <4>1. pred'[P[i]] = None
        BY <1>4, <1>6, <3>1, <3>2, <3>3
      <4>. QED
        BY <3>3, <4>1
    <3>4. CASE i # 1
      <4>1. i \in 1..Len(Q) /\ i - 1 \in 1..Len(P) /\ P[i - 1] = Q[i]
        BY <1>7, <3>4
      <4>2. Q[i] # r
        BY <1>4, <1>8, <3>4, <4>1
      <4>3. pred'[P[i]] = Q[i]
        BY <1>6, <3>1, <3>2, <4>2
      <4>. QED
        BY <3>4, <4>1, <4>3
    <3>. QED
      BY <3>3, <3>4
  <2>. QED
    BY <1>7, <2>1, <2>2, <2>3, <2>4, Zenon DEF JobLine
<1>10. JobTicks'
  <2>1. ASSUME NEW q \in Runs PROVE doing'[q] = "none" <=> job'[q] = None
    <3>1. doing[q] = "none" <=> job[q] = None
      BY Zenon DEF JobInv, JobTicks
    <3>. QED
      BY <1>2, <1>6, <3>1
  <2>2. ASSUME NEW q \in Runs, doing'[q] = "runs" PROVE pred'[q] = None
    <3>1. doing[q] = "runs"
      BY <1>6, <2>2
    <3>2. pred[q] = None
      BY <3>1, Zenon DEF JobInv, JobTicks
    <3>. QED
      BY <1>6, <3>2
  <2>. QED
    BY <1>2, <2>1, <2>2, Zenon DEF JobInv, JobTicks
<1>11. JobLoops'
  BY <1>2, Zenon DEF JobInv, JobLoops, Job!LoopOf
<1>. QED
  BY <1>5, <1>7, <1>9, <1>10, <1>11, Zenon DEF JobInv

LEMMA JobStarting ==
  ASSUME JobInv, NEW r \in Runs, Job!Start(r)
  PROVE  JobInv'
<1>0. doing \in [Runs -> {"none", "queued", "runs", "after"}]
  BY DEF JobInv, Job!TypeOK
<1>1. PICK Q \in Seq(Runs) : JobLine(Q)
  BY Zenon DEF JobInv
<1>2. /\ doing[r] = "queued" /\ pred[r] = None /\ doing' = [doing EXCEPT ![r] = "runs"]
      /\ UNCHANGED <<armed, onRun, due, job, pred, chain>>
  BY Zenon DEF Job!Start
<1>3. doing' \in [Runs -> {"none", "queued", "runs", "after"}]
  BY <1>0, <1>2
<1>4. doing'[r] = "runs" /\ \A q \in Runs : q # r => doing'[q] = doing[q]
  BY <1>0, <1>2
<1>5. \A q \in Runs : JobActive(q)' <=> JobActive(q)
  BY <1>2, <1>4 DEF JobActive
<1>6. JobLine(Q)'
  BY <1>1, <1>2, <1>5, Zenon DEF JobLine
<1>7. JobTicks'
  <2>1. ASSUME NEW q \in Runs PROVE doing'[q] = "none" <=> job'[q] = None
    <3>1. doing[q] = "none" <=> job[q] = None
      BY Zenon DEF JobInv, JobTicks
    <3>. QED
      BY <1>2, <1>4, <3>1
  <2>2. ASSUME NEW q \in Runs, doing'[q] = "runs" PROVE pred'[q] = None
    BY <1>2, <1>4, <2>2 DEF JobInv, JobTicks
  <2>. QED
    BY <1>2, <2>1, <2>2, Zenon DEF JobInv, JobTicks
<1>8. JobLoops'
  BY <1>2, Zenon DEF JobInv, JobLoops, Job!LoopOf
<1>9. Job!TypeOK'
  BY <1>2, <1>3, Zenon DEF JobInv, Job!TypeOK
<1>. QED
  BY <1>1, <1>6, <1>7, <1>8, <1>9, Zenon DEF JobInv

LEMMA JobStep == JobInv /\ Job!Next => JobInv'
<1>. SUFFICES ASSUME JobInv, Job!Next PROVE JobInv'
  OBVIOUS
<1>1. ASSUME NEW l \in Job!Schedulers, Job!Restart(l) PROVE JobInv'
  <2>1. /\ armed' = [armed EXCEPT ![l] = TRUE]
        /\ UNCHANGED <<onRun, due, job, doing, pred, chain>>
    BY <1>1, Zenon DEF Job!Restart
  <2>2. armed \in [Job!Schedulers -> BOOLEAN]
    BY Zenon DEF JobInv, Job!TypeOK
  <2>3. armed' \in [Job!Schedulers -> BOOLEAN] /\ \A m \in Job!Schedulers : armed[m] => armed'[m]
    BY <2>1, <2>2
  <2>4. JobLoops'
    BY <2>1, <2>3, Zenon DEF JobInv, JobLoops, Job!LoopOf
  <2>5. Job!TypeOK' /\ JobTicks'
    BY <2>1, <2>3, Zenon DEF JobInv, Job!TypeOK, JobTicks
  <2>. QED
    BY <2>1, <2>4, <2>5, Zenon DEF JobInv, JobLine, JobActive
<1>2. ASSUME NEW j \in Job!Jobs, Job!Due(j) PROVE JobInv'
  <2>1. /\ due' = [due EXCEPT ![j] = TRUE] /\ UNCHANGED <<armed, onRun, job, doing, pred, chain>>
    BY <1>2, Zenon DEF Job!Due
  <2>2. due \in [Job!Jobs -> BOOLEAN]
    BY Zenon DEF JobInv, Job!TypeOK
  <2>3. due' \in [Job!Jobs -> BOOLEAN]
    BY <2>1, <2>2
  <2>4. Job!TypeOK'
    BY <2>1, <2>3, Zenon DEF JobInv, Job!TypeOK
  <2>5. JobTicks'
    BY <2>1 DEF JobInv, JobTicks
  <2>6. JobLoops'
    BY <2>1, Zenon DEF JobInv, JobLoops, Job!LoopOf
  <2>. QED
    BY <2>1, <2>4, <2>5, <2>6, Zenon DEF JobInv, JobLine, JobActive
<1>. QED
  BY <1>1, <1>2, JobTicking, JobStarting, JobFinishing, JobEnding, Zenon DEF Job!Next

LEMMA JobRests == JobInv /\ UNCHANGED jobVars => JobInv'
<1>. SUFFICES ASSUME JobInv, UNCHANGED jobVars PROVE JobInv'
  OBVIOUS
<1>1. UNCHANGED <<armed, onRun, due, job, doing, pred, chain>>
  BY DEF jobVars
<1>2. Job!TypeOK'
  BY <1>1, Zenon DEF JobInv, Job!TypeOK
<1>3. JobTicks'
  BY <1>1 DEF JobInv, JobTicks
<1>4. JobLoops'
  BY <1>1, Zenon DEF JobInv, JobLoops, Job!LoopOf
<1>. QED
  BY <1>1, <1>2, <1>3, <1>4, Zenon DEF JobInv, JobLine, JobActive

-----------------------------------------------------------------------------
(* Mirror: what a rebuild wanted at every moment stays out of what it will  *)
(* delete.                                                                 *)

MirKeeps ==
  \A r \in Rebuilds :
    /\ steady[r] \subseteq titles \ real
    /\ rebuild[r].phase # "idle" => steady[r] \subseteq rebuild[r].wanted
    /\ rebuild[r].phase = "prune" => rebuild[r].todo \cap rebuild[r].wanted = {}

MirInv == Mir!TypeOK /\ MirKeeps

LEMMA MirInit == Mir!Init => MirInv
<1>. SUFFICES ASSUME Mir!Init PROVE MirInv
  OBVIOUS
<1>. QED
  BY DEF Mir!Init, Mir!Resting, MirInv, MirKeeps, Mir!TypeOK

LEMMA MirStep == MirInv /\ Mir!Next => MirInv'
<1>. SUFFICES ASSUME MirInv, Mir!Next PROVE MirInv'
  OBVIOUS
<1>. USE DEF MirInv, MirKeeps, Mir!TypeOK
<1>1. ASSUME NEW r \in Rebuilds, Mir!Begin(r) PROVE MirInv'
  BY <1>1 DEF Mir!Begin, Mir!Resting
<1>2. ASSUME NEW r \in Rebuilds, Mir!Lookup(r) PROVE MirInv'
  <2>1. PICK told_ \in Mir!Answers : rebuild' =
          [rebuild EXCEPT ![r] = [phase |-> "write", wanted |-> rebuild[r].wanted \ told_,
                                  todo |-> rebuild[r].wanted \ told_]]
    BY <1>2, Zenon DEF Mir!Lookup, Mir!Owned
  <2>2. told_ \subseteq real
    BY DEF Mir!Answers
  <2>. QED
    BY <1>2, <2>1, <2>2 DEF Mir!Lookup
<1>3. ASSUME NEW r \in Rebuilds, Mir!Write(r) PROVE MirInv'
  BY <1>3 DEF Mir!Write
<1>4. ASSUME NEW r \in Rebuilds, Mir!ReadDir(r) PROVE MirInv'
  BY <1>4 DEF Mir!ReadDir, Mir!Extraneous
<1>5. ASSUME NEW r \in Rebuilds, Mir!Prune(r) PROVE MirInv'
  BY <1>5 DEF Mir!Prune
<1>6. ASSUME NEW r \in Rebuilds, Mir!End(r) PROVE MirInv'
  BY <1>6 DEF Mir!End, Mir!Resting
<1>7. ASSUME NEW t \in Titles, Mir!Change(t) PROVE MirInv'
  BY <1>7 DEF Mir!Change
<1>8. CASE Mir!Reach
  BY <1>8 DEF Mir!Reach
<1>. QED
  BY <1>1, <1>2, <1>3, <1>4, <1>5, <1>6, <1>7, <1>8, Zenon DEF Mir!Next

LEMMA MirRests == MirInv /\ UNCHANGED mirrorVars => MirInv'
BY DEF MirInv, MirKeeps, Mir!TypeOK, mirrorVars

\* A rebuild deletes nothing that was wanted all along.
LEMMA MirPrunes ==
  MirInv => \A r \in Rebuilds : Mir!Prune(r) => steady[r] \cap files \subseteq files'
BY DEF MirInv, MirKeeps, Mir!TypeOK, Mir!Prune

-----------------------------------------------------------------------------
(* Episodes: an answer replaces the list, unless it would empty it.        *)

LEMMA EpsBounds ==
  /\ MAX_ATTEMPTS \in Nat /\ MAX_NOW \in Nat \ {0}
  /\ 0 \notin Eps /\ \A g \in Grabs : g = 1 /\ <<1>>[g] = 1 /\ <<1>>[g] \in Eps
BY UpkeepAssumption

LEMMA EpsInit == Eps1!Init => Eps1!TypeOK
BY EpsBounds DEF Eps1!Init, Eps1!TypeOK, Eps1!Readers

\* What an answer makes of the list.
EpsKept ==
  /\ Eps1!Cached # {} => \E e \in Eps : firstSeen'[e] # 0
  /\ \A e \in Eps1!Cached : firstSeen'[e] \in {0, firstSeen[e]}

LEMMA EpsStored ==
  ASSUME Eps1!TypeOK, NEW a \in (SUBSET Eps) \cup {Eps1!NoAnswer}, Eps1!Stored(a)
  PROVE  firstSeen' \in [Eps -> 0..MAX_NOW] /\ cacheAge' \in 0..2 /\ EpsKept
<1>. USE EpsBounds DEF Eps1!TypeOK, EpsKept, Eps1!Cached
<1>1. CASE a = Eps1!NoAnswer \/ (a = {} /\ Eps1!Cached # {})
  BY <1>1 DEF Eps1!Stored
<1>2. CASE ~(a = Eps1!NoAnswer \/ (a = {} /\ Eps1!Cached # {}))
  <2>. DEFINE F == [e \in Eps |-> IF e \notin a THEN 0
                                  ELSE IF firstSeen[e] # 0 THEN firstSeen[e] ELSE now]
  <2>1. firstSeen' = F /\ cacheAge' = 0
    BY <1>2, Zenon DEF Eps1!Stored
  <2>2. \A e \in Eps : F[e] = IF e \notin a THEN 0
                              ELSE IF firstSeen[e] # 0 THEN firstSeen[e] ELSE now
    OBVIOUS
  <2>3. \A e \in Eps : F[e] \in 0..MAX_NOW
    BY <2>2
  <2>4. F \in [Eps -> 0..MAX_NOW]
    BY <2>3
  <2>5. a \subseteq Eps
    BY <1>2, Zenon
  <2>. HIDE DEF F
  <2>6. ASSUME Eps1!Cached # {} PROVE \E e \in Eps : F[e] # 0
    <3>1. PICK e \in a : e \in Eps
      BY <1>2, <2>5, <2>6
    <3>2. F[e] # 0
      BY <2>2, <3>1
    <3>. QED
      BY <3>1, <3>2
  <2>7. \A e \in Eps : F[e] \in {0, firstSeen[e]} \/ firstSeen[e] = 0
    BY <2>2
  <2>8. EpsKept
    BY <2>1, <2>6, <2>7, Zenon
  <2>. QED
    BY <2>1, <2>4, <2>8
<1>. QED
  BY <1>1, <1>2

LEMMA EpsTries ==
  ASSUME Eps1!TypeOK, NEW g \in Grabs, Eps1!HandsOver(g) \/ Eps1!TriesAgain(g)
  PROVE  nzb' \in [Grabs -> {"none", "waiting", "done", "error"}]
         /\ attempts' \in [Grabs -> 0..MAX_ATTEMPTS]
<1>. USE EpsBounds DEF Eps1!TypeOK
<1>1. CASE Eps1!HandsOver(g)
  BY <1>1 DEF Eps1!HandsOver
<1>2. CASE Eps1!TriesAgain(g)
  <2>1. CASE attempts[g] + 1 >= MAX_ATTEMPTS
    BY <1>2, <2>1 DEF Eps1!TriesAgain
  <2>2. CASE ~(attempts[g] + 1 >= MAX_ATTEMPTS)
    <3>1. UNCHANGED nzb /\ attempts' = [attempts EXCEPT ![g] = attempts[g] + 1]
      BY <1>2, <2>2, Zenon DEF Eps1!TriesAgain
    <3>2. attempts[g] + 1 \in 0..MAX_ATTEMPTS
      BY <2>2
    <3>. QED
      BY <3>1, <3>2
  <2>. QED
    BY <2>1, <2>2
<1>. QED
  BY <1>1, <1>2

LEMMA EpsStep == Eps1!TypeOK /\ Eps1!Next => Eps1!TypeOK' /\ (EpsKept \/ UNCHANGED firstSeen)
<1>. SUFFICES ASSUME Eps1!TypeOK, Eps1!Next
             PROVE  Eps1!TypeOK' /\ (EpsKept \/ UNCHANGED firstSeen)
  OBVIOUS
<1>. USE EpsBounds
<1>1. ASSUME NEW r \in Eps1!Readers, NEW a \in {aired, {}, Eps1!NoAnswer}, Eps1!Answer(r, a)
      PROVE  Eps1!TypeOK' /\ UNCHANGED firstSeen
  <2>1. a \in (SUBSET Eps) \cup {Eps1!NoAnswer}
    BY DEF Eps1!TypeOK
  <2>. HIDE DEF Eps1!NoAnswer
  <2>2. answer' \in [Eps1!Readers -> (SUBSET Eps) \cup {Eps1!NoAnswer}]
    BY <1>1, <2>1 DEF Eps1!Answer, Eps1!TypeOK
  <2>. QED
    BY <1>1, <2>2 DEF Eps1!Answer, Eps1!TypeOK
<1>2. CASE Eps1!LibraryAsks
  BY <1>2 DEF Eps1!LibraryAsks, Eps1!TypeOK, Eps1!Readers
<1>3. CASE Eps1!LibraryMirrors
  <2>1. /\ firstSeen' \in [Eps -> 0..MAX_NOW] /\ cacheAge' \in 0..2
        /\ EpsKept \/ UNCHANGED firstSeen
    <3>1. answer["library"] \in (SUBSET Eps) \cup {Eps1!NoAnswer}
      BY DEF Eps1!TypeOK, Eps1!Readers
    <3>2. CASE Eps1!Stored(answer["library"])
      BY <3>1, <3>2, EpsStored
    <3>3. CASE UNCHANGED <<firstSeen, cacheAge, fetch, answer>>
      BY <3>3 DEF Eps1!TypeOK
    <3>. QED
      BY <1>3, <3>2, <3>3, Zenon DEF Eps1!LibraryMirrors
  <2>2. /\ fetch' \in [Eps1!Readers -> {"idle", "waits", "has"}]
        /\ answer' \in [Eps1!Readers -> (SUBSET Eps) \cup {Eps1!NoAnswer}]
    BY <1>3 DEF Eps1!LibraryMirrors, Eps1!Released, Eps1!TypeOK
  <2>3. strms' \subseteq Eps /\ UNCHANGED <<aired, now, nzb, attempts, grabbing>>
    BY <1>3 DEF Eps1!LibraryMirrors, Eps1!Mirrored
  <2>. QED
    BY <2>1, <2>2, <2>3 DEF Eps1!TypeOK
<1>4. CASE Eps1!Ages
  BY <1>4 DEF Eps1!Ages, Eps1!TypeOK
<1>5. ASSUME NEW g \in Grabs, Eps1!Take(g) PROVE Eps1!TypeOK' /\ UNCHANGED firstSeen
  <2>1. UNCHANGED <<aired, firstSeen, cacheAge, now, answer, strms>>
    BY <1>5 DEF Eps1!Take
  <2>2. CASE (Eps1!HandsOver(g) \/ Eps1!TriesAgain(g)) /\ UNCHANGED <<fetch, grabbing>>
    BY <2>1, <2>2, EpsTries DEF Eps1!TypeOK
  <2>3. CASE /\ grabbing' = {g} /\ fetch' = [fetch EXCEPT !["grabs"] = "waits"]
             /\ UNCHANGED <<nzb, attempts>>
    BY <2>1, <2>3 DEF Eps1!TypeOK, Eps1!Readers
  <2>. QED
    BY <1>5, <2>2, <2>3, Zenon DEF Eps1!Take
<1>6. ASSUME NEW g \in Grabs, Eps1!Resolve(g) PROVE Eps1!TypeOK' /\ EpsKept
  <2>1. answer["grabs"] \in (SUBSET Eps) \cup {Eps1!NoAnswer}
    BY DEF Eps1!TypeOK, Eps1!Readers
  <2>2. firstSeen' \in [Eps -> 0..MAX_NOW] /\ cacheAge' \in 0..2 /\ EpsKept
    BY <1>6, <2>1, EpsStored DEF Eps1!Resolve
  <2>3. /\ nzb' \in [Grabs -> {"none", "waiting", "done", "error"}]
        /\ attempts' \in [Grabs -> 0..MAX_ATTEMPTS]
    BY <1>6, EpsTries, Zenon DEF Eps1!Resolve
  <2>4. /\ fetch' \in [Eps1!Readers -> {"idle", "waits", "has"}]
        /\ answer' \in [Eps1!Readers -> (SUBSET Eps) \cup {Eps1!NoAnswer}]
        /\ grabbing' \subseteq Grabs
    BY <1>6 DEF Eps1!Resolve, Eps1!Released, Eps1!TypeOK
  <2>5. UNCHANGED <<aired, now, strms>>
    BY <1>6 DEF Eps1!Resolve
  <2>. QED
    BY <2>2, <2>3, <2>4, <2>5 DEF Eps1!TypeOK
<1>7. ASSUME NEW g \in Grabs, Eps1!Drop(g) PROVE Eps1!TypeOK' /\ UNCHANGED firstSeen
  BY <1>7 DEF Eps1!Drop, Eps1!TypeOK
<1>8. ASSUME NEW e \in Eps, Eps1!Airs(e) PROVE Eps1!TypeOK' /\ UNCHANGED firstSeen
  BY <1>8 DEF Eps1!Airs, Eps1!TypeOK
<1>9. Eps1!LibraryAsks \/ Eps1!Ages => UNCHANGED firstSeen
  BY DEF Eps1!LibraryAsks, Eps1!Ages
<1>. QED
  BY <1>1, <1>2, <1>3, <1>4, <1>5, <1>6, <1>7, <1>8, <1>9, Zenon DEF Eps1!Next

LEMMA EpsRests == Eps1!TypeOK /\ UNCHANGED episodeVars => Eps1!TypeOK'
BY DEF Eps1!TypeOK, episodeVars

LEMMA EpsUnchanged == Eps1!TypeOK /\ UNCHANGED firstSeen => EpsKept
BY DEF EpsKept, Eps1!TypeOK, Eps1!Cached

-----------------------------------------------------------------------------
(* The reconciler: its types.                                               *)

LEMMA RecBounds ==
  /\ STALE \in Nat /\ Rec!Ids = {"a", "b"} /\ Len(<<"a", "b">>) = 2 /\ Troubled \subseteq Rec!Ids
  /\ \A i \in 1..2 : <<"a", "b">>[i] \in Rec!Ids
<1>1. DOMAIN <<"a", "b">> = 1..2 /\ <<"a", "b">>[1] = "a" /\ <<"a", "b">>[2] = "b"
  OBVIOUS
<1>2. 1..2 = {1, 2}
  OBVIOUS
<1>. QED
  BY <1>1, <1>2, UpkeepAssumption DEF Rec!Ids

LEMMA RecInit == Rec!Init => Rec!TypeOK
<1>. SUFFICES ASSUME Rec!Init PROVE Rec!TypeOK
  OBVIOUS
<1>1. /\ up \in [Rec!Ids -> BOOLEAN] /\ tuner \in [Rec!Ids -> BOOLEAN]
      /\ attention \in [Rec!Ids -> BOOLEAN] /\ owed \in [Rec!Ids -> BOOLEAN]
      /\ told \in [Rec!Ids -> BOOLEAN]
  BY DEF Rec!Init
<1>2. state \in [Rec!Ids -> Rec!States]
  BY DEF Rec!Init, Rec!States
<1>3. stuck \in [Rec!Ids -> 0..STALE + 1]
  BY RecBounds DEF Rec!Init
<1>4. at \in 0..2 /\ restarts \in 0..2
  BY DEF Rec!Init
<1>5. step = "users" /\ alert = FALSE /\ hung = FALSE /\ stale = FALSE
  BY DEF Rec!Init
<1>. QED
  BY <1>1, <1>2, <1>3, <1>4, <1>5, RecBounds, Zenon DEF Rec!TypeOK, Rec!States

\* A pass goes on or ends.
LEMMA RecOnward ==
  ASSUME Rec!TypeOK, NEW late \in BOOLEAN, Rec!Onward(late), at # 0
  PROVE  /\ at' \in 0..2 /\ step' \in {"users", "hosts", "converge", "alert"} /\ alert' \in BOOLEAN
         /\ hung' \in BOOLEAN /\ stale' \in BOOLEAN /\ restarts' \in 0..2
<1>1. at \in 0..2 /\ hung \in BOOLEAN /\ stale \in BOOLEAN /\ restarts \in 0..2
  BY RecBounds DEF Rec!TypeOK
<1>2. step' = "users" /\ alert' = FALSE
  BY DEF Rec!Onward
<1>3. CASE at = 2 \/ late
  <2>1. at' = 0 /\ stale' = FALSE /\ restarts' = 0 /\ hung' = hung
    BY <1>3, RecBounds, Zenon DEF Rec!Onward
  <2>2. at' \in 0..2 /\ restarts' \in 0..2
    BY <2>1
  <2>. QED
    BY <1>1, <1>2, <2>1, <2>2, Zenon
<1>4. CASE ~(at = 2 \/ late)
  <2>1. at' = at + 1 /\ stale' = stale /\ restarts' = restarts /\ hung' = hung
    BY <1>4, RecBounds, Zenon DEF Rec!Onward, Rec!dog
  <2>2. at' \in 0..2
    BY <1>1, <1>4, <2>1, at # 0
  <2>. QED
    BY <1>1, <1>2, <2>1, <2>2, Zenon
<1>. QED
  BY <1>3, <1>4

\* What a step does to one entry of a table keeps the table's type.
LEMMA RecEntry ==
  ASSUME NEW T, NEW f \in [Rec!Ids -> T], NEW s \in Rec!Ids, NEW v \in T
  PROVE  [f EXCEPT ![s] = v] \in [Rec!Ids -> T]
OBVIOUS

LEMMA RecStep == Rec!TypeOK /\ Rec!Next => Rec!TypeOK'
<1>. SUFFICES ASSUME Rec!TypeOK, Rec!Next PROVE Rec!TypeOK'
  OBVIOUS
<1>. DEFINE Places == {"users", "hosts", "converge", "alert"}
<1>0. /\ up \in [Rec!Ids -> BOOLEAN] /\ tuner \in [Rec!Ids -> BOOLEAN]
      /\ state \in [Rec!Ids -> Rec!States] /\ attention \in [Rec!Ids -> BOOLEAN]
      /\ owed \in [Rec!Ids -> BOOLEAN] /\ at \in 0..2 /\ step \in Places /\ alert \in BOOLEAN
      /\ stuck \in [Rec!Ids -> 0..STALE + 1] /\ told \in [Rec!Ids -> BOOLEAN]
      /\ hung \in BOOLEAN /\ stale \in BOOLEAN /\ restarts \in 0..2
  BY RecBounds DEF Rec!TypeOK
<1>1. CASE Rec!Tick
  <2>1. /\ at' = 1 /\ step' = "users" /\ alert' = FALSE
        /\ UNCHANGED <<up, tuner, state, attention, owed, stuck, told, hung, stale, restarts>>
    BY <1>1, Zenon DEF Rec!Tick, Rec!ladder, Rec!dog
  <2>2. at' \in 0..2
    BY <2>1
  <2>. QED
    BY <1>0, <2>1, <2>2, RecBounds, Zenon DEF Rec!TypeOK, Rec!States
<1>2. CASE Rec!TickAgain \/ Rec!Wedge \/ Rec!Stale
  <2>1. /\ UNCHANGED <<up, tuner, state, attention, owed, at, step, alert, stuck, told, restarts>>
        /\ hung' \in {TRUE, hung} /\ stale' \in {TRUE, stale}
    BY <1>2, Zenon
       DEF Rec!TickAgain, Rec!Skipped, Rec!Wedge, Rec!Stale, Rec!ladder, Rec!pass, Rec!dog
  <2>. QED
    BY <1>0, <2>1, RecBounds, Zenon DEF Rec!TypeOK, Rec!States
<1>3. CASE Rec!Strike
  <2>1. UNCHANGED <<up, tuner, state, attention, owed>> /\ told' = told /\ stale' = FALSE
    BY <1>3, Zenon DEF Rec!Strike, Rec!ladder, Rec!pass
  <2>2. CASE restarts < 2
    <3>1. restarts' = restarts + 1 /\ UNCHANGED <<at, step, alert, stuck, told, hung>>
      BY <1>3, <2>2, Zenon DEF Rec!Strike, Rec!pass
    <3>2. restarts' \in 0..2
      BY <1>0, <2>2, <3>1
    <3>. QED
      BY <1>0, <2>1, <3>1, <3>2, RecBounds, Zenon DEF Rec!TypeOK, Rec!States
  <2>3. CASE ~(restarts < 2)
    <3>1. /\ restarts' = 0 /\ hung' = FALSE /\ at' = 0 /\ step' = "users" /\ alert' = FALSE
          /\ stuck' = [s \in Rec!Ids |-> 0]
      BY <1>3, <2>3, Zenon DEF Rec!Strike
    <3>2. stuck' \in [Rec!Ids -> 0..STALE + 1]
      BY <3>1, RecBounds
    <3>3. restarts' \in 0..2 /\ at' \in 0..2 /\ step' \in Places
      BY <3>1
    <3>. QED
      BY <1>0, <2>1, <3>1, <3>2, <3>3, RecBounds, Zenon DEF Rec!TypeOK, Rec!States
  <2>. QED
    BY <2>2, <2>3
<1>4. ASSUME NEW s \in Rec!Ids, Rec!Reachable(s) \/ Rec!Checks(s) PROVE Rec!TypeOK'
  <2>1. /\ UNCHANGED <<up, tuner, state, attention, owed, at, told, hung, stale, restarts>>
    BY <1>4, Zenon DEF Rec!Reachable, Rec!Checks, Rec!ladder, Rec!dog
  <2>2. step' \in Places
    BY <1>4, Zenon DEF Rec!Reachable, Rec!Checks
  <2>3. alert' \in BOOLEAN
    BY <1>0, <1>4, Zenon DEF Rec!Reachable, Rec!Checks
  <2>4. stuck' \in [Rec!Ids -> 0..STALE + 1]
    <3>1. stuck' = stuck \/ stuck' = [stuck EXCEPT ![s] = Rec!Tracked(s)]
      BY <1>4, Zenon DEF Rec!Reachable, Rec!Checks
    <3>2. stuck[s] \in 0..STALE + 1
      BY <1>0
    <3>3. Rec!Tracked(s) = 0 \/ Rec!Tracked(s) = stuck[s]
            \/ (~(stuck[s] > STALE) /\ Rec!Tracked(s) = stuck[s] + 1)
      BY Zenon DEF Rec!Tracked
    <3>4. Rec!Tracked(s) \in 0..STALE + 1
      BY <3>2, <3>3, RecBounds
    <3>. QED
      BY <1>0, <3>1, <3>4
  <2>. QED
    BY <1>0, <2>1, <2>2, <2>3, <2>4, RecBounds, Zenon DEF Rec!TypeOK, Rec!States
<1>5. ASSUME NEW s \in Rec!Ids, NEW b \in BOOLEAN, Rec!Unreachable(s, b) \/ Rec!Alerted(s, b)
      PROVE  Rec!TypeOK'
  <2>1. /\ Rec!Onward(b) /\ at # 0
        /\ UNCHANGED <<up, tuner, state, attention, owed>>
    BY <1>5, Zenon DEF Rec!Unreachable, Rec!Alerted, Rec!ladder
  <2>2. /\ at' \in 0..2 /\ step' \in Places /\ alert' \in BOOLEAN
        /\ hung' \in BOOLEAN /\ stale' \in BOOLEAN /\ restarts' \in 0..2
    BY <2>1, RecOnward
  <2>3. stuck' = stuck \/ stuck' = [stuck EXCEPT ![s] = 0]
    BY <1>5, Zenon DEF Rec!Unreachable, Rec!Alerted
  <2>4. stuck' \in [Rec!Ids -> 0..STALE + 1]
    BY <1>0, <2>3, RecBounds
  <2>5. told' = [told EXCEPT ![s] = TRUE] \/ told' = [told EXCEPT ![s] = alert]
    BY <1>5, Zenon DEF Rec!Unreachable, Rec!Alerted
  <2>6. told' \in [Rec!Ids -> BOOLEAN]
    BY <1>0, <2>5
  <2>. QED
    BY <1>0, <2>1, <2>2, <2>4, <2>6, RecBounds, Zenon DEF Rec!TypeOK, Rec!States
<1>6. ASSUME NEW s \in Rec!Ids, NEW b \in BOOLEAN, Rec!Nudged(s, b) PROVE Rec!TypeOK'
  <2>1. step' = "alert" /\ UNCHANGED <<up, at, alert, stuck, told, hung, stale, restarts>>
    BY <1>6, Zenon DEF Rec!Nudged, Rec!dog
  <2>2. \/ /\ owed' = [owed EXCEPT ![s] = FALSE] /\ tuner' = [tuner EXCEPT ![s] = TRUE]
           /\ state' = [state EXCEPT ![s] = "converging"] /\ UNCHANGED attention
        \/ attention' = [attention EXCEPT ![s] = TRUE] /\ UNCHANGED <<owed, tuner, state>>
        \/ /\ \E st \in Rec!States : state' = [state EXCEPT ![s] = st]
           /\ UNCHANGED <<owed, tuner, attention>>
        \/ UNCHANGED <<tuner, state, attention, owed>>
    BY <1>6, Zenon DEF Rec!Nudged, Rec!ladder, Rec!States
  <2>3. /\ owed' \in [Rec!Ids -> BOOLEAN] /\ tuner' \in [Rec!Ids -> BOOLEAN]
        /\ attention' \in [Rec!Ids -> BOOLEAN]
    BY <1>0, <2>2
  <2>4. state' \in [Rec!Ids -> Rec!States]
    BY <1>0, <2>2 DEF Rec!States
  <2>. QED
    BY <1>0, <2>1, <2>3, <2>4, RecBounds, Zenon DEF Rec!TypeOK, Rec!States
<1>7. ASSUME NEW s \in Troubled, Rec!Outage(s) \/ Rec!Operator(s) PROVE Rec!TypeOK'
  <2>1. s \in Rec!Ids
    BY RecBounds
  <2>2. up' = up \/ up' = [up EXCEPT ![s] = ~up[s]]
    BY <1>7, Zenon DEF Rec!Outage, Rec!Operator
  <2>3. attention' = attention \/ attention' = [attention EXCEPT ![s] = FALSE]
    BY <1>7, Zenon DEF Rec!Outage, Rec!Operator, Rec!ladder
  <2>4. UNCHANGED <<tuner, state, owed, at, step, alert, stuck, told, hung, stale, restarts>>
    BY <1>7, Zenon DEF Rec!Outage, Rec!Operator, Rec!ladder, Rec!pass, Rec!dog
  <2>5. up' \in [Rec!Ids -> BOOLEAN] /\ attention' \in [Rec!Ids -> BOOLEAN]
    BY <1>0, <2>1, <2>2, <2>3
  <2>. QED
    BY <1>0, <2>4, <2>5, RecBounds, Zenon DEF Rec!TypeOK, Rec!States
<1>8. ASSUME NEW s \in Troubled, Rec!Rebuild(s) \/ Rec!Drift(s) PROVE Rec!TypeOK'
  <2>1. s \in Rec!Ids
    BY RecBounds
  <2>2. UNCHANGED <<up, at, step, alert, stuck, told, hung, stale, restarts>>
    BY <1>8, Zenon DEF Rec!Rebuild, Rec!Drift, Rec!pass, Rec!dog
  <2>3. \E st \in Rec!States : state' = [state EXCEPT ![s] = st]
    BY <1>8, Zenon DEF Rec!Rebuild, Rec!Drift, Rec!States
  <2>4. owed' = owed \/ owed' = [owed EXCEPT ![s] = TRUE]
    BY <1>8, Zenon DEF Rec!Rebuild, Rec!Drift
  <2>5. tuner' = tuner \/ tuner' = [tuner EXCEPT ![s] = FALSE]
    BY <1>8, Zenon DEF Rec!Rebuild, Rec!Drift
  <2>6. attention' = attention \/ \E b \in BOOLEAN : attention' = [attention EXCEPT ![s] = b]
    BY <1>8, Zenon DEF Rec!Rebuild, Rec!Drift
  <2>7. /\ owed' \in [Rec!Ids -> BOOLEAN] /\ tuner' \in [Rec!Ids -> BOOLEAN]
        /\ attention' \in [Rec!Ids -> BOOLEAN]
    BY <1>0, <2>1, <2>4, <2>5, <2>6
  <2>8. state' \in [Rec!Ids -> Rec!States]
    BY <1>0, <2>1, <2>3
  <2>. QED
    BY <1>0, <2>2, <2>7, <2>8, RecBounds, Zenon DEF Rec!TypeOK, Rec!States
<1>. QED
  BY <1>1, <1>2, <1>3, <1>4, <1>5, <1>6, <1>7, <1>8, Zenon DEF Rec!Next

LEMMA RecRests == Rec!TypeOK /\ UNCHANGED reconcilerVars => Rec!TypeOK'
BY Zenon DEF Rec!TypeOK, Rec!States, reconcilerVars

-----------------------------------------------------------------------------
(* The guide push: a stored fingerprint is behind what Emby shows, and what *)
(* is on its way is not behind it.                                          *)

GpOrder ==
  /\ \A c \in Channels : known[c] <= shown[c] /\ known[c] <= content[c]
  /\ \A c \in pending : known[c] <= batch[c] /\ batch[c] <= content[c]

LEMMA GpBounds ==
  MAX_K \in Nat /\ 1 \in Versions /\ Versions \subseteq Nat /\ Versions \cup {0} \subseteq Nat
BY UpkeepAssumption

LEMMA GpInit == Gp!Init => Gp!TypeOK /\ GpOrder
<1>. SUFFICES ASSUME Gp!Init PROVE Gp!TypeOK /\ GpOrder
  OBVIOUS
<1>3. /\ content \in [Channels -> Versions] /\ known \in [Channels -> Versions \cup {0}]
      /\ batch \in [Channels -> Versions \cup {0}] /\ shown \in [Channels -> Versions \cup {0}]
  BY GpBounds DEF Gp!Init
<1>4. /\ notFound \in [Channels -> 0..MAX_K] /\ waiting \in [Channels -> BOOLEAN]
  BY GpBounds DEF Gp!Init
<1>5. /\ phase = "idle" /\ pending = {} /\ exists = {} /\ indexed = {} /\ indexFresh = FALSE
  BY DEF Gp!Init
<1>1. Gp!TypeOK
  BY <1>3, <1>4, <1>5, Zenon DEF Gp!TypeOK
<1>2. GpOrder
  BY DEF Gp!Init, GpOrder
<1>. QED
  BY <1>1, <1>2

\* A request for a channel that was to be sent.
LEMMA GpSent ==
  ASSUME Gp!TypeOK, NEW c \in Channels, Gp!Sent(c)
  PROVE  /\ phase' \in {"idle", "ping", "send"} /\ pending' = pending \ {c} /\ c \in pending
         /\ batch' \in [Channels -> Versions \cup {0}] /\ pending' \subseteq Channels
         /\ \A d \in Channels : d # c => batch'[d] = batch[d]
<1>1. /\ c \in pending /\ pending' = pending \ {c} /\ batch' = [batch EXCEPT ![c] = 0]
      /\ phase' = IF pending = {c} THEN "idle" ELSE "send"
  BY Zenon DEF Gp!Sent
<1>. QED
  BY <1>1 DEF Gp!TypeOK

LEMMA GpStored ==
  ASSUME Gp!TypeOK, NEW c \in Channels, NEW a \in BOOLEAN, Gp!Stored(c, a)
  PROVE  /\ known' \in [Channels -> Versions \cup {0}] /\ notFound' \in [Channels -> 0..MAX_K]
         /\ known'[c] \in {known[c], batch[c]} /\ \A d \in Channels : d # c => known'[d] = known[d]
<1>1. CASE a
  <2>1. known' = [known EXCEPT ![c] = batch[c]] /\ notFound' = [notFound EXCEPT ![c] = 0]
    BY <1>1, Zenon DEF Gp!Stored
  <2>. QED
    BY <2>1, GpBounds DEF Gp!TypeOK
<1>2. CASE ~a
  <2>1. known' = known /\ notFound' = notFound
    BY <1>2, Zenon DEF Gp!Stored
  <2>. QED
    BY <2>1 DEF Gp!TypeOK
<1>. QED
  BY <1>1, <1>2

LEMMA GpIndex ==
  ASSUME Gp!TypeOK, NEW c \in Channels, Gp!Index(c), exists' = exists
  PROVE  indexed' \subseteq exists' /\ indexFresh' \in BOOLEAN
<1>1. indexed' = IF indexFresh THEN indexed ELSE exists
  BY Zenon DEF Gp!Index
<1>2. indexFresh' = (c \in (IF indexFresh THEN indexed ELSE exists))
  BY Zenon DEF Gp!Index
<1>3. indexFresh' \in BOOLEAN
  BY <1>2
<1>. QED
  BY <1>1, <1>3 DEF Gp!TypeOK

LEMMA GpStep ==
  ASSUME Gp!TypeOK, Gp!Next
  PROVE  Gp!TypeOK' /\ (~REVERTS /\ GpOrder => GpOrder')
<1>0. /\ content \in [Channels -> Versions] /\ known \in [Channels -> Versions \cup {0}]
      /\ notFound \in [Channels -> 0..MAX_K] /\ waiting \in [Channels -> BOOLEAN]
      /\ phase \in {"idle", "ping", "send"} /\ pending \subseteq Channels
      /\ batch \in [Channels -> Versions \cup {0}] /\ exists \subseteq Channels
      /\ shown \in [Channels -> Versions \cup {0}] /\ indexed \subseteq exists
      /\ indexFresh \in BOOLEAN
  BY DEF Gp!TypeOK
<1>1. CASE Gp!Begin \/ Gp!NoPlugin
  <2>1. /\ phase' \in {"idle", "ping"}
        /\ UNCHANGED <<content, known, notFound, waiting, pending, batch, exists, shown, indexed,
                       indexFresh>>
    BY <1>1, Zenon DEF Gp!Begin, Gp!NoPlugin, Gp!emby
  <2>2. phase' \in {"idle", "ping", "send"}
    BY <2>1
  <2>. QED
    BY <1>0, <2>1, <2>2, Zenon DEF Gp!TypeOK, GpOrder
<1>2. CASE Gp!Ping
  <2>1. /\ pending' = Gp!Unsent
        /\ batch' = [c \in Channels |-> IF c \in Gp!Unsent THEN content[c] ELSE 0]
        /\ phase' = IF Gp!Unsent = {} THEN "idle" ELSE "send"
        /\ UNCHANGED <<content, known, notFound, waiting, exists, shown, indexed, indexFresh>>
    BY <1>2, Zenon DEF Gp!Ping, Gp!emby
  <2>2. Gp!Unsent \subseteq Channels
    BY Zenon DEF Gp!Unsent
  <2>3. batch' \in [Channels -> Versions \cup {0}] /\ \A c \in pending' : batch'[c] = content[c]
    BY <1>0, <2>1, <2>2
  <2>4. Gp!TypeOK'
    <3>1. phase' \in {"idle", "ping", "send"} /\ pending' \subseteq Channels
      BY <2>1, <2>2
    <3>. QED
      BY <1>0, <2>1, <2>3, <3>1, Zenon DEF Gp!TypeOK
  <2>5. GpOrder => GpOrder'
    <3>. SUFFICES ASSUME GpOrder PROVE GpOrder'
      OBVIOUS
    <3>1. ASSUME NEW c \in pending' PROVE known'[c] <= batch'[c] /\ batch'[c] <= content'[c]
      <4>1. c \in Channels /\ batch'[c] = content[c] /\ known'[c] = known[c]
            /\ content'[c] = content[c]
        BY <2>1, <2>2, <2>3
      <4>2. known[c] <= content[c] /\ content[c] \in Nat
        BY <1>0, <4>1, GpBounds DEF GpOrder
      <4>. QED
        BY <4>1, <4>2
    <3>. QED
      BY <2>1, <3>1, Zenon DEF GpOrder
  <2>. QED
    BY <2>4, <2>5
<1>3. ASSUME NEW c \in Channels, NEW a \in BOOLEAN, Gp!Written(c, a)
      PROVE  Gp!TypeOK' /\ (GpOrder => GpOrder')
  <2>1. /\ Gp!Sent(c) /\ Gp!Index(c) /\ Gp!Stored(c, a)
        /\ shown' = [shown EXCEPT ![c] = batch[c]]
        /\ waiting' = [waiting EXCEPT ![c] = IF a THEN FALSE ELSE waiting[c]]
        /\ content' = content /\ exists' = exists
    BY <1>3, Zenon DEF Gp!Written
  <2>2. /\ phase' \in {"idle", "ping", "send"} /\ pending' = pending \ {c} /\ c \in pending
        /\ batch' \in [Channels -> Versions \cup {0}] /\ pending' \subseteq Channels
        /\ \A d \in Channels : d # c => batch'[d] = batch[d]
    BY <2>1, GpSent
  <2>3. /\ known' \in [Channels -> Versions \cup {0}] /\ notFound' \in [Channels -> 0..MAX_K]
        /\ known'[c] \in {known[c], batch[c]} /\ \A d \in Channels : d # c => known'[d] = known[d]
    BY <2>1, GpStored
  <2>4. shown' \in [Channels -> Versions \cup {0}] /\ waiting' \in [Channels -> BOOLEAN]
    BY <1>0, <2>1
  <2>5. Gp!TypeOK'
    BY <1>0, <2>1, <2>2, <2>3, <2>4, GpIndex, Zenon DEF Gp!TypeOK
  <2>6. GpOrder => GpOrder'
    <3>. SUFFICES ASSUME GpOrder PROVE GpOrder'
      OBVIOUS
    <3>1. ASSUME NEW d \in Channels PROVE known'[d] <= shown'[d] /\ known'[d] <= content'[d]
      <4>1. CASE d = c
        <5>1. /\ known[c] \in Nat /\ batch[c] \in Nat /\ content[c] \in Nat
              /\ known[c] <= batch[c] /\ batch[c] <= content[c] /\ known[c] <= content[c]
          BY <1>0, <2>2, GpBounds DEF GpOrder
        <5>2. shown'[c] = batch[c]
          BY <1>0, <2>1
        <5>. QED
          BY <2>1, <2>3, <4>1, <5>1, <5>2
      <4>2. CASE d # c
        <5>1. known'[d] = known[d] /\ shown'[d] = shown[d] /\ content'[d] = content[d]
          BY <1>0, <2>1, <2>3, <4>2
        <5>. QED
          BY <5>1 DEF GpOrder
      <4>. QED
        BY <4>1, <4>2
    <3>2. ASSUME NEW d \in pending' PROVE known'[d] <= batch'[d] /\ batch'[d] <= content'[d]
      <4>1. d \in pending /\ d \in Channels /\ d # c
        BY <1>0, <2>2
      <4>2. known'[d] = known[d] /\ batch'[d] = batch[d] /\ content'[d] = content[d]
        BY <2>1, <2>2, <2>3, <4>1
      <4>. QED
        BY <4>1, <4>2 DEF GpOrder
    <3>. QED
      BY <3>1, <3>2, Zenon DEF GpOrder
  <2>. QED
    BY <2>5, <2>6
<1>4. ASSUME NEW c \in Channels, Gp!Missing(c) \/ Gp!Lost(c)
      PROVE  Gp!TypeOK' /\ (GpOrder => GpOrder')
  <2>1. Gp!Sent(c) /\ content' = content /\ exists' = exists /\ shown' = shown
    BY <1>4, Zenon DEF Gp!Missing, Gp!Lost, Gp!emby
  <2>2. /\ phase' \in {"idle", "ping", "send"} /\ pending' = pending \ {c} /\ c \in pending
        /\ batch' \in [Channels -> Versions \cup {0}] /\ pending' \subseteq Channels
        /\ \A d \in Channels : d # c => batch'[d] = batch[d]
    BY <2>1, GpSent
  <2>3. \/ notFound' = [notFound EXCEPT ![c] = IF notFound[c] < MAX_K THEN notFound[c] + 1
                                                ELSE notFound[c]]
        \/ notFound' = notFound
    BY <1>4, Zenon DEF Gp!Missing, Gp!Lost, Gp!Stored
  <2>4. notFound' \in [Channels -> 0..MAX_K]
    BY <1>0, <2>3, GpBounds
  <2>5. known' = [known EXCEPT ![c] = 0] \/ known' = known
    BY <1>4, Zenon DEF Gp!Missing, Gp!Lost, Gp!Stored
  <2>6. /\ known' \in [Channels -> Versions \cup {0}]
        /\ \A d \in Channels : known'[d] \in {0, known[d]} /\ (d # c => known'[d] = known[d])
    BY <1>0, <2>5
  <2>7. waiting' \in [Channels -> BOOLEAN]
    <3>1. waiting' = [waiting EXCEPT ![c] = TRUE] \/ waiting' = waiting
      BY <1>4, Zenon DEF Gp!Missing, Gp!Lost
    <3>. QED
      BY <1>0, <3>1
  <2>8. indexed' \subseteq exists' /\ indexFresh' \in BOOLEAN
    <3>1. CASE Gp!Missing(c)
      BY <2>1, <3>1, GpIndex DEF Gp!Missing
    <3>2. CASE Gp!Lost(c)
      BY <1>0, <3>2 DEF Gp!Lost, Gp!emby
    <3>. QED
      BY <1>4, <3>1, <3>2
  <2>9. Gp!TypeOK'
    BY <1>0, <2>1, <2>2, <2>4, <2>6, <2>7, <2>8, Zenon DEF Gp!TypeOK
  <2>10. GpOrder => GpOrder'
    <3>. SUFFICES ASSUME GpOrder PROVE GpOrder'
      OBVIOUS
    <3>1. ASSUME NEW d \in Channels PROVE known'[d] <= shown'[d] /\ known'[d] <= content'[d]
      <4>1. known[d] <= shown[d] /\ known[d] <= content[d] /\ shown[d] \in Nat /\ content[d] \in Nat
        BY <1>0, GpBounds DEF GpOrder
      <4>. QED
        BY <2>1, <2>6, <4>1
    <3>2. ASSUME NEW d \in pending' PROVE known'[d] <= batch'[d] /\ batch'[d] <= content'[d]
      <4>1. d \in pending /\ d \in Channels /\ d # c
        BY <1>0, <2>2
      <4>2. known'[d] = known[d] /\ batch'[d] = batch[d] /\ content'[d] = content[d]
        BY <2>1, <2>2, <2>6, <4>1
      <4>. QED
        BY <4>1, <4>2 DEF GpOrder
    <3>. QED
      BY <3>1, <3>2, Zenon DEF GpOrder
  <2>. QED
    BY <2>9, <2>10
<1>5. ASSUME NEW c \in Channels, Gp!Retitle(c)
      PROVE  Gp!TypeOK' /\ (~REVERTS /\ GpOrder => GpOrder')
  <2>1. PICK v \in Versions \ {content[c]} :
          (REVERTS \/ v = content[c] + 1) /\ content' = [content EXCEPT ![c] = v]
    BY <1>5, Zenon DEF Gp!Retitle
  <2>2. UNCHANGED <<known, notFound, waiting, phase, pending, batch, exists, shown, indexed, indexFresh>>
    BY <1>5, Zenon DEF Gp!Retitle, Gp!emby
  <2>3. content' \in [Channels -> Versions]
    BY <1>0, <2>1
  <2>4. Gp!TypeOK'
    BY <1>0, <2>2, <2>3, Zenon DEF Gp!TypeOK
  <2>5. ASSUME ~REVERTS, GpOrder PROVE GpOrder'
    <3>0. v = content[c] + 1
      BY <2>1, <2>5, Zenon
    <3>1. \A d \in Channels : content[d] <= content'[d] /\ content[d] \in Nat /\ content'[d] \in Nat
      <4>1. \A d \in Channels : content[d] \in Nat /\ content'[d] = IF d = c THEN v ELSE content[d]
        BY <1>0, <2>1, GpBounds
      <4>. QED
        BY <3>0, <4>1
    <3>2. ASSUME NEW d \in Channels PROVE known'[d] <= shown'[d] /\ known'[d] <= content'[d]
      <4>1. known[d] \in Nat /\ known[d] <= content[d] /\ known[d] <= shown[d]
        BY <1>0, <2>5, GpBounds DEF GpOrder
      <4>. QED
        BY <2>2, <3>1, <4>1
    <3>3. ASSUME NEW d \in pending' PROVE known'[d] <= batch'[d] /\ batch'[d] <= content'[d]
      <4>1. d \in pending /\ d \in Channels
        BY <1>0, <2>2
      <4>2. known[d] <= batch[d] /\ batch[d] <= content[d] /\ batch[d] \in Nat
        BY <1>0, <2>5, <4>1, GpBounds DEF GpOrder
      <4>. QED
        BY <2>2, <3>1, <4>1, <4>2
    <3>. QED
      BY <3>2, <3>3, Zenon DEF GpOrder
  <2>. QED
    BY <2>4, <2>5
<1>6. ASSUME NEW c \in Channels, Gp!Appear(c) \/ Gp!Elapse(c)
      PROVE  Gp!TypeOK' /\ (GpOrder => GpOrder')
  <2>1. UNCHANGED <<content, known, notFound, phase, pending, batch, shown, indexed>>
    BY <1>6, Zenon DEF Gp!Appear, Gp!Elapse, Gp!emby
  <2>2. exists' = exists \/ exists' = exists \cup {c}
    BY <1>6, Zenon DEF Gp!Appear, Gp!Elapse, Gp!emby
  <2>3. waiting' = waiting \/ waiting' = [waiting EXCEPT ![c] = FALSE]
    BY <1>6, Zenon DEF Gp!Appear, Gp!Elapse
  <2>4. indexFresh' = indexFresh
    BY <1>6, Zenon DEF Gp!Appear, Gp!Elapse, Gp!emby
  <2>5. /\ exists' \subseteq Channels /\ indexed' \subseteq exists'
        /\ waiting' \in [Channels -> BOOLEAN] /\ indexFresh' \in BOOLEAN
    BY <1>0, <2>1, <2>2, <2>3, <2>4
  <2>6. Gp!TypeOK'
    BY <1>0, <2>1, <2>5, Zenon DEF Gp!TypeOK
  <2>. QED
    BY <2>1, <2>6, Zenon DEF GpOrder
<1>7. CASE Gp!Expire
  <2>1. UNCHANGED <<content, known, notFound, waiting, phase, pending, batch, exists, shown, indexed>>
        /\ indexFresh' = FALSE
    BY <1>7, Zenon DEF Gp!Expire
  <2>. QED
    BY <1>0, <2>1, Zenon DEF Gp!TypeOK, GpOrder
<1>. QED
  BY <1>1, <1>2, <1>3, <1>4, <1>5, <1>6, <1>7, Zenon DEF Gp!Next

LEMMA GpRests ==
  UNCHANGED pushVars => (Gp!TypeOK => Gp!TypeOK') /\ (GpOrder => GpOrder')
BY Zenon DEF Gp!TypeOK, GpOrder, pushVars

LEMMA GpShown == GpOrder => Gp!KnownWasShown
BY Zenon DEF GpOrder, Gp!KnownWasShown

-----------------------------------------------------------------------------
(* Tunnel: the helper that runs is the entry's, and the entry's runs.      *)

TunHolds == proc # None => helper[proc] = "runs"

TunInv == Tun!TypeOK /\ Tun!NoHelperStrays /\ TunHolds

LEMMA TunBounds == MAX_TIMERS \in Nat /\ MAX_FAULTS \in Nat /\ None \notin Procs
BY UpkeepAssumption

LEMMA TunInit == Tun!Init => TunInv
<1>. SUFFICES ASSUME Tun!Init PROVE TunInv
  OBVIOUS
<1>1. 0 \in 0..MAX_TIMERS /\ 0 \in 0..MAX_FAULTS
  BY TunBounds
<1>2. /\ helper \in [Procs -> {"none", "runs", "killed"}]
      /\ monitor \in [Procs -> {"none", "asks", "open", "shut", "sleeps"}]
  BY DEF Tun!Init
<1>3. Tun!TypeOK
  BY <1>1, <1>2, Zenon DEF Tun!Init, Tun!TypeOK
<1>4. Tun!NoHelperStrays /\ TunHolds
  BY DEF Tun!Init, Tun!NoHelperStrays, TunHolds
<1>. QED
  BY <1>3, <1>4 DEF TunInv

\* What a start makes of the entry, with the helpers that run before it.
LEMMA TunSpawned ==
  ASSUME TunInv, NEW p \in Procs,
         NEW others \in [Procs -> {"none", "runs", "killed"}],
         \A q \in Procs : others[q] # "runs", Tun!Spawned(p, others)
  PROVE  /\ proc' \in Procs /\ status' \in {"starting", "up", "down", "error"}
         /\ stopping' = FALSE /\ bridge' = TRUE /\ threw' = FALSE
         /\ helper' \in [Procs -> {"none", "runs", "killed"}]
         /\ monitor' \in [Procs -> {"none", "asks", "open", "shut", "sleeps"}]
         /\ \A q \in Procs : helper'[q] = "runs" <=> proc' = q
BY DEF Tun!Spawned, TunInv, Tun!TypeOK

LEMMA TunThrows ==
  ASSUME TunInv, NEW open \in BOOLEAN,
         NEW others \in [Procs -> {"none", "runs", "killed"}],
         \A q \in Procs : others[q] # "runs", Tun!Throws(others, open)
  PROVE  /\ proc' = None /\ status' \in {"starting", "up", "down", "error"}
         /\ stopping' = FALSE /\ bridge' \in BOOLEAN /\ threw' = TRUE
         /\ helper' \in [Procs -> {"none", "runs", "killed"}]
         /\ monitor' \in [Procs -> {"none", "asks", "open", "shut", "sleeps"}]
         /\ \A q \in Procs : helper'[q] # "runs"
BY DEF Tun!Throws, TunInv, Tun!TypeOK

\* What changes when the entry, its helpers and monitors do.
TunEntry ==
  /\ proc' \in Procs \cup {None} /\ status' \in {"starting", "up", "down", "error"}
  /\ stopping' \in BOOLEAN /\ bridge' \in BOOLEAN /\ threw' \in BOOLEAN
  /\ helper' \in [Procs -> {"none", "runs", "killed"}]
  /\ monitor' \in [Procs -> {"none", "asks", "open", "shut", "sleeps"}]
  /\ Tun!NoHelperStrays' /\ TunHolds'

LEMMA TunKilled ==
  TunInv => /\ Tun!Killed \in [Procs -> {"none", "runs", "killed"}]
            /\ \A q \in Procs : Tun!Killed[q] # "runs"
BY DEF TunInv, Tun!TypeOK, Tun!NoHelperStrays, Tun!Killed

LEMMA TunSpends == TunInv /\ Tun!Spends => faults' \in 0..MAX_FAULTS
BY TunBounds DEF TunInv, Tun!TypeOK, Tun!Spends

LEMMA TunStarts == TunInv /\ Tun!Starts => TunEntry /\ faults' \in 0..MAX_FAULTS
<1>. SUFFICES ASSUME TunInv, Tun!Starts PROVE TunEntry /\ faults' \in 0..MAX_FAULTS
  OBVIOUS
<1>1. CASE ~row \/ proc # None
  <2>1. UNCHANGED <<proc, status, stopping, bridge, helper, monitor, threw, faults>>
    BY <1>1, Zenon DEF Tun!Starts, Tun!entry
  <2>. QED
    BY <2>1 DEF TunInv, TunEntry, Tun!TypeOK, Tun!NoHelperStrays, TunHolds
<1>2. CASE ~(~row \/ proc # None)
  <2>1. /\ helper \in [Procs -> {"none", "runs", "killed"}] /\ bridge \in BOOLEAN
        /\ \A q \in Procs : helper[q] # "runs"
    BY <1>2, TunBounds DEF TunInv, Tun!TypeOK, Tun!NoHelperStrays
  <2>2. \/ UNCHANGED faults /\ \E p \in Procs : Tun!Spawned(p, helper)
        \/ Tun!Spends /\ Tun!Throws(helper, bridge)
    BY <1>2, Zenon DEF Tun!Starts
  <2>3. faults' \in 0..MAX_FAULTS
    BY <2>2, TunSpends DEF TunInv, Tun!TypeOK
  <2>4. ASSUME NEW p \in Procs, Tun!Spawned(p, helper) PROVE TunEntry
    BY <2>1, <2>4, TunSpawned DEF TunEntry, Tun!NoHelperStrays, TunHolds
  <2>5. CASE Tun!Throws(helper, bridge)
    <3>1. /\ proc' = None /\ status' \in {"starting", "up", "down", "error"}
          /\ stopping' = FALSE /\ bridge' \in BOOLEAN /\ threw' = TRUE
          /\ helper' \in [Procs -> {"none", "runs", "killed"}]
          /\ monitor' \in [Procs -> {"none", "asks", "open", "shut", "sleeps"}]
          /\ \A q \in Procs : helper'[q] # "runs"
      BY <2>1, <2>5, TunThrows, Zenon
    <3>2. Tun!NoHelperStrays' /\ TunHolds'
      BY <3>1 DEF Tun!NoHelperStrays, TunHolds
    <3>3. proc' \in Procs \cup {None} /\ stopping' \in BOOLEAN /\ threw' \in BOOLEAN
      BY <3>1
    <3>. QED
      BY <2>3, <3>1, <3>2, <3>3, Zenon DEF TunEntry
  <2>. QED
    BY <2>2, <2>3, <2>4, <2>5, Zenon
<1>. QED
  BY <1>1, <1>2

LEMMA TunStops == TunInv /\ Tun!Stops => TunEntry
<1>. SUFFICES ASSUME TunInv, Tun!Stops PROVE TunEntry
  OBVIOUS
<1>1. /\ proc' = None /\ status' = "down" /\ stopping' = TRUE /\ bridge' = FALSE
      /\ helper' = Tun!Killed /\ UNCHANGED <<monitor, threw>>
  BY DEF Tun!Stops
<1>. QED
  BY <1>1, TunKilled DEF TunInv, TunEntry, Tun!TypeOK, Tun!NoHelperStrays, TunHolds

LEMMA TunGone ==
  ASSUME TunInv, NEW p \in Procs, Tun!Gone(p), timers < MAX_TIMERS \/ helper[p] = "killed"
  PROVE  /\ TunEntry /\ listens' \in Procs \cup {None} /\ UNCHANGED <<row, autostart, booting>>
         /\ timers' \in 0..MAX_TIMERS
<1>. USE TunBounds
<1>1. /\ helper' = [helper EXCEPT ![p] = "none"] /\ listens' \in Procs \cup {None}
      /\ UNCHANGED <<monitor, row, autostart, booting, threw>> /\ Tun!Exited(p)
  BY DEF Tun!Gone, TunInv, Tun!TypeOK
<1>2. CASE proc # p
  <2>1. UNCHANGED <<proc, status, stopping, bridge, timers>>
    BY <1>1, <1>2, Zenon DEF Tun!Exited, Tun!entry
  <2>2. Tun!NoHelperStrays' /\ TunHolds'
    BY <1>1, <1>2, <2>1 DEF TunInv, Tun!TypeOK, Tun!NoHelperStrays, TunHolds
  <2>3. TunEntry
    BY <1>1, <2>1, <2>2 DEF TunInv, TunEntry, Tun!TypeOK
  <2>. QED
    BY <1>1, <2>1, <2>3 DEF TunInv, Tun!TypeOK
<1>3. CASE proc = p
  <2>1. /\ proc' = None /\ UNCHANGED <<stopping, bridge>>
        /\ status' = (IF stopping THEN "down" ELSE "error")
        /\ timers' = (IF stopping THEN timers ELSE timers + 1)
    BY <1>1, <1>3, Zenon DEF Tun!Exited
  <2>2. \A q \in Procs : helper'[q] # "runs"
    BY <1>1, <1>3 DEF TunInv, Tun!TypeOK, Tun!NoHelperStrays
  <2>3. Tun!NoHelperStrays' /\ TunHolds'
    BY <1>3, <2>1, <2>2 DEF TunInv, Tun!TypeOK, Tun!NoHelperStrays, TunHolds
  <2>4. helper' \in [Procs -> {"none", "runs", "killed"}] /\ status' \in {"down", "error"}
    BY <1>1, <2>1 DEF TunInv, Tun!TypeOK
  <2>5. TunEntry
    BY <1>1, <2>1, <2>3, <2>4 DEF TunInv, TunEntry, Tun!TypeOK
  <2>6. timers < MAX_TIMERS
    BY <1>3 DEF TunInv, TunHolds
  <2>7. timers' \in 0..MAX_TIMERS
    BY <2>1, <2>6 DEF TunInv, Tun!TypeOK
  <2>. QED
    BY <1>1, <2>5, <2>7
<1>. QED
  BY <1>2, <1>3

LEMMA TunStep == TunInv /\ Tun!Next => TunInv'
<1>. SUFFICES ASSUME TunInv, Tun!Next PROVE TunInv'
  OBVIOUS
<1>. USE TunBounds
<1>0. ASSUME TunEntry, row' \in BOOLEAN, autostart' \in BOOLEAN, booting' \in BOOLEAN, listens' \in Procs \cup {None},
             timers' \in 0..MAX_TIMERS, faults' \in 0..MAX_FAULTS
      PROVE  TunInv'
  BY <1>0 DEF TunInv, TunEntry, Tun!TypeOK
<1>a. /\ row \in BOOLEAN /\ autostart \in BOOLEAN /\ booting \in BOOLEAN /\ listens \in Procs \cup {None}
      /\ timers \in 0..MAX_TIMERS /\ faults \in 0..MAX_FAULTS
  BY DEF TunInv, Tun!TypeOK
<1>1. CASE Tun!Boot
  BY <1>0, <1>1, <1>a, TunStarts DEF Tun!Boot
<1>2. CASE Tun!Redial
  <2>1. TunEntry
    <3>1. ASSUME NEW p \in Procs, Tun!Spawned(p, Tun!Killed) PROVE TunEntry
      BY <3>1, TunKilled, TunSpawned DEF TunEntry, Tun!NoHelperStrays, TunHolds
    <3>2. CASE Tun!Throws(Tun!Killed, FALSE)
      BY <3>2, TunKilled, TunThrows DEF TunEntry, Tun!NoHelperStrays, TunHolds
    <3>. QED
      BY <1>2, <3>1, <3>2, Zenon DEF Tun!Redial
  <2>. QED
    BY <1>0, <1>2, <1>a, <2>1, TunSpends DEF Tun!Redial
<1>3. CASE Tun!Stop \/ Tun!Delete
  BY <1>0, <1>3, <1>a, TunStops DEF Tun!Stop, Tun!Delete
<1>4. CASE Tun!Refire
  <2>1. timers' \in 0..MAX_TIMERS /\ UNCHANGED <<row, autostart, booting, listens>>
    BY <1>4 DEF Tun!Refire, TunInv, Tun!TypeOK
  <2>2. CASE stopping
    <3>1. UNCHANGED <<proc, status, stopping, bridge, helper, monitor, threw, faults>>
      BY <1>4, <2>2, Zenon DEF Tun!Refire, Tun!entry
    <3>. QED
      BY <2>1, <3>1 DEF TunInv, TunHolds, Tun!TypeOK, Tun!NoHelperStrays
  <2>3. CASE ~stopping
    BY <1>0, <1>4, <1>a, <2>1, <2>3, TunStarts DEF Tun!Refire
  <2>. QED
    BY <2>2, <2>3
<1>5. ASSUME NEW p \in Procs, Tun!Ends(p) \/ Tun!Dies(p) PROVE TunInv'
  <2>1. Tun!Gone(p) /\ (timers < MAX_TIMERS \/ helper[p] = "killed") /\ faults' \in 0..MAX_FAULTS
    BY <1>5, <1>a, TunSpends DEF Tun!Ends, Tun!Dies
  <2>. QED
    BY <1>0, <1>a, <2>1, TunGone
<1>6. ASSUME NEW p \in Procs, Tun!Listen(p) PROVE TunInv'
  BY <1>6 DEF Tun!Listen, Tun!entry, Tun!world, TunInv, TunHolds, Tun!TypeOK, Tun!NoHelperStrays
<1>7. ASSUME NEW p \in Procs, Tun!Answer(p) \/ Tun!Heed(p) \/ Tun!Loop(p) PROVE TunInv'
  <2>1. /\ monitor' \in [Procs -> {"none", "asks", "open", "shut", "sleeps"}]
        /\ UNCHANGED <<proc, stopping, bridge, timers, helper, listens, row, autostart, booting,
                       threw, faults>>
    BY <1>7 DEF Tun!Answer, Tun!Heed, Tun!Loop, Tun!entry, Tun!world, TunInv, Tun!TypeOK
  <2>2. status' \in {"starting", "up", "down", "error"}
    BY <1>7 DEF Tun!Answer, Tun!Heed, Tun!Heeded, Tun!Loop, Tun!entry, TunInv, Tun!TypeOK
  <2>. QED
    BY <2>1, <2>2 DEF TunInv, TunHolds, Tun!TypeOK, Tun!NoHelperStrays
<1>. QED
  BY <1>1, <1>2, <1>3, <1>4, <1>5, <1>6, <1>7, Zenon DEF Tun!Next

LEMMA TunRests == TunInv /\ UNCHANGED tunnelVars => TunInv'
BY DEF TunInv, TunHolds, Tun!TypeOK, Tun!NoHelperStrays, tunnelVars

-----------------------------------------------------------------------------
(* The guide's data: what a feed of the running sync said of a slot is in   *)
(* its batch or its row, and without a sync nothing is read or unwritten.   *)

EpgQuiet == /\ reading = 0 => parsed = Epg!Empty /\ unread = Epg!Empty
            /\ reading # 0 => queue # << >>

EpgTold == reading # 0 => \A s \in Slots : said[s] # None /\ ~Epg!Ended(s) =>
             IF parsed[s] # None THEN parsed[s] = said[s] ELSE table[s] = said[s]

EpgInv == Epg!TypeOK /\ EpgQuiet /\ EpgTold /\ Epg!SnapshotIsTrue

EpgStands ==
  /\ \A s \in Slots : table[s] # None /\ ~Epg!Ended(s) => table'[s] # None
  /\ Len(queue') < Len(queue) =>
       \A s \in Slots : said[s] # None /\ ~Epg!Ended(s) => table'[s] = said[s]

LEMMA EpgBounds ==
  /\ MAX_EDITS \in Nat /\ BEHIND \in Nat /\ ATTEMPTS \in Nat /\ ATTEMPTS >= 1
  /\ Slots \subseteq Nat /\ 1 \in Feeds /\ Feeds \subseteq Nat /\ 0 \notin Feeds
  /\ 1 \in 1..MAX_EDITS + 1 /\ Epg!Empty \in Epg!Tables
  /\ \A s \in Slots : Epg!Empty[s] = None
<1>1. /\ MAX_EDITS \in Nat /\ BEHIND \in Nat /\ ATTEMPTS \in Nat \ {0}
      /\ Slots \subseteq Nat /\ 1 \in Feeds /\ Feeds \subseteq Nat \ {0}
  BY UpkeepAssumption
<1>. QED
  BY <1>1 DEF Epg!Empty, Epg!Tables

LEMMA EpgInit == Epg!Init => EpgInv
<1>. SUFFICES ASSUME Epg!Init PROVE EpgInv
  OBVIOUS
<1>. USE EpgBounds
<1>1. /\ feeds = [f \in Feeds |-> [s \in Slots |-> 1]] /\ table = Epg!Empty /\ hour = 0
      /\ queue = << >> /\ reading = 0 /\ attempt = 0 /\ unread = Epg!Empty /\ parsed = Epg!Empty
      /\ said = Epg!Empty /\ snap = None /\ cached = None /\ changes = 0
  BY Zenon DEF Epg!Init
<1>2. feeds \in [Feeds -> [Slots -> Epg!Programmes \cup {0}]]
  BY <1>1 DEF Epg!Programmes
<1>3. hour \in 0..MAX_EDITS /\ changes \in 0..MAX_EDITS /\ attempt \in 0..ATTEMPTS
      /\ queue \in Seq(Requests)
  BY <1>1
<1>4. Epg!TypeOK
  BY <1>1, <1>2, <1>3, Zenon DEF Epg!TypeOK, Epg!Shots
<1>. QED
  BY <1>1, <1>4, Zenon DEF EpgInv, EpgQuiet, EpgTold, Epg!SnapshotIsTrue

\* Rows over rows, and rows that lost the old ones.
LEMMA EpgOver ==
  ASSUME NEW new \in Epg!Tables, NEW old \in Epg!Tables
  PROVE  /\ Epg!Over(new, old) \in Epg!Tables
         /\ \A s \in Slots :
              Epg!Over(new, old)[s] = IF new[s] # None THEN new[s] ELSE old[s]
         /\ Epg!Pruned(old) \in Epg!Tables
         /\ \A s \in Slots : ~Epg!Ended(s) => Epg!Pruned(old)[s] = old[s]
BY DEF Epg!Over, Epg!Tables, Epg!Pruned

LEMMA EpgOpen ==
  ASSUME Epg!TypeOK, NEW f \in Feeds, NEW n \in 0..ATTEMPTS, Epg!Open(f, n)
  PROVE  /\ reading' = f /\ reading' # 0 /\ attempt' \in 0..ATTEMPTS /\ parsed' = Epg!Empty
         /\ reading' \in Feeds \cup {0} /\ unread' \in Epg!Tables
<1>1. /\ reading' = f /\ attempt' = n /\ parsed' = Epg!Empty
      /\ unread' = [s \in Slots |-> IF feeds[f][s] = 0 THEN None ELSE <<f, feeds[f][s]>>]
  BY Zenon DEF Epg!Open
<1>2. \A s \in Slots : feeds[f][s] \in Epg!Programmes \cup {0}
  BY DEF Epg!TypeOK
<1>3. \A s \in Slots : feeds[f][s] = 0 \/ <<f, feeds[f][s]>> \in Feeds \X Epg!Programmes
  BY <1>2
<1>4. unread' \in Epg!Tables
  BY <1>1, <1>3 DEF Epg!Tables
<1>. QED
  BY <1>1, <1>4, EpgBounds

EpgDone == EpgInv' /\ EpgStands

LEMMA EpgOnward ==
  ASSUME EpgInv, reading # 0, Epg!Onward
  PROVE  EpgDone
<1>0. /\ table \in Epg!Tables /\ parsed \in Epg!Tables /\ said \in Epg!Tables /\ hour \in 0..MAX_EDITS
      /\ queue \in Seq(Requests) /\ queue # << >> /\ reading \in Feeds \cup {0}
  BY DEF EpgInv, Epg!TypeOK, EpgQuiet
<1>1. /\ table' = Epg!Pruned(Epg!Flushed)
      /\ UNCHANGED <<said, feeds, hour, changes, cached>>
  BY Zenon DEF Epg!Onward, Epg!feeds
<1>2. /\ table' \in Epg!Tables
      /\ \A s \in Slots : ~Epg!Ended(s) =>
           table'[s] = IF parsed[s] # None THEN parsed[s] ELSE table[s]
  BY <1>0, <1>1, EpgOver DEF Epg!Flushed
<1>3. \A s \in Slots : said[s] # None /\ ~Epg!Ended(s) => table'[s] = said[s]
  BY <1>2 DEF EpgInv, EpgTold
<1>4. EpgStands
  BY <1>2, <1>3 DEF EpgStands
<1>5. CASE reading + 1 \in Feeds
  <2>1. Epg!Open(reading + 1, 1) /\ UNCHANGED <<queue, snap>>
    BY <1>5, Zenon DEF Epg!Onward
  <2>2. 1 \in 0..ATTEMPTS
    BY EpgBounds
  <2>3. /\ reading' # 0 /\ attempt' \in 0..ATTEMPTS /\ parsed' = Epg!Empty
        /\ reading' \in Feeds \cup {0} /\ unread' \in Epg!Tables
    BY <1>5, <2>1, <2>2, EpgOpen DEF EpgInv
  <2>4. Epg!TypeOK'
    BY <1>1, <1>2, <2>1, <2>3, EpgBounds, Zenon
       DEF EpgInv, Epg!TypeOK, Epg!Programmes, Epg!Tables, Epg!Shots
  <2>5. EpgQuiet'
    BY <1>0, <2>1, <2>3, Zenon DEF EpgQuiet
  <2>6. EpgTold'
    <3>. SUFFICES ASSUME NEW s \in Slots, said'[s] # None, ~Epg!Ended(s)'
                  PROVE  IF parsed'[s] # None THEN parsed'[s] = said'[s] ELSE table'[s] = said'[s]
      BY Zenon DEF EpgTold
    <3>1. said[s] # None /\ ~Epg!Ended(s)
      BY <1>1, Zenon DEF Epg!Ended
    <3>. QED
      BY <1>1, <1>3, <2>3, <3>1, EpgBounds
  <2>7. Epg!SnapshotIsTrue'
    BY <2>3, Zenon DEF Epg!SnapshotIsTrue
  <2>. QED
    BY <1>4, <2>4, <2>5, <2>6, <2>7, Zenon DEF EpgInv, EpgDone
<1>6. CASE reading + 1 \notin Feeds
  <2>1. /\ queue' = Tail(queue) /\ reading' = 0 /\ attempt' = 0 /\ parsed' = Epg!Empty
        /\ unread' = Epg!Empty /\ snap' = None
    BY <1>6, Zenon DEF Epg!Onward, Epg!Invalidated
  <2>2. queue' \in Seq(Requests) /\ attempt' \in 0..ATTEMPTS
    BY <1>0, <2>1, EpgBounds
  <2>3. Epg!TypeOK'
    BY <1>1, <1>2, <2>1, <2>2, EpgBounds, Zenon
       DEF EpgInv, Epg!TypeOK, Epg!Programmes, Epg!Tables, Epg!Shots
  <2>. QED
    BY <1>4, <2>1, <2>3, Zenon DEF EpgInv, EpgDone, EpgQuiet, EpgTold, Epg!SnapshotIsTrue
<1>. QED
  BY <1>5, <1>6

\* The reads of the guide.
LEMMA EpgReads ==
  ASSUME EpgInv, Epg!Get \/ Epg!Expire
  PROVE  EpgDone
<1>0. /\ table \in Epg!Tables /\ hour \in 0..MAX_EDITS /\ snap \in Epg!Shots /\ cached \in Epg!Shots
  BY DEF EpgInv, Epg!TypeOK
<1>1. UNCHANGED <<table, queue, reading, attempt, unread, parsed, said, feeds, hour, changes>>
  BY Zenon DEF Epg!Get, Epg!Expire, Epg!sync, Epg!feeds
<1>2. Epg!Shown \in Epg!Tables /\ \A s \in Slots : s > hour => Epg!Shown[s] = table[s]
  <2>1. \A s \in Slots : s > hour => ~(s <= hour)
    BY <1>0, EpgBounds
  <2>. QED
    BY <1>0, <2>1 DEF Epg!Shown, Epg!Tables
<1>3. Epg!Snapshot \in Epg!Shots
  <2>1. [rows |-> Epg!Shown, start |-> hour] \in Epg!Shots
    BY <1>0, <1>2 DEF Epg!Shots
  <2>. QED
    BY <1>0, <2>1, Zenon DEF Epg!Snapshot
<1>4. snap' \in Epg!Shots /\ cached' \in Epg!Shots
  <2>1. None \in Epg!Shots
    BY Zenon DEF Epg!Shots
  <2>2. snap' \in {Epg!Snapshot, None} /\ cached' \in {cached, Epg!Snapshot}
    BY Zenon DEF Epg!Get, Epg!Expire
  <2>. QED
    BY <1>0, <1>3, <2>1, <2>2
<1>5. Epg!TypeOK'
  BY <1>1, <1>4, Zenon DEF EpgInv, Epg!TypeOK, Epg!Programmes, Epg!Tables, Epg!Shots
<1>6. Epg!SnapshotIsTrue'
  <2>. SUFFICES ASSUME snap' # None, reading' = 0, NEW s \in Slots, s > hour'
                PROVE  snap'.rows[s] = table'[s]
    BY Zenon DEF Epg!SnapshotIsTrue
  <2>1. snap' = Epg!Snapshot /\ s > hour /\ reading = 0
    BY <1>1, Zenon DEF Epg!Get, Epg!Expire
  <2>2. CASE snap # None
    <3>1. snap' = snap
      BY <2>1, <2>2, Zenon DEF Epg!Snapshot
    <3>2. snap.rows[s] = table[s]
      BY <2>1, <2>2, Zenon DEF EpgInv, Epg!SnapshotIsTrue
    <3>. QED
      BY <1>1, <3>1, <3>2, Zenon
  <2>3. CASE snap = None
    <3>1. snap' = [rows |-> Epg!Shown, start |-> hour]
      BY <2>1, <2>3, Zenon DEF Epg!Snapshot
    <3>. QED
      BY <1>1, <1>2, <2>1, <3>1
  <2>. QED
    BY <2>2, <2>3
<1>7. EpgQuiet' /\ EpgTold'
  BY <1>1, Zenon DEF EpgInv, EpgQuiet, EpgTold, Epg!Ended, Epg!Empty
<1>8. EpgStands
  <2>1. queue \in Seq(Requests)
    BY DEF EpgInv, Epg!TypeOK
  <2>2. ~(Len(queue') < Len(queue))
    BY <1>1, <2>1
  <2>. QED
    BY <1>1, <2>2, Zenon DEF EpgStands
<1>. QED
  BY <1>5, <1>6, <1>7, <1>8, Zenon DEF EpgInv, EpgDone

\* What leaves the table and the queue as they are, or asks for one more sync, loses nothing.
LEMMA EpgNothingEnds ==
  ASSUME EpgInv, table' = table, queue' = queue \/ \E r \in Requests : queue' = Append(queue, r)
  PROVE  EpgStands /\ queue' \in Seq(Requests) /\ (queue # << >> => queue' # << >>)
<1>1. queue \in Seq(Requests)
  BY DEF EpgInv, Epg!TypeOK
<1>2. queue' \in Seq(Requests) /\ ~(Len(queue') < Len(queue)) /\ (queue # << >> => queue' # << >>)
  BY <1>1
<1>. QED
  BY <1>2, Zenon DEF EpgStands

\* The steps of a sync that does not end.
LEMMA EpgSyncing ==
  ASSUME EpgInv, \/ \E r \in Requests : Epg!Ask(r)
                 \/ \E s \in Slots : Epg!Parse(s)
                 \/ Epg!Begin \/ Epg!Write \/ Epg!Again
  PROVE  EpgDone
<1>0. /\ table \in Epg!Tables /\ parsed \in Epg!Tables /\ said \in Epg!Tables /\ unread \in Epg!Tables
      /\ hour \in 0..MAX_EDITS /\ queue \in Seq(Requests) /\ reading \in Feeds \cup {0}
      /\ attempt \in 0..ATTEMPTS
  BY DEF EpgInv, Epg!TypeOK
<1>1. ASSUME NEW r \in Requests, Epg!Ask(r) PROVE EpgDone
  <2>1. /\ queue' = Append(queue, r)
        /\ UNCHANGED <<table, reading, attempt, unread, parsed, said, feeds, hour, changes, snap, cached>>
    BY <1>1, Zenon DEF Epg!Ask, Epg!feeds, Epg!reads
  <2>2. EpgStands /\ queue' \in Seq(Requests) /\ (queue # << >> => queue' # << >>)
    BY <2>1, EpgNothingEnds
  <2>3. Epg!TypeOK'
    BY <2>1, <2>2, Zenon DEF EpgInv, Epg!TypeOK, Epg!Programmes, Epg!Tables, Epg!Shots
  <2>4. EpgQuiet'
    BY <2>1, <2>2, Zenon DEF EpgInv, EpgQuiet, Epg!Empty
  <2>. QED
    BY <2>1, <2>2, <2>3, <2>4, Zenon DEF EpgInv, EpgDone, EpgTold, Epg!Ended, Epg!SnapshotIsTrue
<1>2. ASSUME NEW s \in Slots, Epg!Parse(s) PROVE EpgDone
  <2>1. /\ unread[s] # None /\ unread' = [unread EXCEPT ![s] = None]
        /\ parsed' = [parsed EXCEPT ![s] = unread[s]] /\ said' = [said EXCEPT ![s] = unread[s]]
        /\ UNCHANGED <<table, queue, reading, attempt, feeds, hour, changes, snap, cached>>
    BY <1>2, Zenon DEF Epg!Parse, Epg!feeds, Epg!reads
  <2>2. reading # 0
    BY <2>1, EpgBounds, Zenon DEF EpgInv, EpgQuiet
  <2>3. unread' \in Epg!Tables /\ parsed' \in Epg!Tables /\ said' \in Epg!Tables
    BY <1>0, <2>1 DEF Epg!Tables
  <2>4. Epg!TypeOK'
    BY <2>1, <2>3, Zenon DEF EpgInv, Epg!TypeOK, Epg!Programmes, Epg!Tables, Epg!Shots
  <2>5. EpgQuiet'
    BY <2>1, <2>2, Zenon DEF EpgInv, EpgQuiet
  <2>6. EpgTold'
    <3>. SUFFICES ASSUME NEW o \in Slots, said'[o] # None, ~Epg!Ended(o)'
                  PROVE  IF parsed'[o] # None THEN parsed'[o] = said'[o] ELSE table'[o] = said'[o]
      BY Zenon DEF EpgTold
    <3>1. ~Epg!Ended(o)
      BY <2>1, Zenon DEF Epg!Ended
    <3>2. CASE o = s
      <4>1. parsed'[o] = unread[s] /\ said'[o] = unread[s]
        BY <1>0, <2>1, <3>2 DEF Epg!Tables
      <4>. QED
        BY <2>1, <4>1
    <3>3. CASE o # s
      <4>1. parsed'[o] = parsed[o] /\ said'[o] = said[o] /\ table'[o] = table[o]
        BY <1>0, <2>1, <3>3 DEF Epg!Tables
      <4>2. IF parsed[o] # None THEN parsed[o] = said[o] ELSE table[o] = said[o]
        BY <2>2, <3>1, <4>1, Zenon DEF EpgInv, EpgTold
      <4>. QED
        BY <4>1, <4>2
    <3>. QED
      BY <3>2, <3>3
  <2>7. Epg!SnapshotIsTrue'
    BY <2>1, <2>2, Zenon DEF Epg!SnapshotIsTrue
  <2>. QED
    BY <2>1, <2>4, <2>5, <2>6, <2>7, EpgNothingEnds, Zenon DEF EpgInv, EpgDone
<1>3. CASE Epg!Begin
  <2>1. /\ queue # << >> /\ Epg!Open(1, 1) /\ said' = Epg!Empty
        /\ UNCHANGED <<table, queue, feeds, hour, changes, snap, cached>>
    BY <1>3, Zenon DEF Epg!Begin, Epg!feeds, Epg!reads
  <2>2. 1 \in 0..ATTEMPTS
    BY EpgBounds
  <2>3. /\ reading' # 0 /\ attempt' \in 0..ATTEMPTS /\ parsed' = Epg!Empty
        /\ reading' \in Feeds \cup {0} /\ unread' \in Epg!Tables
    BY <2>1, <2>2, EpgOpen, EpgBounds DEF EpgInv
  <2>4. Epg!TypeOK'
    BY <2>1, <2>3, EpgBounds, Zenon
       DEF EpgInv, Epg!TypeOK, Epg!Programmes, Epg!Tables, Epg!Shots
  <2>5. EpgQuiet'
    BY <2>1, <2>3, Zenon DEF EpgQuiet
  <2>6. EpgTold'
    BY <2>1, EpgBounds, Zenon DEF EpgTold
  <2>7. Epg!SnapshotIsTrue'
    BY <2>3, Zenon DEF Epg!SnapshotIsTrue
  <2>. QED
    BY <2>1, <2>4, <2>5, <2>6, <2>7, EpgNothingEnds, Zenon DEF EpgInv, EpgDone
<1>4. CASE Epg!Write \/ Epg!Again
  <2>1. /\ reading # 0 /\ table' = Epg!Flushed /\ parsed' = Epg!Empty
        /\ UNCHANGED <<queue, said, feeds, hour, changes, snap, cached>>
    BY <1>4, Zenon DEF Epg!Write, Epg!Again, Epg!Open, Epg!feeds, Epg!reads, EpgInv, EpgQuiet
  <2>2. reading' # 0 /\ reading' \in Feeds \cup {0} /\ attempt' \in 0..ATTEMPTS /\ unread' \in Epg!Tables
    <3>1. CASE Epg!Write
      BY <1>0, <2>1, <3>1, Zenon DEF Epg!Write
    <3>2. CASE Epg!Again
      <4>1. Epg!Open(reading, IF attempt < ATTEMPTS THEN attempt + 1 ELSE attempt)
        BY <3>2, Zenon DEF Epg!Again
      <4>2. (IF attempt < ATTEMPTS THEN attempt + 1 ELSE attempt) \in 0..ATTEMPTS /\ reading \in Feeds
        BY <1>0, <2>1, EpgBounds
      <4>. QED
        BY <4>1, <4>2, EpgOpen DEF EpgInv
    <3>. QED
      BY <1>4, <3>1, <3>2
  <2>3. /\ table' \in Epg!Tables
        /\ \A s \in Slots : table'[s] = IF parsed[s] # None THEN parsed[s] ELSE table[s]
    BY <1>0, <2>1, EpgOver DEF Epg!Flushed
  <2>4. Epg!TypeOK'
    BY <2>1, <2>2, <2>3, EpgBounds, Zenon
       DEF EpgInv, Epg!TypeOK, Epg!Programmes, Epg!Tables, Epg!Shots
  <2>5. EpgQuiet'
    BY <2>1, <2>2, Zenon DEF EpgInv, EpgQuiet
  <2>6. \A s \in Slots : said[s] # None /\ ~Epg!Ended(s) => table'[s] = said[s]
    BY <2>1, <2>3 DEF EpgInv, EpgTold
  <2>7. EpgTold'
    <3>. SUFFICES ASSUME NEW s \in Slots, said'[s] # None, ~Epg!Ended(s)'
                  PROVE  IF parsed'[s] # None THEN parsed'[s] = said'[s] ELSE table'[s] = said'[s]
      BY Zenon DEF EpgTold
    <3>1. said[s] # None /\ ~Epg!Ended(s)
      BY <2>1, Zenon DEF Epg!Ended
    <3>. QED
      BY <2>1, <2>6, <3>1, EpgBounds
  <2>8. Epg!SnapshotIsTrue'
    BY <2>2, Zenon DEF Epg!SnapshotIsTrue
  <2>9. ~(Len(queue') < Len(queue))
    BY <1>0, <2>1
  <2>10. EpgStands
    BY <2>3, <2>9 DEF EpgStands
  <2>. QED
    BY <2>4, <2>5, <2>7, <2>8, <2>10, Zenon DEF EpgInv, EpgDone
<1>. QED
  BY <1>1, <1>2, <1>3, <1>4

\* The world goes on.
LEMMA EpgWorld ==
  ASSUME EpgInv, Epg!Pass \/ \E f \in Feeds : \E s \in Slots : Epg!Edit(f, s)
  PROVE  EpgDone
<1>0. /\ feeds \in [Feeds -> [Slots -> Epg!Programmes \cup {0}]]
      /\ hour \in 0..MAX_EDITS /\ changes \in 0..MAX_EDITS
  BY DEF EpgInv, Epg!TypeOK
<1>1. UNCHANGED <<table, queue, reading, attempt, unread, parsed, said, snap, cached>>
  BY Zenon DEF Epg!Pass, Epg!Edit, Epg!sync, Epg!reads
<1>2. /\ feeds' \in [Feeds -> [Slots -> Epg!Programmes \cup {0}]]
      /\ hour' \in 0..MAX_EDITS /\ changes' \in 0..MAX_EDITS /\ hour <= hour'
  <2>1. CASE Epg!Pass
    <3>1. hour < MAX_EDITS /\ hour' = hour + 1 /\ feeds' = feeds /\ changes' = changes
      BY <2>1, Zenon DEF Epg!Pass
    <3>. QED
      BY <1>0, <3>1, EpgBounds
  <2>2. ASSUME NEW f \in Feeds, NEW s \in Slots, Epg!Edit(f, s)
        PROVE  /\ feeds' \in [Feeds -> [Slots -> Epg!Programmes \cup {0}]]
               /\ hour' = hour /\ changes' \in 0..MAX_EDITS
    <3>1. PICK t \in {0, changes + 2} \ {feeds[f][s]} : feeds' = [feeds EXCEPT ![f][s] = t]
      BY <2>2, Zenon DEF Epg!Edit
    <3>2. changes < MAX_EDITS /\ changes' = changes + 1 /\ hour' = hour
      BY <2>2, Zenon DEF Epg!Edit
    <3>3. t \in Epg!Programmes \cup {0} /\ changes' \in 0..MAX_EDITS
      BY <1>0, <3>1, <3>2, EpgBounds DEF Epg!Programmes
    <3>. QED
      BY <1>0, <3>1, <3>2, <3>3
  <2>. QED
    BY <1>0, <2>1, <2>2
<1>3. \A s \in Slots : (~Epg!Ended(s)' => ~Epg!Ended(s)) /\ (s > hour' => s > hour)
  <2>1. \A s \in Slots : s \in Nat
    BY EpgBounds
  <2>. QED
    BY <1>0, <1>2, <2>1, EpgBounds DEF Epg!Ended
<1>4. Epg!TypeOK'
  BY <1>1, <1>2, Zenon DEF EpgInv, Epg!TypeOK, Epg!Tables, Epg!Shots, Epg!Programmes
<1>5. EpgTold'
  BY <1>1, <1>3, Zenon DEF EpgInv, EpgTold
<1>6. Epg!SnapshotIsTrue'
  BY <1>1, <1>3, Zenon DEF EpgInv, Epg!SnapshotIsTrue
<1>7. EpgQuiet'
  BY <1>1, Zenon DEF EpgInv, EpgQuiet, Epg!Empty
<1>. QED
  BY <1>1, <1>4, <1>5, <1>6, <1>7, EpgNothingEnds, Zenon DEF EpgInv, EpgDone

LEMMA EpgStep == EpgInv /\ Epg!Next => EpgInv' /\ EpgStands
<1>. SUFFICES ASSUME EpgInv, Epg!Next PROVE EpgDone
  BY DEF EpgDone
<1>1. CASE Epg!Done \/ Epg!GiveUp
  <2>1. reading # 0 /\ Epg!Onward
    BY <1>1, Zenon DEF Epg!Done, Epg!GiveUp
  <2>. QED
    BY <2>1, EpgOnward
<1>2. CASE Epg!Get \/ Epg!Expire
  BY <1>2, EpgReads
<1>3. CASE \/ \E r \in Requests : Epg!Ask(r)
           \/ \E s \in Slots : Epg!Parse(s)
           \/ Epg!Begin \/ Epg!Write \/ Epg!Again
  BY <1>3, EpgSyncing
<1>4. CASE Epg!Pass \/ \E f \in Feeds : \E s \in Slots : Epg!Edit(f, s)
  BY <1>4, EpgWorld
<1>. QED
  BY <1>1, <1>2, <1>3, <1>4, Zenon DEF Epg!Next

LEMMA EpgRests == EpgInv /\ UNCHANGED guideVars => EpgInv'
<1>. SUFFICES ASSUME EpgInv, UNCHANGED guideVars PROVE EpgInv'
  OBVIOUS
<1>1. UNCHANGED <<feeds, table, hour, queue, reading, attempt, unread, parsed, said, snap, cached,
                  changes>>
  BY DEF guideVars
<1>2. Epg!TypeOK'
  BY <1>1, Zenon DEF EpgInv, Epg!TypeOK, Epg!Tables, Epg!Shots, Epg!Programmes
<1>3. EpgQuiet' /\ EpgTold' /\ Epg!SnapshotIsTrue'
  BY <1>1, Zenon DEF EpgInv, EpgQuiet, EpgTold, Epg!SnapshotIsTrue, Epg!Ended, Epg!Empty
<1>. QED
  BY <1>2, <1>3, Zenon DEF EpgInv

-----------------------------------------------------------------------------
(* Favorites: a pass holds what stayed starred of the users that answered. *)

FavHears ==
  /\ \A s \in Hosts : \A x \in kept[s] : x \in starred[s] /\ x[2] \in lineup
  /\ \A p \in Passes : server[p] = 0 => asked[p] = 0
  /\ \A p \in Passes : server[p] # 0 =>
       \A x \in kept[server[p]] : x[1] <= asked[p] => x \in got[p]

FavInv == Fav!TypeOK /\ FavHears

LEMMA FavBounds ==
  /\ MAX_EDITS \in Nat /\ 1 \in Hosts /\ Hosts \subseteq Nat \ {0}
  /\ \A u \in Users : u \in Nat \ {0}
<1>1. PICK top \in Nat : Users = 1..top
  BY Counted
<1>. QED
  BY <1>1, UpkeepAssumption

LEMMA FavLastUser ==
  ASSUME NEW n \in Users \cup {0}, n + 1 \notin Users
  PROVE  \A u \in Users : u <= n
<1>1. PICK top \in Nat : Users = 1..top
  BY Counted
<1>. QED
  BY <1>1, UpkeepAssumption

LEMMA FavInit == Fav!Init => FavInv
<1>. SUFFICES ASSUME Fav!Init PROVE FavInv
  OBVIOUS
<1>1. \A s \in Hosts : starred[s] \subseteq Fav!Pairs
  BY DEF Fav!Init
<1>2. \A x \in Fav!Pairs : x[2] \in Channels
  BY DEF Fav!Pairs
<1>3. starred \in [Hosts -> SUBSET Fav!Pairs]
  BY <1>1 DEF Fav!Init
<1>. QED
  BY <1>1, <1>2, <1>3, FavBounds DEF Fav!Init, FavInv, FavHears, Fav!TypeOK

LEMMA FavStep ==
  FavInv /\ Fav!Next => FavInv' /\ \A s \in Hosts : rows[s] \cap kept[s] \subseteq rows'[s]
<1>. DEFINE Goal == FavInv' /\ \A s \in Hosts : rows[s] \cap kept[s] \subseteq rows'[s]
<1>. SUFFICES ASSUME FavInv, Fav!Next PROVE Goal
  OBVIOUS
<1>. USE FavBounds
<1>0. UNCHANGED rows => \A s \in Hosts : rows[s] \cap kept[s] \subseteq rows'[s]
  OBVIOUS
<1>a. \A x \in Fav!Pairs : x[1] \in Users /\ x[2] \in Channels
  BY DEF Fav!Pairs
<1>b. \A s \in Hosts : \A x \in kept[s] : x \in Fav!Pairs
  BY DEF FavInv, Fav!TypeOK
<1>c. \A s \in Hosts : \A x \in kept[s] : x[1] \in Nat \ {0} /\ x[1] \in Users
  BY <1>a, <1>b
<1>d. \A s \in Hosts : \A x \in kept[s] : ~(x[1] <= 0)
  <2>. SUFFICES ASSUME NEW s \in Hosts, NEW x \in kept[s] PROVE ~(x[1] <= 0)
    OBVIOUS
  <2>1. x[1] \in Nat \ {0}
    BY <1>c, Zenon
  <2>. QED
    BY <2>1
<1>1. CASE Fav!Change
  <2>1. UNCHANGED <<rows, server, asked, got>> /\ edits' \in 0..MAX_EDITS
    BY <1>1 DEF Fav!Change, FavInv, Fav!TypeOK
  <2>2. ASSUME NEW s \in Hosts, Fav!Break(s) PROVE FavInv'
    <3>1. broken' \subseteq Hosts /\ UNCHANGED <<lineup, starred, kept>>
      BY <2>2 DEF Fav!Break, FavInv, Fav!TypeOK
    <3>. QED
      BY <2>1, <3>1 DEF FavInv, FavHears, Fav!TypeOK
  <2>3. ASSUME NEW s \in Hosts, NEW x \in Fav!Pairs, Fav!Star(s, x) PROVE FavInv'
    <3>1. /\ starred' \in [Hosts -> SUBSET Fav!Pairs] /\ kept' \in [Hosts -> SUBSET Fav!Pairs]
          /\ UNCHANGED <<lineup, broken>>
          /\ \A h \in Hosts : \A y \in kept'[h] : y \in kept[h] /\ y \in starred'[h]
      BY <2>3 DEF Fav!Star, FavInv, FavHears, Fav!TypeOK
    <3>. QED
      BY <2>1, <3>1 DEF FavInv, FavHears, Fav!TypeOK
  <2>4. ASSUME NEW c \in Channels, Fav!List(c) PROVE FavInv'
    <3>1. /\ lineup' \subseteq Channels /\ kept' \in [Hosts -> SUBSET Fav!Pairs]
          /\ UNCHANGED <<starred, broken>>
          /\ \A h \in Hosts : \A y \in kept'[h] : y \in kept[h] /\ y[2] # c
      BY <2>4 DEF Fav!List, FavInv, Fav!TypeOK
    <3>2. \A h \in Hosts : \A y \in kept'[h] : y[2] \in lineup'
      BY <2>4, <3>1 DEF Fav!List, FavInv, FavHears, Fav!TypeOK
    <3>. QED
      BY <2>1, <3>1, <3>2 DEF FavInv, FavHears, Fav!TypeOK
  <2>5. FavInv'
    BY <1>1, <2>2, <2>3, <2>4, Zenon DEF Fav!Change
  <2>. QED
    BY <1>0, <2>1, <2>5
<1>2. ASSUME NEW p \in Passes, Fav!Tick(p) PROVE Goal
  <2>1. \A x \in kept[1] : ~(x[1] <= 0)
    BY <1>d
  <2>. QED
    BY <1>0, <1>2, <2>1 DEF Fav!Tick, Fav!world, FavInv, FavHears, Fav!TypeOK
<1>3. ASSUME NEW p \in Passes, Fav!Answer(p) PROVE Goal
  <2>. DEFINE u == asked[p] + 1
  <2>1. /\ server[p] \in Hosts /\ u \in Users
        /\ asked' = [asked EXCEPT ![p] = u]
        /\ got' = [got EXCEPT ![p] = got[p] \cup Fav!Mapped(server[p], u)]
        /\ UNCHANGED <<rows, server, lineup, starred, broken, kept, edits>>
    BY <1>3 DEF Fav!Answer, Fav!world, FavInv, Fav!TypeOK
  <2>2. Fav!Mapped(server[p], u) \subseteq Fav!Pairs
    BY <2>1 DEF Fav!Mapped, FavInv, Fav!TypeOK
  <2>3. ASSUME NEW x \in kept[server[p]], x[1] <= u
        PROVE  x \in got[p] \cup Fav!Mapped(server[p], u)
    <3>a. x[1] \in Nat
      BY <1>c, <2>1, <2>3
    <3>b. asked[p] \in {0} \cup Users
      BY DEF FavInv, Fav!TypeOK
    <3>1. asked[p] \in Nat /\ x[1] \in Nat
      BY <3>a, <3>b, FavBounds
    <3>2. CASE x[1] = u
      BY <2>1, <3>2 DEF Fav!Mapped, FavInv, FavHears
    <3>3. CASE x[1] # u
      <4>1. x[1] <= asked[p]
        BY <2>3, <3>1, <3>3
      <4>. QED
        BY <2>1, <4>1 DEF FavInv, FavHears
    <3>. QED
      BY <3>2, <3>3
  <2>. HIDE DEF u
  <2>. QED
    BY <1>0, <2>1, <2>2, <2>3 DEF FavInv, FavHears, Fav!TypeOK
<1>4. ASSUME NEW p \in Passes, Fav!Onward(p), Fav!Replace(p) \/ Fav!Throw(p) PROVE FavInv'
  <2>1. server[p] # 0 /\ server[p] \in Hosts /\ UNCHANGED <<lineup, starred, broken, kept, edits>>
    BY <1>4 DEF Fav!Replace, Fav!Throw, Fav!world, FavInv, Fav!TypeOK
  <2>2. rows' \in [Hosts -> SUBSET Fav!Pairs]
    BY <1>4, <2>1 DEF Fav!Replace, Fav!Throw, Fav!Replaced, Fav!Thrown, FavInv, Fav!TypeOK
  <2>3. /\ server' \in [Passes -> Hosts \cup {0}] /\ asked' = [asked EXCEPT ![p] = 0]
        /\ got' = [got EXCEPT ![p] = {}]
        /\ \A q \in Passes \ {p} : server'[q] = server[q]
    BY <1>4 DEF Fav!Onward, FavInv, Fav!TypeOK
  <2>4. \A s \in Hosts : \A x \in kept[s] : ~(x[1] <= 0)
    BY <1>d, Zenon
  <2>5. asked' \in [Passes -> {0} \cup Users] /\ got' \in [Passes -> SUBSET Fav!Pairs]
    BY <2>3 DEF FavInv, Fav!TypeOK
  <2>6. Fav!TypeOK'
    BY <2>1, <2>2, <2>3, <2>5 DEF FavInv, Fav!TypeOK
  <2>7. ASSUME NEW q \in Passes
        PROVE  /\ server'[q] = 0 => asked'[q] = 0
               /\ server'[q] # 0 => \A x \in kept[server'[q]] : x[1] <= asked'[q] => x \in got'[q]
    <3>1. CASE q = p
      <4>1. asked'[q] = 0 /\ server'[q] \in Hosts \cup {0}
        BY <2>3, <3>1 DEF FavInv, Fav!TypeOK
      <4>. QED
        BY <2>4, <4>1
    <3>2. CASE q # p
      <4>1. server'[q] = server[q] /\ asked'[q] = asked[q] /\ got'[q] = got[q]
        BY <2>3, <3>2 DEF FavInv, Fav!TypeOK
      <4>. QED
        BY <4>1 DEF FavInv, FavHears
    <3>. QED
      BY <3>1, <3>2
  <2>8. FavHears'
    BY <2>1, <2>7 DEF FavInv, FavHears
  <2>. QED
    BY <2>6, <2>8 DEF FavInv
<1>5. ASSUME NEW p \in Passes, Fav!Replace(p) PROVE Goal
  <2>1. /\ server[p] \in Hosts /\ rows' = [rows EXCEPT ![server[p]] = got[p]]
        /\ asked[p] + 1 \notin Users
    BY <1>5 DEF Fav!Replace, Fav!Replaced, FavInv, Fav!TypeOK
  <2>2. \A x \in kept[server[p]] : x[1] <= asked[p]
    BY <1>c, <2>1, FavLastUser DEF FavInv, Fav!TypeOK
  <2>3. kept[server[p]] \subseteq got[p]
    BY <2>1, <2>2 DEF FavInv, FavHears
  <2>4. \A s \in Hosts : rows[s] \cap kept[s] \subseteq rows'[s]
    BY <2>1, <2>3 DEF FavInv, Fav!TypeOK
  <2>. QED
    BY <1>4, <1>5, <2>4 DEF Fav!Replace
<1>6. ASSUME NEW p \in Passes, Fav!Throw(p) PROVE Goal
  BY <1>0, <1>4, <1>6 DEF Fav!Throw, Fav!Thrown
<1>. HIDE DEF Goal
<1>. QED
  BY <1>1, <1>2, <1>3, <1>5, <1>6, Zenon DEF Fav!Next

LEMMA FavRests == FavInv /\ UNCHANGED favoriteVars => FavInv'
BY DEF FavInv, FavHears, Fav!TypeOK, favoriteVars

-----------------------------------------------------------------------------
(* Liveness: marks and answers are what a login has been, and a line that   *)
(* the media server does not show has a push ahead of it.                   *)

LivHeard ==
  /\ \A l \in Logins :
       /\ (air[l] # Off => TRUE \in was[l]) /\ (air[l] = Off => FALSE \in was[l])
       /\ (live[l] => TRUE \in was[l]) /\ (~live[l] => FALSE \in was[l])
  /\ \A p \in Polls : \A l \in Logins : answers[p][l] # Silent =>
       /\ (answers[p][l] # Off => TRUE \in was[l]) /\ (answers[p][l] = Off => FALSE \in was[l])

LivPushes ==
  /\ customNow = line \/ pushTimer \/ push # None \/ missed
  /\ push # None => customNow = push \/ pushTimer \/ missed

LivInv == Liv!TypeOK /\ LivHeard /\ LivPushes

LEMMA LivBounds ==
  /\ MAX_EDITS \in Nat /\ 1 \in Logins /\ Broadcasts # {}
  /\ Off # Silent /\ None # Off
  /\ \A t \in Liv!States : t # Silent /\ t # None
BY UpkeepAssumption DEF Liv!States

LEMMA LivMarks == LivInv => Liv!TypeOK /\ Liv!MarksAreHeard
<1>. SUFFICES ASSUME LivInv PROVE Liv!TypeOK /\ Liv!MarksAreHeard
  OBVIOUS
<1>1. ASSUME NEW l \in Logins PROVE live[l] \in was[l]
  <2>1. live[l] \in BOOLEAN
    BY DEF LivInv, Liv!TypeOK
  <2>. QED
    BY <2>1, Zenon DEF LivInv, LivHeard
<1>. QED
  BY <1>1, Zenon DEF LivInv, LivPushes, Liv!MarksAreHeard

LEMMA LivInit == Liv!Init => LivInv
<1>. SUFFICES ASSUME Liv!Init PROVE LivInv
  OBVIOUS
<1>. USE LivBounds
<1>1. (CHOOSE t \in Broadcasts : TRUE) \in Broadcasts
  OBVIOUS
<1>2. /\ air \in [Logins -> Liv!States]
      /\ live = [l \in Logins |-> air[l] # Off] /\ was = [l \in Logins |-> {live[l]}]
      /\ customNow = Off /\ login = [p \in Polls |-> 0] /\ found = [p \in Polls |-> Liv!Unread]
      /\ answers = [p \in Polls |-> Liv!Unasked] /\ pushTimer = FALSE /\ push = None /\ line = Off
      /\ missed = FALSE /\ airings = 0
  BY <1>1 DEF Liv!Init, Liv!States
<1>3. live \in [Logins -> BOOLEAN] /\ \A l \in Logins : live[l] = (air[l] # Off)
  BY <1>2
<1>4. was \in [Logins -> SUBSET BOOLEAN] /\ \A l \in Logins : was[l] = {live[l]}
  BY <1>2, <1>3
<1>5. /\ found \in [Polls -> [Logins -> BOOLEAN]]
      /\ answers \in [Polls -> [Logins -> Liv!States \cup {Silent}]]
      /\ \A p \in Polls : \A l \in Logins : answers[p][l] = Silent
  BY <1>2 DEF Liv!Unread, Liv!Unasked
<1>6. LivHeard
  <2>1. ASSUME NEW l \in Logins
        PROVE  /\ (air[l] # Off => TRUE \in was[l]) /\ (air[l] = Off => FALSE \in was[l])
               /\ (live[l] => TRUE \in was[l]) /\ (~live[l] => FALSE \in was[l])
    BY <1>3, <1>4, Zenon
  <2>. QED
    BY <1>5, <2>1, Zenon DEF LivHeard
<1>7. LivPushes
  BY <1>2, Zenon DEF LivPushes
<1>8. login \in [Polls -> Logins \cup {0}] /\ airings \in 0..MAX_EDITS /\ Off \in Liv!States
  BY <1>2 DEF Liv!States
<1>9. Liv!TypeOK
  BY <1>2, <1>3, <1>4, <1>5, <1>8, Zenon DEF Liv!TypeOK
<1>. QED
  BY <1>6, <1>7, <1>9, Zenon DEF LivInv

\* What a poll was told of a login in a call that ended.
LEMMA LivAnswer ==
  ASSUME LivInv, NEW l \in Logins, NEW a, a = air[l] \/ a = Silent
  PROVE  /\ a \in Liv!States \cup {Silent}
         /\ a # Silent => (a # Off => TRUE \in was[l]) /\ (a = Off => FALSE \in was[l])
<1>1. air[l] \in Liv!States
  BY DEF LivInv, Liv!TypeOK
<1>2. CASE a = air[l]
  BY <1>1, <1>2, Zenon DEF LivInv, LivHeard
<1>3. CASE a = Silent
  BY <1>3, Zenon
<1>. QED
  BY <1>2, <1>3, Zenon

\* The greatest of some logins.
LEMMA LivHighest ==
  ASSUME NEW K \in SUBSET Logins, K # {}
  PROVE  \E l \in K : \A k \in K : k <= l
<1>1. PICK top \in Nat : Logins = 1..top
  BY Counted
<1>2. K \subseteq 0..top
  BY <1>1
<1>. QED
  BY <1>2, GreatestOf

LEMMA LivSettles ==
  ASSUME LivInv, NEW p \in Polls, NEW ok \in BOOLEAN, Liv!Settle(p, ok)
  PROVE  LivInv'
<1>. USE LivBounds
<1>. DEFINE w == IF ok THEN air[login[p]] ELSE Silent
            a == Liv!Answers(p, w)
<1>1. /\ login[p] \in Logins /\ live' = Liv!Marked(p, a) /\ customNow' = Liv!Line(a)
      /\ pushTimer' = (pushTimer \/ Liv!Changed(p, a))
      /\ login' = [login EXCEPT ![p] = 0] /\ found' = [found EXCEPT ![p] = Liv!Unread]
      /\ answers' = [answers EXCEPT ![p] = Liv!Unasked]
      /\ UNCHANGED <<push, line, missed, air, was, airings>>
  <2>1. /\ login[p] # 0 /\ live' = Liv!Marked(p, a) /\ customNow' = Liv!Line(a)
        /\ pushTimer' = (pushTimer \/ Liv!Changed(p, a))
        /\ login' = [login EXCEPT ![p] = 0] /\ found' = [found EXCEPT ![p] = Liv!Unread]
        /\ answers' = [answers EXCEPT ![p] = Liv!Unasked]
        /\ UNCHANGED <<push, line, missed, air, was, airings>>
    BY Zenon DEF Liv!Settle, Liv!Unanswered, Liv!world
  <2>2. login[p] \in Logins \cup {0}
    BY DEF LivInv, Liv!TypeOK
  <2>. QED
    BY <2>1, <2>2, Zenon
<1>2. /\ w \in Liv!States \cup {Silent}
      /\ w # Silent => (w # Off => TRUE \in was[login[p]]) /\ (w = Off => FALSE \in was[login[p]])
  <2>1. w = air[login[p]] \/ w = Silent
    BY Zenon
  <2>. HIDE DEF w
  <2>. QED
    BY <1>1, <2>1, LivAnswer
<1>. HIDE DEF w
<1>3. a = [answers[p] EXCEPT ![login[p]] = w]
  BY DEF Liv!Answers
<1>4. a \in [Logins -> Liv!States \cup {Silent}]
  BY <1>1, <1>2, <1>3 DEF LivInv, Liv!TypeOK
<1>5. ASSUME NEW l \in Logins, a[l] # Silent
      PROVE  (a[l] # Off => TRUE \in was[l]) /\ (a[l] = Off => FALSE \in was[l])
  <2>1. CASE l = login[p]
    <3>1. a[l] = w
      BY <1>1, <1>3, <2>1 DEF LivInv, Liv!TypeOK
    <3>. QED
      BY <1>2, <1>5, <2>1, <3>1, Zenon
  <2>2. CASE l # login[p]
    <3>1. a[l] = answers[p][l]
      BY <1>1, <1>3, <2>2 DEF LivInv, Liv!TypeOK
    <3>. QED
      BY <1>5, <3>1, Zenon DEF LivInv, LivHeard
  <2>. QED
    BY <2>1, <2>2
<1>. HIDE DEF a
<1>6. ASSUME NEW l \in Logins
      PROVE  /\ live'[l] \in BOOLEAN
             /\ (live'[l] => TRUE \in was[l]) /\ (~live'[l] => FALSE \in was[l])
  <2>1. live'[l] = IF l \in Liv!Known(a) /\ found[p][l] # (a[l] # Off)
                     THEN a[l] # Off ELSE live[l]
    BY <1>1, Zenon DEF Liv!Marked
  <2>2. l \in Liv!Known(a) => a[l] # Silent
    BY DEF Liv!Known
  <2>3. live[l] \in BOOLEAN
    BY DEF LivInv, Liv!TypeOK
  <2>4. CASE l \in Liv!Known(a) /\ found[p][l] # (a[l] # Off)
    <3>1. live'[l] = (a[l] # Off) /\ a[l] # Silent
      BY <2>1, <2>2, <2>4, Zenon
    <3>. QED
      BY <1>5, <3>1, Zenon
  <2>5. CASE ~(l \in Liv!Known(a) /\ found[p][l] # (a[l] # Off))
    <3>1. live'[l] = live[l]
      BY <2>1, <2>5, Zenon
    <3>. QED
      BY <2>3, <3>1, Zenon DEF LivInv, LivHeard
  <2>. QED
    BY <2>4, <2>5, Zenon
<1>7. live' \in [Logins -> BOOLEAN]
  <2>1. live' = [l \in Logins |-> IF l \in Liv!Known(a) /\ found[p][l] # (a[l] # Off)
                                     THEN a[l] # Off ELSE live[l]]
    BY <1>1, Zenon DEF Liv!Marked
  <2>. QED
    BY <1>6, <2>1, Zenon
<1>8. customNow' \in Liv!States
  <2>1. CASE Liv!Known(a) = {}
    BY <1>1, <2>1 DEF Liv!Line, LivInv, Liv!TypeOK
  <2>2. CASE Liv!Known(a) # {}
    <3>1. Liv!Known(a) \subseteq Logins /\ \A l \in Liv!Known(a) : a[l] \in Liv!States
      BY <1>4 DEF Liv!Known
    <3>2. \E l \in Liv!Known(a) : \A k \in Liv!Known(a) : k <= l
      BY <1>4, <2>2, <3>1, LivHighest
    <3>3. (CHOOSE l \in Liv!Known(a) : \A k \in Liv!Known(a) : k <= l) \in Liv!Known(a)
      BY <3>2, Zenon
    <3>. QED
      BY <1>1, <2>2, <3>1, <3>3, Zenon DEF Liv!Line
  <2>. QED
    BY <2>1, <2>2
<1>9. pushTimer' \in BOOLEAN /\ (customNow' # customNow => pushTimer') /\ (pushTimer => pushTimer')
  <2>1. Liv!Changed(p, a) \in BOOLEAN
    BY Zenon DEF Liv!Changed
  <2>2. customNow' # customNow => Liv!Changed(p, a)
    BY <1>1, Zenon DEF Liv!Changed
  <2>3. pushTimer \in BOOLEAN
    BY DEF LivInv, Liv!TypeOK
  <2>. QED
    BY <1>1, <2>1, <2>2, <2>3, Zenon
<1>10. LivPushes'
  BY <1>1, <1>9, Zenon DEF LivInv, LivPushes
<1>11. /\ login' \in [Polls -> Logins \cup {0}]
       /\ found' \in [Polls -> [Logins -> BOOLEAN]]
       /\ answers' \in [Polls -> [Logins -> Liv!States \cup {Silent}]]
  BY <1>1 DEF LivInv, Liv!TypeOK, Liv!Unread, Liv!Unasked
<1>12. \A q \in Polls : \A l \in Logins : answers'[q][l] \in {answers[q][l], Silent}
  BY <1>1 DEF LivInv, Liv!TypeOK, Liv!Unasked
<1>13. LivHeard'
  BY <1>1, <1>6, <1>12, Zenon DEF LivInv, LivHeard
<1>14. Liv!TypeOK'
  BY <1>1, <1>7, <1>8, <1>9, <1>11, Zenon DEF LivInv, Liv!TypeOK, Liv!States
<1>. QED
  BY <1>10, <1>13, <1>14, Zenon DEF LivInv

LEMMA LivStep == LivInv /\ Liv!Next => LivInv'
<1>. SUFFICES ASSUME LivInv, Liv!Next PROVE LivInv'
  OBVIOUS
<1>. USE LivBounds
<1>1. ASSUME NEW p \in Polls, Liv!Tick(p) PROVE LivInv'
  <2>1. /\ login' \in [Polls -> Logins \cup {0}] /\ found' \in [Polls -> [Logins -> BOOLEAN]]
        /\ UNCHANGED <<answers, live, customNow, pushTimer, push, line, missed, air, was, airings>>
    BY <1>1 DEF Liv!Tick, Liv!pushes, Liv!world, LivInv, Liv!TypeOK
  <2>. QED
    BY <2>1, Zenon DEF LivInv, LivHeard, LivPushes, Liv!TypeOK, Liv!States
<1>2. ASSUME NEW p \in Polls, NEW ok \in BOOLEAN, Liv!Ask(p, ok) PROVE LivInv'
  <2>. DEFINE w == IF ok THEN air[login[p]] ELSE Silent
  <2>1. /\ login[p] # 0 /\ login[p] + 1 \in Logins
        /\ answers' = [answers EXCEPT ![p][login[p]] = w]
        /\ login' = [login EXCEPT ![p] = login[p] + 1]
        /\ UNCHANGED <<found, live, customNow, pushTimer, push, line, missed, air, was, airings>>
    BY <1>2, Zenon DEF Liv!Ask, Liv!Heard, Liv!Unanswered, Liv!pushes, Liv!world
  <2>2. login[p] \in Logins
    BY <2>1 DEF LivInv, Liv!TypeOK
  <2>3. w = air[login[p]] \/ w = Silent
    BY Zenon
  <2>. HIDE DEF w
  <2>4. /\ w \in Liv!States \cup {Silent}
        /\ w # Silent => (w # Off => TRUE \in was[login[p]]) /\ (w = Off => FALSE \in was[login[p]])
    BY <2>2, <2>3, LivAnswer
  <2>5. /\ answers' \in [Polls -> [Logins -> Liv!States \cup {Silent}]]
        /\ login' \in [Polls -> Logins \cup {0}]
        /\ \A q \in Polls : \A l \in Logins :
             answers'[q][l] = IF q = p /\ l = login[p] THEN w ELSE answers[q][l]
    BY <2>1, <2>2, <2>4 DEF LivInv, Liv!TypeOK
  <2>6. LivHeard'
    BY <2>1, <2>4, <2>5, Zenon DEF LivInv, LivHeard
  <2>. QED
    BY <2>1, <2>5, <2>6, Zenon DEF LivInv, LivPushes, Liv!TypeOK, Liv!States
<1>3. ASSUME NEW p \in Polls, NEW ok \in BOOLEAN, Liv!Settle(p, ok) PROVE LivInv'
  BY <1>3, LivSettles
<1>4. CASE Liv!Fire \/ Liv!Cycle \/ Liv!Pushed
  <2>1. UNCHANGED <<live, customNow, login, found, answers, air, was, airings>>
    BY <1>4, Zenon DEF Liv!Fire, Liv!Cycle, Liv!Pushed, Liv!polls, Liv!world
  <2>2. customNow \in Liv!States /\ customNow # None /\ push \in Liv!States \cup {None}
        /\ line \in Liv!States /\ pushTimer \in BOOLEAN /\ missed \in BOOLEAN
    BY DEF LivInv, Liv!TypeOK
  <2>3. /\ push' \in Liv!States \cup {None} /\ line' \in Liv!States
        /\ pushTimer' \in BOOLEAN /\ missed' \in BOOLEAN
    BY <1>4, <2>2, Zenon DEF Liv!Fire, Liv!Cycle, Liv!Pushed, Liv!Begins
  <2>4. LivPushes'
    BY <1>4, <2>1, <2>2, Zenon DEF Liv!Fire, Liv!Cycle, Liv!Pushed, Liv!Begins, LivInv, LivPushes
  <2>5. LivHeard'
    BY <2>1, Zenon DEF LivInv, LivHeard
  <2>. QED
    BY <2>1, <2>3, <2>4, <2>5, Zenon DEF LivInv, Liv!TypeOK, Liv!States
<1>5. ASSUME NEW l \in Logins, NEW t \in Liv!States, Liv!Air(l, t) PROVE LivInv'
  <2>1. /\ airings' \in 0..MAX_EDITS /\ air' \in [Logins -> Liv!States]
        /\ \A k \in Logins : air'[k] = IF k = l THEN t ELSE air[k]
        /\ UNCHANGED <<live, customNow, login, found, answers, pushTimer, push, line, missed>>
    BY <1>5 DEF Liv!Air, Liv!polls, Liv!pushes, LivInv, Liv!TypeOK
  <2>2. was' = [was EXCEPT ![l] = was[l] \cup {t # Off}] /\ was \in [Logins -> SUBSET BOOLEAN]
    BY <1>5, Zenon DEF Liv!Air, LivInv, Liv!TypeOK
  <2>3. \A k \in Logins : was'[k] = IF k = l THEN was[l] \cup {t # Off} ELSE was[k]
    BY <2>2, Zenon
  <2>4. was' \in [Logins -> SUBSET BOOLEAN]
    BY <2>2, <2>3, Zenon
  <2>5. LivHeard'
    <3>1. ASSUME NEW k \in Logins, NEW b \in BOOLEAN, b \in was[k] PROVE b \in was'[k]
      BY <2>3, <3>1, Zenon
    <3>2. ASSUME NEW k \in Logins
          PROVE (air'[k] # Off => TRUE \in was'[k]) /\ (air'[k] = Off => FALSE \in was'[k])
      BY <2>1, <2>3, Zenon DEF LivInv, LivHeard
    <3>. QED
      BY <2>1, <3>1, <3>2, Zenon DEF LivInv, LivHeard
  <2>. QED
    BY <2>1, <2>4, <2>5, Zenon DEF LivInv, LivPushes, Liv!TypeOK, Liv!States
<1>. QED
  BY <1>1, <1>2, <1>3, <1>4, <1>5, Zenon DEF Liv!Next

LEMMA LivRests == LivInv /\ UNCHANGED livenessVars => LivInv'
<1>. SUFFICES ASSUME LivInv, UNCHANGED livenessVars PROVE LivInv'
  OBVIOUS
<1>1. UNCHANGED <<air, live, customNow, login, found, answers, pushTimer, push, line, missed, was, airings>>
  BY DEF livenessVars
<1>2. LivHeard'
  BY <1>1, Zenon DEF LivInv, LivHeard
<1>3. LivPushes'
  BY <1>1, Zenon DEF LivInv, LivPushes
<1>4. Liv!TypeOK'
  BY <1>1, Zenon DEF LivInv, Liv!TypeOK, Liv!States
<1>. QED
  BY <1>2, <1>3, <1>4, Zenon DEF LivInv

-----------------------------------------------------------------------------
(* Verdicts: a clean round counts towards recovery while it is the last.    *)

VerCounts ==
  Len(rounds) < MAX_ROUNDS =>
    /\ verdict = Ver!Earned
    /\ cleanRounds = 1 <=>
         verdict # "healthy" /\ rounds # <<>> /\ rounds[Len(rounds)] = "clean"

VerInv == Ver!TypeOK /\ VerCounts

LEMMA VerBounds == {MIN_PROBED, MAX_PROBES, MAX_ROUNDS} \subseteq Nat
BY UpkeepAssumption

VerRecorded == Ver!Classes \ {"few"}

\* The last bad round, and what was earned since it.
LEMMA VerLastBad ==
  ASSUME NEW rs \in Seq(VerRecorded), NEW B, B = {i \in DOMAIN rs : rs[i] \in {"down", "degraded"}},
         B # {}
  PROVE  \E b \in B : (\A k \in B : k <= b) /\ b = CHOOSE i \in B : \A k \in B : k <= i
<1>1. B \subseteq 0..Len(rs) /\ Len(rs) \in Nat
  OBVIOUS
<1>6. \E b \in B : \A k \in B : k <= b
  BY <1>1, GreatestOf
<1>. QED
  BY <1>6, Zenon

\* What rounds that follow each other earn, without the choice of the last bad one.
VerEarns(rs, v) ==
  LET B == {i \in DOMAIN rs : rs[i] \in {"down", "degraded"}} IN
  \/ B = {} /\ v = "healthy"
  \/ \E b \in B :
       /\ \A k \in B : k <= b
       /\ v = IF \E i \in b + 1..Len(rs) - 1 : rs[i] = "clean" /\ rs[i + 1] = "clean"
                THEN "healthy" ELSE rs[b]

VerEarnedBy(rs) ==
  LET B == {i \in DOMAIN rs : rs[i] \in {"down", "degraded"}} IN
  IF B = {} THEN "healthy"
  ELSE LET b == CHOOSE i \in B : \A k \in B : k <= i
       IN IF \E i \in b + 1..Len(rs) - 1 : rs[i] = "clean" /\ rs[i + 1] = "clean"
            THEN "healthy" ELSE rs[b]

LEMMA VerEarned ==
  ASSUME NEW rs \in Seq(VerRecorded), NEW v
  PROVE  v = VerEarnedBy(rs) <=> VerEarns(rs, v)
<1>. DEFINE B == {i \in DOMAIN rs : rs[i] \in {"down", "degraded"}}
<1>1. CASE B = {}
  BY <1>1 DEF VerEarnedBy, VerEarns
<1>2. CASE B # {}
  <2>. DEFINE c == CHOOSE i \in B : \A k \in B : k <= i
              e == IF \E i \in c + 1..Len(rs) - 1 : rs[i] = "clean" /\ rs[i + 1] = "clean"
                     THEN "healthy" ELSE rs[c]
  <2>1. c \in B /\ \A k \in B : k <= c
    BY <1>2, VerLastBad, Zenon
  <2>2. VerEarnedBy(rs) = e
    BY <1>2, Zenon DEF VerEarnedBy
  <2>3. ASSUME NEW b \in B, \A k \in B : k <= b PROVE b = c
    BY <2>1, <2>3
  <2>. HIDE DEF B, c
  <2>4. VerEarns(rs, v) <=> v = e
    BY <1>2, <2>1, <2>3, Zenon DEF VerEarns, B
  <2>. HIDE DEF e
  <2>. QED
    BY <2>2, <2>4
<1>. QED
  BY <1>1, <1>2

LEMMA VerAppended ==
  ASSUME NEW rs \in Seq(VerRecorded), NEW v, VerEarns(rs, v), NEW k \in VerRecorded
  PROVE  /\ k \in {"down", "degraded"} => VerEarns(Append(rs, k), k)
         /\ k = "unclear" => VerEarns(Append(rs, k), v)
         /\ k = "clean" /\ (v = "healthy" \/ rs = <<>> \/ rs[Len(rs)] # "clean")
              => VerEarns(Append(rs, k), v)
         /\ k = "clean" /\ rs # <<>> /\ rs[Len(rs)] = "clean"
              => VerEarns(Append(rs, k), "healthy")
<1>. DEFINE new == Append(rs, k)
            n   == Len(rs)
            B   == {i \in DOMAIN rs : rs[i] \in {"down", "degraded"}}
            C   == {i \in DOMAIN new : new[i] \in {"down", "degraded"}}
            Two(q, b) == \E i \in b + 1..Len(q) - 1 : q[i] = "clean" /\ q[i + 1] = "clean"
<1>1. /\ n \in Nat /\ Len(new) = n + 1 /\ DOMAIN new = 1..n + 1 /\ DOMAIN rs = 1..n
      /\ new[n + 1] = k /\ \A i \in 1..n : new[i] = rs[i]
  OBVIOUS
<1>2. k = "clean" \/ k = "unclear" \/ k \in {"down", "degraded"}
  BY DEF VerRecorded, Ver!Classes
<1>. HIDE DEF new
<1>3. ASSUME k \in {"down", "degraded"} PROVE VerEarns(new, k)
  <2>1. n + 1 \in C /\ \A j \in C : j <= n + 1
    BY <1>1, <1>3
  <2>2. ~Two(new, n + 1)
    BY <1>1
  <2>3. new[n + 1] = k
    BY <1>1
  <2>. HIDE DEF C, Two
  <2>4. k = IF Two(new, n + 1) THEN "healthy" ELSE new[n + 1]
    BY <2>2, <2>3
  <2>. QED
    BY <2>1, <2>4, Zenon DEF VerEarns, C, Two
<1>4. ASSUME k \notin {"down", "degraded"} PROVE C = B
  BY <1>1, <1>4
<1>5. VerEarns(rs, v) <=>
        \/ B = {} /\ v = "healthy"
        \/ \E b \in B : /\ \A j \in B : j <= b
                       /\ v = IF Two(rs, b) THEN "healthy" ELSE rs[b]
  BY Zenon DEF VerEarns
<1>6. ASSUME NEW w, C = B,
             \/ B = {} /\ w = "healthy"
             \/ \E b \in B : /\ \A j \in B : j <= b
                            /\ w = IF Two(new, b) THEN "healthy" ELSE new[b]
      PROVE  VerEarns(new, w)
  BY <1>6, Zenon DEF VerEarns
<1>7. \A b \in B : b \in 1..n /\ new[b] = rs[b] /\ new[b] \in {"down", "degraded"}
  BY <1>1
<1>8. \A b \in B : Two(new, b) <=>
        Two(rs, b) \/ (b < n /\ rs[n] = "clean" /\ k = "clean")
  BY <1>1, <1>7
<1>9. rs # <<>> => n > 0
  BY <1>1
<1>. HIDE DEF B, C, Two, n
<1>10. ASSUME k = "unclear" \/ (k = "clean" /\ (v = "healthy" \/ rs = <<>> \/ rs[n] # "clean"))
       PROVE  VerEarns(new, v)
  <2>1. C = B
    BY <1>4, <1>10
  <2>2. CASE B = {} /\ v = "healthy"
    BY <1>6, <2>1, <2>2
  <2>3. ASSUME NEW b \in B, \A j \in B : j <= b, v = IF Two(rs, b) THEN "healthy" ELSE rs[b]
        PROVE  VerEarns(new, v)
    <3>1. rs # <<>>
      BY <1>1, <1>7, <2>3
    <3>2. v # "healthy" => ~Two(rs, b)
      BY <2>3
    <3>3. v = "healthy" => Two(rs, b)
      BY <1>7, <2>3
    <3>4. Two(new, b) <=> Two(rs, b)
      BY <1>8, <1>10, <2>3, <3>1, <3>2, <3>3
    <3>5. v = IF Two(new, b) THEN "healthy" ELSE new[b]
      BY <1>7, <2>3, <3>4
    <3>. QED
      BY <1>6, <2>1, <2>3, <3>5
  <2>. QED
    BY <1>5, <2>2, <2>3, Zenon
<1>11. ASSUME k = "clean", rs # <<>>, rs[n] = "clean" PROVE VerEarns(new, "healthy")
  <2>1. C = B
    BY <1>4, <1>11
  <2>2. CASE B = {}
    BY <1>6, <2>1, <2>2
  <2>3. ASSUME NEW b \in B, \A j \in B : j <= b PROVE VerEarns(new, "healthy")
    <3>1. b # n /\ b \in 1..n /\ n \in Nat
      BY <1>1, <1>7, <1>11, <2>3
    <3>2. Two(new, b)
      BY <1>8, <1>11, <3>1
    <3>. QED
      BY <1>6, <2>1, <2>3, <3>2
  <2>. QED
    BY <1>5, <2>2, <2>3, Zenon
<1>. QED
  BY <1>3, <1>10, <1>11, Zenon DEF new, n

LEMMA VerInit == Ver!Init => VerInv
<1>. SUFFICES ASSUME Ver!Init PROVE VerInv
  OBVIOUS
<1>1. verdict = "healthy" /\ cleanRounds = 0 /\ rounds = <<>>
  BY DEF Ver!Init
<1>2. rounds \in Seq(VerRecorded) /\ Len(rounds) = 0
  BY <1>1
<1>3. VerEarns(rounds, "healthy")
  BY <1>1 DEF VerEarns
<1>4. verdict = Ver!Earned
  <2>1. Ver!Earned = VerEarnedBy(rounds)
    BY Zenon DEF Ver!Earned, Ver!Bad, VerEarnedBy
  <2>. QED
    BY <1>1, <1>2, <1>3, <2>1, VerEarned
<1>5. VerCounts
  BY <1>1, <1>4 DEF VerCounts
<1>6. Ver!TypeOK
  BY <1>1, <1>2, VerBounds DEF Ver!TypeOK, VerRecorded
<1>. QED
  BY <1>5, <1>6 DEF VerInv

LEMMA VerClass == \A p, f : Ver!Class(p, f) \in Ver!Classes
BY DEF Ver!Class, Ver!Classes

\* One round of class k, in cases.
LEMMA VerFolds ==
  ASSUME NEW k \in Ver!Classes
  PROVE  /\ k \in {"down", "degraded"} => Ver!Folded(k) = <<k, 0>>
         /\ k = "clean" /\ verdict # "healthy" =>
              Ver!Folded(k) = IF cleanRounds = 1 THEN <<"healthy", 0>> ELSE <<verdict, 1>>
         /\ k = "unclear" => Ver!Folded(k) = <<verdict, 0>>
         /\ k = "few" \/ (k = "clean" /\ verdict = "healthy")
              => Ver!Folded(k) = <<verdict, cleanRounds>>
BY DEF Ver!Folded, Ver!Recovery, Ver!Classes

LEMMA VerRounds ==
  ASSUME VerInv, NEW k \in Ver!Classes, verdict' = Ver!Folded(k)[1],
         cleanRounds' = Ver!Folded(k)[2],
         rounds' = IF k # "few" /\ Len(rounds) < MAX_ROUNDS THEN Append(rounds, k) ELSE rounds
  PROVE  VerInv'
<1>. USE VerBounds
<1>0. /\ rounds \in Seq(VerRecorded) /\ Len(rounds) <= MAX_ROUNDS /\ Len(rounds) \in Nat
      /\ verdict \in {"healthy", "degraded", "down"} /\ cleanRounds \in 0..1
  BY DEF VerInv, Ver!TypeOK, VerRecorded
<1>a. k = "few" \/ k = "clean" \/ k = "unclear" \/ k \in {"down", "degraded"}
  BY DEF Ver!Classes
<1>1. /\ k \in {"down", "degraded"} => verdict' = k /\ cleanRounds' = 0
      /\ k = "clean" /\ verdict # "healthy" =>
           IF cleanRounds = 1 THEN verdict' = "healthy" /\ cleanRounds' = 0
                              ELSE verdict' = verdict /\ cleanRounds' = 1
      /\ k = "unclear" => verdict' = verdict /\ cleanRounds' = 0
      /\ k = "few" \/ (k = "clean" /\ verdict = "healthy")
           => verdict' = verdict /\ cleanRounds' = cleanRounds
  BY VerFolds
<1>2. Ver!TypeOK'
  <2>1. verdict' \in {"healthy", "degraded", "down"} /\ cleanRounds' \in 0..1
    BY <1>0, <1>1, <1>a
  <2>2. rounds' \in Seq(VerRecorded) /\ Len(rounds') <= MAX_ROUNDS
    <3>1. CASE k # "few" /\ Len(rounds) < MAX_ROUNDS
      <4>1. k \in VerRecorded /\ rounds' = Append(rounds, k)
        BY <3>1 DEF VerRecorded
      <4>. QED
        BY <1>0, <3>1, <4>1
    <3>2. CASE ~(k # "few" /\ Len(rounds) < MAX_ROUNDS)
      BY <1>0, <3>2
    <3>. QED
      BY <3>1, <3>2
  <2>. QED
    BY <2>1, <2>2 DEF Ver!TypeOK, VerRecorded
<1>3. VerCounts'
  <2>. SUFFICES ASSUME Len(rounds') < MAX_ROUNDS
       PROVE /\ verdict' = Ver!Earned'
             /\ cleanRounds' = 1 <=>
                  verdict' # "healthy" /\ rounds' # <<>> /\ rounds'[Len(rounds')] = "clean"
    BY DEF VerCounts
  <2>0. Len(rounds) < MAX_ROUNDS
    <3>1. CASE k # "few" /\ Len(rounds) < MAX_ROUNDS
      BY <3>1
    <3>2. CASE ~(k # "few" /\ Len(rounds) < MAX_ROUNDS)
      BY <3>2
    <3>. QED
      BY <3>1, <3>2
  <2>1. /\ verdict = Ver!Earned
        /\ cleanRounds = 1 <=>
             verdict # "healthy" /\ rounds # <<>> /\ rounds[Len(rounds)] = "clean"
    BY <2>0 DEF VerInv, VerCounts
  <2>2. CASE k = "few"
    <3>1. UNCHANGED <<verdict, cleanRounds, rounds>>
      BY <1>1, <2>2
    <3>. QED
      BY <2>1, <3>1 DEF Ver!Earned, Ver!Bad
  <2>3. CASE k # "few"
    <3>1. k \in VerRecorded /\ rounds' = Append(rounds, k)
      BY <2>0, <2>3 DEF VerRecorded
    <3>2. /\ rounds' \in Seq(VerRecorded) /\ rounds' # <<>> /\ rounds'[Len(rounds')] = k
      BY <1>0, <3>1
    <3>3. VerEarns(rounds, verdict)
      <4>1. Ver!Earned = VerEarnedBy(rounds)
        BY Zenon DEF Ver!Earned, Ver!Bad, VerEarnedBy
      <4>. QED
        BY <1>0, <2>1, <4>1, VerEarned
    <3>4. VerEarns(rounds', verdict')
      <4>1. /\ k \in {"down", "degraded"} => VerEarns(rounds', k)
            /\ k = "unclear" => VerEarns(rounds', verdict)
            /\ k = "clean" /\ (verdict = "healthy" \/ rounds = <<>> \/ rounds[Len(rounds)] # "clean")
                 => VerEarns(rounds', verdict)
            /\ k = "clean" /\ rounds # <<>> /\ rounds[Len(rounds)] = "clean"
                 => VerEarns(rounds', "healthy")
        BY <1>0, <3>1, <3>3, VerAppended
      <4>. QED
        BY <1>1, <1>a, <2>1, <2>3, <4>1
    <3>5. verdict' = Ver!Earned'
      <4>1. Ver!Earned' = VerEarnedBy(rounds')
        BY Zenon DEF Ver!Earned, Ver!Bad, VerEarnedBy
      <4>. QED
        BY <3>2, <3>4, <4>1, VerEarned
    <3>. QED
      BY <1>0, <1>1, <1>a, <2>1, <2>3, <3>2, <3>5
  <2>. QED
    BY <2>2, <2>3
<1>. QED
  BY <1>2, <1>3 DEF VerInv

LEMMA VerStep == VerInv /\ Ver!Next => VerInv'
<1>. SUFFICES ASSUME VerInv, Ver!Next PROVE VerInv'
  OBVIOUS
<1>1. ASSUME NEW p \in 1..MAX_PROBES, NEW f \in 0..p, Ver!Round(p, f) PROVE VerInv'
  <2>1. Ver!Class(p, f) \in Ver!Classes
    BY VerClass
  <2>. QED
    BY <1>1, <2>1, VerRounds, Zenon DEF Ver!Round
<1>2. CASE Ver!Reset
  <2>1. verdict' = "healthy" /\ cleanRounds' = 0 /\ rounds' = <<>>
    BY <1>2 DEF Ver!Reset
  <2>2. rounds' \in Seq(VerRecorded) /\ Len(rounds') = 0
    BY <2>1
  <2>3. Ver!Earned' = "healthy"
    BY <2>1 DEF Ver!Earned, Ver!Bad
  <2>4. VerCounts'
    BY <2>1, <2>3 DEF VerCounts
  <2>5. Ver!TypeOK'
    BY <2>1, <2>2, VerBounds DEF Ver!TypeOK, VerRecorded
  <2>. QED
    BY <2>4, <2>5 DEF VerInv
<1>. QED
  BY <1>1, <1>2, Zenon DEF Ver!Next, Ver!Rounds

LEMMA VerRests == VerInv /\ UNCHANGED verdictVars => VerInv'
BY DEF VerInv, VerCounts, Ver!TypeOK, Ver!Earned, Ver!Bad, verdictVars

LEMMA VerIsEarned == VerInv => Ver!TypeOK /\ Ver!VerdictIsEarned
BY Zenon DEF VerInv, VerCounts, Ver!VerdictIsEarned

-----------------------------------------------------------------------------
(* Watchdog: an alert of an exit is on its way, delivered or failed.       *)

DogInv == Dog!TypeOK /\ Dog!ExitIsTold

LEMMA DogBounds == MAX_EXITS \in Nat /\ Loops \subseteq Nat \ {0}
BY UpkeepAssumption

LEMMA DogInit == Dog!Init => DogInv
BY DogBounds DEF Dog!Init, DogInv, Dog!TypeOK, Dog!ExitIsTold

LEMMA DogTicks == ASSUME DogInv, NEW c \in SUBSET Loops, Dog!Tick(c) PROVE DogInv'
<1>. DEFINE spent == {l \in overdue : Dog!Spent(l)}
            first == IF spent = {} THEN 0 ELSE CHOOSE l \in spent : \A k \in spent : l <= k
            hit   == {l \in overdue \ spent : first = 0 \/ l < first}
<1>1. /\ leaving = 0 /\ c \subseteq hit
      /\ strikes' = [l \in Loops |-> IF l \in hit THEN Dog!Struck(l) ELSE strikes[l]]
      /\ overdue' = overdue \ hit /\ wedged' = wedged \ c /\ leaving' = first
      /\ Dog!Alert({<<l, "restart">> : l \in hit}
                   \cup IF first = 0 THEN {} ELSE {<<first, "exit">>})
      /\ UNCHANGED <<sent, failed, exits>>
  BY Zenon DEF Dog!Tick, Dog!ExitKind
<1>2. spent \subseteq Loops /\ \A l \in overdue : l \in spent <=> strikes[l] = 2
  BY DEF DogInv, Dog!TypeOK, Dog!Spent
<1>3. first = 0 \/ first \in spent
  <2>1. CASE spent # {}
    <3>1. \E l \in spent : \A k \in spent : l <= k
      BY <1>2, <2>1, DogBounds, LeastOf
    <3>. QED
      BY <2>1, <3>1
  <2>. QED
    BY <2>1
<1>4. hit \subseteq overdue \ spent
  OBVIOUS
<1>. HIDE DEF spent, first, hit
<1>5. strikes' \in [Loops -> 0..2]
  <2>1. \A l \in Loops : (IF l \in hit THEN Dog!Struck(l) ELSE strikes[l]) \in 0..2
    BY <1>2, <1>4 DEF DogInv, Dog!TypeOK, Dog!Struck
  <2>. QED
    BY <1>1, <2>1
<1>6. sending' = sending \cup (({<<l, "restart">> : l \in hit}
                   \cup IF first = 0 THEN {} ELSE {<<first, "exit">>}) \ sent)
  BY <1>1, Zenon DEF Dog!Alert
<1>7. sending' \in SUBSET Dog!Kinds
  BY <1>2, <1>3, <1>4, <1>6 DEF DogInv, Dog!TypeOK, Dog!Kinds, Dog!Rungs
<1>8. Dog!ExitIsTold'
  <2>1. CASE first = 0
    BY <1>1, <2>1 DEF Dog!ExitIsTold
  <2>2. CASE first # 0
    <3>1. <<first, "exit">> \in sending' \cup sent'
      BY <1>1, <1>6, <2>2, Zenon
    <3>. QED
      BY <1>1, <3>1, Zenon DEF Dog!ExitIsTold
  <2>. QED
    BY <2>1, <2>2
<1>9. leaving' \in Loops \cup {0}
  BY <1>1, <1>2, <1>3
<1>. QED
  BY <1>1, <1>5, <1>7, <1>8, <1>9 DEF DogInv, Dog!TypeOK

LEMMA DogStep == DogInv /\ Dog!Next => DogInv'
<1>. SUFFICES ASSUME DogInv, Dog!Next PROVE DogInv'
  OBVIOUS
<1>. USE DogBounds
<1>1. ASSUME NEW c \in SUBSET Loops, Dog!Tick(c) PROVE DogInv'
  BY <1>1, DogTicks
<1>2. CASE Dog!Exit
  BY <1>2 DEF Dog!Exit, DogInv, Dog!TypeOK, Dog!ExitIsTold
<1>3. ASSUME NEW l \in Loops, Dog!Beat(l) \/ Dog!Wedge(l) \/ Dog!Late(l) PROVE DogInv'
  <2>1. CASE Dog!Beat(l)
    BY <2>1 DEF Dog!Beat, DogInv, Dog!TypeOK, Dog!ExitIsTold
  <2>2. CASE Dog!Wedge(l)
    BY <2>2 DEF Dog!Wedge, DogInv, Dog!TypeOK, Dog!ExitIsTold
  <2>3. CASE Dog!Late(l)
    BY <2>3 DEF Dog!Late, DogInv, Dog!TypeOK, Dog!ExitIsTold
  <2>. QED
    BY <1>3, <2>1, <2>2, <2>3
<1>4. ASSUME NEW k \in Dog!Kinds, Dog!Hour(k) PROVE DogInv'
  BY <1>4 DEF Dog!Hour, DogInv, Dog!TypeOK, Dog!ExitIsTold
<1>5. ASSUME NEW k \in Dog!Kinds, NEW ok \in BOOLEAN, Dog!Arrive(k, ok) PROVE DogInv'
  BY <1>5 DEF Dog!Arrive, Dog!Remembered, DogInv, Dog!TypeOK, Dog!ExitIsTold
<1>. QED
  BY <1>1, <1>2, <1>3, <1>4, <1>5, Zenon DEF Dog!Next

LEMMA DogRests == DogInv /\ UNCHANGED dogVars => DogInv'
BY DEF DogInv, Dog!TypeOK, Dog!ExitIsTold, dogVars

-----------------------------------------------------------------------------
(* Matching: what a sync learns of names keeps the numbers of its channels. *)

Untagged(e) == Tagged[e] = None
Own(e) == Mat!Id(Named[e], Countries[e])
MatSlugs == {Named[e] : e \in 1..4} \cup {i.slug : i \in Mat!Ids}
MatKnown == Seq([id : Mat!Ids, slug : MatSlugs])
MatAcc == [known : MatKnown, stream : [1..4 -> Mat!Ids \cup {None}]]
\* What an entry is known by says the numbers of its channel, as far as anyone can come
\* to it by name.
MatPure(heard) ==
  \A i \in DOMAIN heard : \A f \in 1..4 :
    Untagged(f) /\ Mat!DigitRuns(heard[i].slug) = Mat!DigitRuns(Named[f])
      /\ Mat!SimilarEnough(Named[f], heard[i].slug)
    => Mat!DigitRuns(heard[i].id.slug) = Mat!DigitRuns(Named[f])
MatApart(heard) == \A i, j \in DOMAIN heard : heard[i].id = heard[j].id => i = j
MatNumbered(placed, done) ==
  \A f \in done : Untagged(f) => Mat!DigitRuns(placed[f].slug) = Mat!DigitRuns(Named[f])
MatFounded(placed) ==
  \A e \in 1..4 : Untagged(e) /\ source[e] = Own(e) => placed[e] = Own(e)
MatHeld(acc) == \A e \in 1..4 : acc.stream[e] # None => Mat!Has(acc.known, acc.stream[e])
MatGood(acc, done) ==
  /\ acc \in MatAcc /\ MatApart(acc.known) /\ MatPure(acc.known) /\ MatHeld(acc)
  /\ MatNumbered(acc.stream, done) /\ MatFounded(acc.stream)

LEMMA SeqIs ==
  ASSUME NEW R, NEW s \in Seq(R)
  PROVE  Len(s) \in Nat /\ DOMAIN s = 1..Len(s) /\ \A i \in DOMAIN s : s[i] \in R
OBVIOUS

\* The loop over what is known ends with a candidate if there is one.
LEMMA MatBest ==
  ASSUME NEW heard \in MatKnown, NEW e \in 1..4, Mat!Candidates(e, heard) # {}
  PROVE  Mat!Best(e, heard) \in Mat!Candidates(e, heard)
<1>. DEFINE top == Len(heard)
            cands == Mat!Candidates(e, heard)
            fits(n, b) == /\ n \in Mat!Candidates(e, heard)
                          /\ b = 0 \/ Mat!Nearer(Named[e], heard[n].slug, heard[b].slug)
            Is(f) == f = [n \in 0..Len(heard) |->
              IF n = 0 THEN 0
              ELSE LET b == f[n - 1]
                   IN  IF /\ n \in Mat!Candidates(e, heard)
                          /\ b = 0 \/ Mat!Nearer(Named[e], heard[n].slug, heard[b].slug)
                       THEN n ELSE b]
            best == CHOOSE f : Is(f)
            advance == [n \in 1..top |-> [b \in Nat |-> IF fits(n, b) THEN n ELSE b]]
<1>1. top \in Nat /\ DOMAIN heard = 1..top
  BY DEF MatKnown
<1>2. cands \subseteq 1..top
  BY <1>1 DEF Mat!Candidates
<1>3. \A n \in 1..top : \A b \in Nat : advance[n][b] = IF fits(n, b) THEN n ELSE b
  <2>. HIDE DEF fits, top
  <2>. QED
    OBVIOUS
<1>4. GoesOn(top, Nat, advance)
  <2>. HIDE DEF fits, advance
  <2>. QED
    BY <1>3, <1>1 DEF GoesOn
<1>. HIDE DEF advance
<1>5. PICK f : CountsUp(top, Nat, 0, advance, f)
  <2>. HIDE DEF top
  <2>. QED
    BY <1>1, <1>4, RecursionOnNumbers
<1>6. \A n \in 0..top : f[n] = IF n = 0 THEN 0 ELSE IF fits(n, f[n - 1]) THEN n ELSE f[n - 1]
  <2>. HIDE DEF fits, top
  <2>1. ASSUME NEW n \in 0..top, n # 0
        PROVE  f[n] = IF fits(n, f[n - 1]) THEN n ELSE f[n - 1]
    <3>1. n \in 1..top /\ n - 1 \in 0..top
      BY <1>1, <2>1
    <3>2. f[n - 1] \in Nat /\ f[n] = advance[n][f[n - 1]]
      BY <1>5, <2>1, <3>1 DEF CountsUp
    <3>. QED
      BY <1>3, <3>1, <3>2
  <2>2. 0 \in 0..top => f[0] = 0
    BY <1>5 DEF CountsUp
  <2>. QED
    BY <2>1, <2>2
<1>7. Is(f)
  <2>1. f = [n \in 0..Len(heard) |-> f[n]]
    BY <1>5 DEF CountsUp
  <2>2. \A n \in 0..Len(heard) : f[n] =
              IF n = 0 THEN 0
              ELSE LET b == f[n - 1]
                   IN  IF /\ n \in Mat!Candidates(e, heard)
                          /\ b = 0 \/ Mat!Nearer(Named[e], heard[n].slug, heard[b].slug)
                       THEN n ELSE b
    BY <1>6, Zenon
  <2>. QED
    BY <2>1, <2>2, Zenon
<1>8. Is(best)
  <2>1. \E g : Is(g)
    BY <1>7
  <2>. HIDE DEF Is
  <2>. QED
    BY <2>1, Zenon
<1>9. Mat!Best(e, heard) = best[top]
  BY Zenon DEF Mat!Best
<1>10. \A n \in 0..top : best[n] = IF n = 0 THEN 0
                                   ELSE IF fits(n, best[n - 1]) THEN n ELSE best[n - 1]
  <2>. HIDE DEF best
  <2>. QED
    BY <1>8, Zenon
<1>. HIDE DEF best, Is
<1>. DEFINE T == {n \in Nat : n <= top =>
                    /\ best[n] \in {0} \cup cands
                    /\ (\E i \in cands : i <= n) => best[n] # 0}
<1>11. 0 \in T
  BY <1>1, <1>2, <1>10
<1>12. ASSUME NEW n \in T PROVE n + 1 \in T
  <2>. SUFFICES ASSUME n + 1 <= top
                PROVE  /\ best[n + 1] \in {0} \cup cands
                       /\ (\E i \in cands : i <= n + 1) => best[n + 1] # 0
    OBVIOUS
  <2>1. n + 1 \in 0..top /\ n + 1 # 0 /\ (n + 1) - 1 = n
    BY <1>1
  <2>2. best[n + 1] = IF fits(n + 1, best[n]) THEN n + 1 ELSE best[n]
    <3>. HIDE DEF fits
    <3>. QED
      BY <1>10, <2>1
  <2>3. /\ best[n] \in {0} \cup cands
        /\ (\E i \in cands : i <= n) => best[n] # 0
    BY <1>1
  <2>4. fits(n + 1, best[n]) => n + 1 \in cands
    OBVIOUS
  <2>5. n + 1 \in cands /\ best[n] = 0 => fits(n + 1, best[n])
    OBVIOUS
  <2>. HIDE DEF fits, cands
  <2>6. \A i \in cands : i <= n + 1 => i = n + 1 \/ i <= n
    BY <1>1, <1>2
  <2>. QED
    BY <2>1, <2>2, <2>3, <2>4, <2>5, <2>6
<1>13. T = Nat
  <2>. HIDE DEF T
  <2>1. T \in SUBSET Nat
    BY DEF T
  <2>. QED
    BY <1>11, <1>12, <2>1, AllNumbers
<1>14. best[top] \in {0} \cup cands /\ best[top] # 0
  <2>1. top \in T
    BY <1>1, <1>13
  <2>2. \E i \in cands : i <= top
    BY <1>1, <1>2
  <2>. QED
    BY <1>1, <2>1, <2>2
<1>. QED
  BY <1>9, <1>14

LEMMA MatIds ==
  /\ \A e \in 1..4 : Own(e) \in Mat!Ids /\ Own(e) # None /\ Own(e).slug = Named[e]
  /\ \A e \in 1..4 : ~Untagged(e) => Tagged[e] \in Mat!Ids
  /\ \A i \in Mat!Ids : i.slug \in MatSlugs
  /\ \A e \in 1..4 : Named[e] \in MatSlugs
<1>1. \A e \in 1..4 : Own(e) \in Mat!Ids /\ Own(e) # None
  BY NamesAssumption DEF Own, Mat!Ids
<1>2. \A e \in 1..4 : Own(e).slug = Named[e]
  BY DEF Own, Mat!Id
<1>3. \A e \in 1..4 : ~Untagged(e) => Tagged[e] \in Mat!Ids
  BY DEF Untagged, Mat!Ids
<1>. QED
  BY <1>1, <1>2, <1>3 DEF MatSlugs

\* The id an entry is given.
LEMMA MatGives ==
  ASSUME NEW heard \in MatKnown, MatPure(heard), NEW e \in 1..4
  PROVE  LET id == Mat!MatchedId(e, heard) IN
         /\ id \in Mat!Ids
         /\ Untagged(e) => Mat!DigitRuns(id.slug) = Mat!DigitRuns(Named[e])
         /\ Untagged(e) /\ Mat!Has(heard, Own(e)) => id = Own(e)
         /\ Mat!Has(heard, id) \/ (~Untagged(e) /\ id = Tagged[e]) \/ id = Own(e)
<1>. DEFINE id == Mat!MatchedId(e, heard)
<1>1. CASE ~Untagged(e)
  <2>1. id = Tagged[e]
    BY <1>1 DEF Mat!MatchedId, Untagged
  <2>. QED
    BY <1>1, <2>1, MatIds
<1>2. CASE Untagged(e) /\ (Mat!Has(heard, Own(e)) \/ Mat!Candidates(e, heard) = {})
  <2>1. id = Own(e)
    BY <1>2 DEF Mat!MatchedId, Untagged, Own
  <2>. QED
    BY <1>2, <2>1, MatIds
<1>3. CASE Untagged(e) /\ ~Mat!Has(heard, Own(e)) /\ Mat!Candidates(e, heard) # {}
  <2>1. id = heard[Mat!Best(e, heard)].id
    BY <1>3 DEF Mat!MatchedId, Untagged, Own
  <2>2. PICK b : b = Mat!Best(e, heard)
    OBVIOUS
  <2>3. /\ b \in DOMAIN heard
        /\ Mat!DigitRuns(heard[b].slug) = Mat!DigitRuns(Named[e])
        /\ Mat!SimilarEnough(Named[e], heard[b].slug)
    BY <1>3, <2>2, MatBest DEF Mat!Candidates
  <2>4. heard[b].id \in Mat!Ids
    <3>1. heard \in Seq([id : Mat!Ids, slug : MatSlugs]) /\ b \in DOMAIN heard
      BY <2>3, Zenon DEF MatKnown
    <3>2. heard[b] \in [id : Mat!Ids, slug : MatSlugs]
      BY <3>1, SeqIs
    <3>. QED
      BY <3>2
  <2>5. Mat!DigitRuns(heard[b].id.slug) = Mat!DigitRuns(Named[e])
    BY <1>3, <2>3 DEF MatPure
  <2>6. Mat!Has(heard, heard[b].id)
    BY <2>3 DEF Mat!Has
  <2>7. id = heard[b].id
    BY <2>1, <2>2
  <2>. HIDE DEF id
  <2>. QED
    BY <1>3, <2>4, <2>5, <2>6, <2>7 DEF id
<1>. QED
  BY <1>1, <1>2, <1>3

\* What the sync then knows.
LEMMA MatLearns ==
  ASSUME NEW heard \in MatKnown, MatPure(heard), MatApart(heard), NEW e \in 1..4,
         NEW id \in Mat!Ids,
         Mat!Has(heard, id) \/ (~Untagged(e) /\ id = Tagged[e]) \/ id = Own(e)
  PROVE  LET more == Mat!Learned(heard, id, Named[e]) IN
         /\ more \in MatKnown /\ MatPure(more) /\ MatApart(more)
         /\ \A i \in Mat!Ids : Mat!Has(heard, i) => Mat!Has(more, i)
         /\ Mat!Has(more, id)
<1>. DEFINE more == Mat!Learned(heard, id, Named[e])
<1>1. CASE Mat!Has(heard, id)
  <2>1. more = heard
    BY <1>1 DEF Mat!Learned
  <2>. QED
    BY <1>1, <2>1
<1>2. CASE ~Mat!Has(heard, id)
  <2>. DEFINE new == [id |-> id, slug |-> Named[e]]
  <2>1. more = Append(heard, new)
    BY <1>2 DEF Mat!Learned
  <2>2. new \in [id : Mat!Ids, slug : MatSlugs] /\ new.id = id /\ new.slug = Named[e]
    BY MatIds
  <2>. HIDE DEF more, new
  <2>3. /\ more \in MatKnown /\ DOMAIN heard = 1..Len(heard) /\ Len(heard) \in Nat
        /\ DOMAIN more = 1..(Len(heard) + 1)
        /\ \A i \in 1..Len(heard) : more[i] = heard[i]
        /\ more[Len(heard) + 1] = new
    BY <2>1, <2>2 DEF MatKnown
  <2>. DEFINE last1 == Len(heard) + 1
  <2>4. /\ DOMAIN more = DOMAIN heard \cup {last1} /\ last1 \notin DOMAIN heard
        /\ \A i \in DOMAIN heard : more[i] = heard[i]
        /\ more[last1] = new
    BY <2>3
  <2>. HIDE DEF last1
  <2>5. MatPure(more)
    <3>. SUFFICES ASSUME NEW i \in DOMAIN more, NEW f \in 1..4, Untagged(f),
                         Mat!DigitRuns(more[i].slug) = Mat!DigitRuns(Named[f]),
                         Mat!SimilarEnough(Named[f], more[i].slug)
                  PROVE  Mat!DigitRuns(more[i].id.slug) = Mat!DigitRuns(Named[f])
      BY Zenon DEF MatPure
    <3>1. CASE i \in DOMAIN heard
      BY <2>4, <3>1 DEF MatPure
    <3>2. CASE i = last1
      <4>1. more[i].slug = Named[e] /\ more[i].id = id
        BY <2>2, <2>4, <3>2
      <4>2. CASE id = Own(e)
        BY <4>1, <4>2, MatIds
      <4>3. CASE ~Untagged(e) /\ id = Tagged[e]
        <5>1. Mat!DigitRuns(Tagged[e].slug) = Mat!DigitRuns(Named[e])
          BY <4>1, <4>3, NamesAssumption, Zenon DEF Untagged
        <5>. QED
          BY <4>1, <4>3, <5>1
      <4>. QED
        BY <1>2, <4>2, <4>3
    <3>. QED
      BY <2>4, <3>1, <3>2
  <2>6. MatApart(more)
    BY <1>2, <2>2, <2>4 DEF MatApart, Mat!Has
  <2>7. \A i \in Mat!Ids : Mat!Has(heard, i) => Mat!Has(more, i)
    BY <2>4 DEF Mat!Has
  <2>8. Mat!Has(more, id)
    BY <2>2, <2>4 DEF Mat!Has
  <2>. QED
    BY <2>3, <2>5, <2>6, <2>7, <2>8 DEF more
<1>. QED
  BY <1>1, <1>2

MatAdvance(e, acc) ==
  [known |-> Mat!Learned(acc.known, Mat!MatchedId(e, acc.known), Named[e]),
   stream |-> [acc.stream EXCEPT ![e] = Mat!MatchedId(e, acc.known)]]

LEMMA MatAdvances ==
  ASSUME NEW acc, NEW done \in SUBSET (1..4), MatGood(acc, done), NEW e \in 1..4
  PROVE  MatGood(MatAdvance(e, acc), done \cup {e})
<1>. DEFINE id == Mat!MatchedId(e, acc.known)
            more == Mat!Learned(acc.known, id, Named[e])
            placed == [acc.stream EXCEPT ![e] = id]
            next == MatAdvance(e, acc)
<1>0. /\ acc.known \in MatKnown /\ acc.stream \in [1..4 -> Mat!Ids \cup {None}]
      /\ MatApart(acc.known) /\ MatPure(acc.known) /\ MatHeld(acc)
      /\ MatNumbered(acc.stream, done) /\ MatFounded(acc.stream)
  BY DEF MatGood, MatAcc
<1>1. /\ id \in Mat!Ids
      /\ Untagged(e) => Mat!DigitRuns(id.slug) = Mat!DigitRuns(Named[e])
      /\ Untagged(e) /\ Mat!Has(acc.known, Own(e)) => id = Own(e)
      /\ Mat!Has(acc.known, id) \/ (~Untagged(e) /\ id = Tagged[e]) \/ id = Own(e)
  BY <1>0, MatGives
<1>2. next.known = more /\ next.stream = placed /\ next = [known |-> more, stream |-> placed]
  BY DEF MatAdvance
<1>. HIDE DEF id
<1>3. /\ more \in MatKnown /\ MatPure(more) /\ MatApart(more)
      /\ \A i \in Mat!Ids : Mat!Has(acc.known, i) => Mat!Has(more, i)
      /\ Mat!Has(more, id)
  BY <1>0, <1>1, MatLearns
<1>. HIDE DEF more, next
<1>4. placed \in [1..4 -> Mat!Ids \cup {None}] /\ placed[e] = id
      /\ \A f \in 1..4 : f # e => placed[f] = acc.stream[f]
  BY <1>0, <1>1
<1>. HIDE DEF placed
<1>5. next \in MatAcc
  BY <1>2, <1>3, <1>4 DEF MatAcc
<1>6. MatHeld(next)
  BY <1>0, <1>2, <1>3, <1>4 DEF MatHeld
<1>7. MatNumbered(placed, done \cup {e})
  BY <1>0, <1>1, <1>4 DEF MatNumbered
<1>8. MatFounded(placed)
  <2>. SUFFICES ASSUME NEW f \in 1..4, Untagged(f), source[f] = Own(f) PROVE placed[f] = Own(f)
    BY DEF MatFounded
  <2>1. acc.stream[f] = Own(f)
    BY <1>0 DEF MatFounded
  <2>2. Mat!Has(acc.known, Own(f))
    BY <1>0, <2>1, MatIds DEF MatHeld
  <2>. QED
    BY <1>1, <1>4, <2>1, <2>2
<1>. QED
  BY <1>2, <1>3, <1>5, <1>6, <1>7, <1>8 DEF MatGood, next

MatInv ==
  /\ Mat!TypeOK
  /\ \A f \in synced : Untagged(f) => Mat!DigitRuns(source[f].slug) = Mat!DigitRuns(Named[f])

LEMMA MatTyped ==
  ASSUME Mat!TypeOK
  PROVE  /\ matched \in Seq(Mat!Ids)
         /\ \A i, j \in DOMAIN matched : matched[i] = matched[j] => i = j
         /\ source \in [1..4 -> {matched[i] : i \in DOMAIN matched} \cup {None}]
         /\ synced \subseteq 1..4
BY Zenon DEF Mat!TypeOK, Mat!IsInjective, Mat!ToSet

LEMMA MatKnows ==
  ASSUME Mat!TypeOK
  PROVE  MatGood([known |-> Mat!Known, stream |-> source], {})
<1>1. /\ matched \in Seq(Mat!Ids) /\ DOMAIN matched = 1..Len(matched) /\ Len(matched) \in Nat
      /\ \A i, j \in DOMAIN matched : matched[i] = matched[j] => i = j
      /\ source \in [1..4 -> {matched[i] : i \in DOMAIN matched} \cup {None}]
  BY MatTyped
<1>2. /\ DOMAIN Mat!Known = DOMAIN matched
      /\ \A i \in DOMAIN matched : /\ Mat!Known[i] = [id |-> matched[i], slug |-> matched[i].slug]
                                   /\ Mat!Known[i].id = matched[i]
                                   /\ Mat!Known[i].slug = matched[i].slug
  BY DEF Mat!Known
<1>3. \A i \in DOMAIN matched : matched[i] \in Mat!Ids /\ matched[i].slug \in MatSlugs
  BY <1>1, MatIds
<1>4. Mat!Known \in MatKnown
  <2>1. Mat!Known = [i \in 1..Len(matched) |-> Mat!Known[i]]
    BY <1>1 DEF Mat!Known
  <2>2. \A i \in 1..Len(matched) : Mat!Known[i] \in [id : Mat!Ids, slug : MatSlugs]
    BY <1>1, <1>2, <1>3
  <2>. QED
    BY <1>1, <2>1, <2>2 DEF MatKnown
<1>5. MatPure(Mat!Known)
  BY <1>2 DEF MatPure
<1>6. MatApart(Mat!Known)
  BY <1>1, <1>2 DEF MatApart
<1>7. \A e \in 1..4 : source[e] # None => Mat!Has(Mat!Known, source[e])
  BY <1>1, <1>2 DEF Mat!Has
<1>8. source \in [1..4 -> Mat!Ids \cup {None}]
  BY <1>1, <1>3
<1>. DEFINE acc == [known |-> Mat!Known, stream |-> source]
<1>9. acc.known = Mat!Known /\ acc.stream = source
  OBVIOUS
<1>10. acc \in MatAcc
  BY <1>4, <1>8 DEF MatAcc
<1>. HIDE DEF acc
<1>11. MatHeld(acc)
  BY <1>7, <1>9 DEF MatHeld
<1>12. MatNumbered(source, {}) /\ MatFounded(source)
  BY DEF MatNumbered, MatFounded
<1>. QED
  BY <1>5, <1>6, <1>9, <1>10, <1>11, <1>12 DEF MatGood, acc

LEMMA MatSyncs ==
  ASSUME Mat!TypeOK, NEW order, order \in AnyOrder({1, 2, 3}) \cup AnyOrder({1, 2, 4})
  PROVE  MatGood(Mat!Synced(order), Mat!ToSet(order)) /\ Mat!ToSet(order) \subseteq 1..4
<1>1. order \in [1..3 -> 1..4] /\ DOMAIN order = 1..3
  BY DEF AnyOrder
<1>2. Len(order) = 3
  <2>1. order \in Seq(1..4)
    BY <1>1, SeqDef
  <2>2. Len(order) \in Nat /\ 1..Len(order) = 1..3
    BY <1>1, <2>1
  <2>3. 3 \in 1..Len(order) /\ ~(4 \in 1..Len(order))
    BY <2>2
  <2>4. \A n \in Nat : 3 \in 1..n /\ ~(4 \in 1..n) => n = 3
    OBVIOUS
  <2>. QED
    BY <2>2, <2>3, <2>4, Zenon
<1>. DEFINE first == [known |-> Mat!Known, stream |-> source]
            Is(f) == f = [n \in 0..Len(order) |->
              IF n = 0 THEN [known |-> Mat!Known, stream |-> source]
              ELSE LET e == order[n] acc == f[n - 1] id == Mat!MatchedId(e, acc.known)
                   IN  [known |-> Mat!Learned(acc.known, id, Named[e]),
                        stream |-> [acc.stream EXCEPT ![e] = id]]]
            after == CHOOSE f : Is(f)
            A == {acc \in MatAcc : MatGood(acc, {})}
            advance == [n \in 1..3 |-> [acc \in A |-> MatAdvance(order[n], acc)]]
<1>3. \A acc : \A done : MatGood(acc, done) => MatGood(acc, {})
  BY Zenon DEF MatGood, MatNumbered
<1>4. \A n \in 1..3 : \A acc \in A :
        advance[n][acc] = MatAdvance(order[n], acc) /\ MatAdvance(order[n], acc) \in A
  <2>. SUFFICES ASSUME NEW n \in 1..3, NEW acc \in A
                PROVE  MatAdvance(order[n], acc) \in A
    OBVIOUS
  <2>1. order[n] \in 1..4 /\ MatGood(acc, {}) /\ {} \in SUBSET (1..4)
    BY <1>1
  <2>2. MatGood(MatAdvance(order[n], acc), {} \cup {order[n]})
    BY <2>1, MatAdvances
  <2>3. MatGood(MatAdvance(order[n], acc), {})
    BY <1>3, <2>2
  <2>. QED
    BY <2>3 DEF MatGood
<1>5. first \in A
  BY MatKnows DEF MatGood
<1>. HIDE DEF advance, first, A
<1>6. PICK f : CountsUp(3, A, first, advance, f)
  <2>1. GoesOn(3, A, advance)
    BY <1>4 DEF GoesOn
  <2>. QED
    BY <1>5, <2>1, RecursionOnNumbers
<1>7. \A n \in 0..3 : f[n] = IF n = 0 THEN first ELSE MatAdvance(order[n], f[n - 1])
  <2>1. ASSUME NEW n \in 0..3, n # 0 PROVE f[n] = MatAdvance(order[n], f[n - 1])
    <3>1. n \in 1..3 /\ n - 1 \in 0..3
      BY <2>1
    <3>2. f[n - 1] \in A /\ f[n] = advance[n][f[n - 1]]
      BY <1>6, <2>1, <3>1 DEF CountsUp
    <3>. QED
      BY <1>4, <3>1, <3>2
  <2>2. f[0] = first
    BY <1>6 DEF CountsUp
  <2>. QED
    BY <2>1, <2>2
<1>8. Is(f)
  <2>1. f = [n \in 0..Len(order) |-> f[n]]
    BY <1>2, <1>6 DEF CountsUp
  <2>2. \A n \in 0..Len(order) : f[n] =
              IF n = 0 THEN [known |-> Mat!Known, stream |-> source]
              ELSE LET e == order[n] acc == f[n - 1] id == Mat!MatchedId(e, acc.known)
                   IN  [known |-> Mat!Learned(acc.known, id, Named[e]),
                        stream |-> [acc.stream EXCEPT ![e] = id]]
    BY <1>2, <1>7, Zenon DEF MatAdvance, first
  <2>. QED
    BY <2>1, <2>2, Zenon
<1>9. Is(after)
  <2>1. \E g : Is(g)
    BY <1>8
  <2>. HIDE DEF Is
  <2>. QED
    BY <2>1, Zenon
<1>10. Mat!Synced(order) = after[3]
  <2>1. Mat!Synced(order) = after[Len(order)]
    BY Zenon DEF Mat!Synced
  <2>. HIDE DEF after
  <2>. QED
    BY <1>2, <2>1
<1>11. \A n \in 0..3 : after[n] = IF n = 0 THEN first ELSE MatAdvance(order[n], after[n - 1])
  <2>1. \A n \in 0..Len(order) : after[n] =
          IF n = 0 THEN first ELSE MatAdvance(order[n], after[n - 1])
    <3>. HIDE DEF after
    <3>. QED
      BY <1>9, Zenon DEF MatAdvance, first
  <2>. HIDE DEF after
  <2>. QED
    BY <1>2, <2>1
<1>. HIDE DEF after, Is
<1>12. MatGood(after[0], {})
  BY <1>11, MatKnows DEF first
<1>13. /\ after[1] = MatAdvance(order[1], after[0]) /\ after[2] = MatAdvance(order[2], after[1])
       /\ after[3] = MatAdvance(order[3], after[2])
  <2>1. /\ after[1] = MatAdvance(order[1], after[1 - 1])
        /\ after[2] = MatAdvance(order[2], after[2 - 1])
        /\ after[3] = MatAdvance(order[3], after[3 - 1])
    BY <1>11
  <2>. QED
    BY <2>1
<1>14. order[1] \in 1..4 /\ order[2] \in 1..4 /\ order[3] \in 1..4
  BY <1>1
<1>. DEFINE one == {order[1]}
            two == {order[1], order[2]}
            three == {order[1], order[2], order[3]}
<1>15. MatGood(after[1], one)
  <2>1. {} \in SUBSET (1..4) /\ one = {} \cup {order[1]}
    OBVIOUS
  <2>. HIDE DEF one
  <2>2. order[1] \in 1..4 /\ {} \in SUBSET (1..4) /\ MatGood(after[0], {})
    BY <1>12, <1>14, <2>1
  <2>3. MatGood(MatAdvance(order[1], after[0]), {} \cup {order[1]})
    BY <2>2, MatAdvances, Zenon
  <2>. QED
    BY <1>13, <2>1, <2>3, Zenon
<1>16. MatGood(after[2], two)
  <2>1. one \in SUBSET (1..4) /\ two = one \cup {order[2]}
    BY <1>14
  <2>. HIDE DEF one, two
  <2>2. order[2] \in 1..4 /\ one \in SUBSET (1..4) /\ MatGood(after[1], one)
    BY <1>15, <1>14, <2>1
  <2>3. MatGood(MatAdvance(order[2], after[1]), one \cup {order[2]})
    BY <2>2, MatAdvances, Zenon
  <2>. QED
    BY <1>13, <2>1, <2>3, Zenon
<1>17. MatGood(after[3], three)
  <2>1. two \in SUBSET (1..4) /\ three = two \cup {order[3]}
    BY <1>14
  <2>. HIDE DEF two, three
  <2>2. order[3] \in 1..4 /\ two \in SUBSET (1..4) /\ MatGood(after[2], two)
    BY <1>16, <1>14, <2>1
  <2>3. MatGood(MatAdvance(order[3], after[2]), two \cup {order[3]})
    BY <2>2, MatAdvances, Zenon
  <2>. QED
    BY <1>13, <2>1, <2>3, Zenon
<1>18. Mat!ToSet(order) = three
  BY <1>1 DEF Mat!ToSet
<1>. QED
  BY <1>10, <1>14, <1>17, <1>18

LEMMA MatInit == Mat!Init => MatInv
<1>. SUFFICES ASSUME Mat!Init PROVE MatInv
  OBVIOUS
<1>1. matched = << >> /\ source = [e \in 1..4 |-> None] /\ synced = {}
  BY Zenon DEF Mat!Init
<1>2. Mat!IsInjective(matched)
  BY <1>1 DEF Mat!IsInjective
<1>3. matched \in Seq(Mat!Ids) /\ synced \subseteq 1..4
      /\ source \in [1..4 -> Mat!ToSet(matched) \cup {None}]
  BY <1>1
<1>. QED
  BY <1>1, <1>2, <1>3 DEF MatInv, Mat!TypeOK

LEMMA MatRests == MatInv /\ UNCHANGED matcherVars => MatInv'
<1>. SUFFICES ASSUME MatInv, UNCHANGED matcherVars PROVE MatInv'
  OBVIOUS
<1>1. matched' = matched /\ source' = source /\ synced' = synced
  BY Zenon DEF matcherVars
<1>2. Mat!TypeOK'
  BY <1>1, Zenon DEF MatInv, Mat!TypeOK, Mat!IsInjective, Mat!ToSet
<1>. QED
  BY <1>1, <1>2, Zenon DEF MatInv

LEMMA MatStep ==
  ASSUME MatInv, Mat!Next
  PROVE  MatInv' /\ MatFounded(source')
<1>1. PICK order \in AnyOrder({1, 2, 3}) \cup AnyOrder({1, 2, 4}) : Mat!Sync(order)
  BY Zenon DEF Mat!Next
<1>2. PICK after : after = Mat!Synced(order)
  OBVIOUS
<1>3. /\ matched' = [i \in DOMAIN after.known |-> after.known[i].id]
      /\ source' = after.stream /\ synced' = Mat!ToSet(order)
  BY <1>1, <1>2, Zenon DEF Mat!Sync
<1>4. MatGood(after, synced') /\ synced' \subseteq 1..4
  BY <1>1, <1>2, <1>3, MatSyncs DEF MatInv
<1>5. /\ after.known \in Seq([id : Mat!Ids, slug : MatSlugs])
      /\ after.stream \in [1..4 -> Mat!Ids \cup {None}]
      /\ MatApart(after.known) /\ MatHeld(after)
      /\ MatNumbered(after.stream, synced') /\ MatFounded(after.stream)
  BY <1>4 DEF MatGood, MatAcc, MatKnown
<1>6. matched' \in Seq(Mat!Ids) /\ DOMAIN matched' = DOMAIN after.known
      /\ \A i \in DOMAIN matched' : matched'[i] = after.known[i].id
  <2>0. PICK heard : heard = after.known
    OBVIOUS
  <2>1. DOMAIN after.known = 1..Len(after.known) /\ Len(after.known) \in Nat
    BY <1>5, <2>0, SeqIs
  <2>2. \A i \in 1..Len(after.known) : after.known[i] \in [id : Mat!Ids, slug : MatSlugs]
    BY <1>5, <2>0, SeqIs
  <2>3. \A i \in 1..Len(after.known) : after.known[i].id \in Mat!Ids
    BY <2>2
  <2>4. matched' = [i \in 1..Len(after.known) |-> after.known[i].id]
    BY <1>3, <2>1
  <2>. QED
    BY <2>1, <2>3, <2>4
<1>7. Mat!IsInjective(matched)'
  BY <1>5, <1>6 DEF MatApart, Mat!IsInjective
<1>8. source' \in [1..4 -> Mat!ToSet(matched') \cup {None}]
  BY <1>3, <1>5, <1>6 DEF MatHeld, Mat!Has, Mat!ToSet
<1>9. Mat!TypeOK'
  BY <1>4, <1>6, <1>7, <1>8, Zenon DEF Mat!TypeOK, Mat!IsInjective, Mat!ToSet
<1>10. \A f \in synced' : Untagged(f) => Mat!DigitRuns(source'[f].slug) = Mat!DigitRuns(Named[f])
  BY <1>3, <1>5 DEF MatNumbered
<1>. QED
  BY <1>3, <1>5, <1>9, <1>10, Zenon DEF MatInv

\* What is merged by name says the same numbers.
LEMMA MatApartStays == MatInv => Mat!TypeOK /\ Mat!SiblingsStayApart
BY Zenon DEF MatInv, Mat!SiblingsStayApart, Mat!Merged, Mat!Untagged, Untagged

-----------------------------------------------------------------------------
(* The VOD catalogue: its types.                                            *)

CatSyncs == [phase : {"idle", "ask", "write"}, kind : Cat!Kinds,
             unnamed : SUBSET Cat!Kinds, heard : SUBSET Cat!Kinds,
             told : [Cat!Items -> Cat!Categories \cup {"none"}], todo : SUBSET Cat!Items]

LEMMA CatTypes ==
  Cat!TypeOK <=> /\ offered \in [Cat!Items -> Cat!Categories \cup {"none"}]
                 /\ vodRows \in [Cat!Items -> Cat!Categories \cup {"NULL", "none"}]
                 /\ vodSync \in [Syncs -> CatSyncs] /\ moves \in 0..1
BY Zenon DEF Cat!TypeOK, CatSyncs

LEMMA CatResting == Cat!Resting \in CatSyncs
BY DEF Cat!Resting, Cat!Unlisted, CatSyncs, Cat!Kinds, Cat!Categories

LEMMA CatInit == Cat!Init => Cat!TypeOK
<1>. SUFFICES ASSUME Cat!Init PROVE Cat!TypeOK
  OBVIOUS
<1>1. vodSync \in [Syncs -> CatSyncs]
  BY CatResting DEF Cat!Init
<1>2. offered \in [Cat!Items -> Cat!Categories \cup {"none"}] /\ moves \in 0..1
  BY DEF Cat!Init, Cat!Categories
<1>3. vodRows \in [Cat!Items -> Cat!Categories \cup {"NULL", "none"}]
  BY DEF Cat!Init, Cat!Categories, Cat!Unlisted
<1>. QED
  BY <1>1, <1>2, <1>3, CatTypes, Zenon

LEMMA CatStep == Cat!TypeOK /\ Cat!Next => Cat!TypeOK'
<1>. SUFFICES ASSUME Cat!TypeOK, Cat!Next PROVE Cat!TypeOK'
  OBVIOUS
<1>0. /\ offered \in [Cat!Items -> Cat!Categories \cup {"none"}]
      /\ vodRows \in [Cat!Items -> Cat!Categories \cup {"NULL", "none"}]
      /\ vodSync \in [Syncs -> CatSyncs] /\ moves \in 0..1
  BY CatTypes, Zenon
<1>q. SUFFICES
        /\ offered' \in [Cat!Items -> Cat!Categories \cup {"none"}]
        /\ vodRows' \in [Cat!Items -> Cat!Categories \cup {"NULL", "none"}]
        /\ vodSync' \in [Syncs -> CatSyncs] /\ moves' \in 0..1
  BY Zenon DEF Cat!TypeOK, CatSyncs
<1>1. ASSUME NEW r \in Syncs, NEW s \in CatSyncs, vodSync' = [vodSync EXCEPT ![r] = s]
      PROVE  vodSync' \in [Syncs -> CatSyncs]
  BY <1>0, <1>1
<1>2. ASSUME NEW r \in Syncs, Cat!Begin(r)
      PROVE  vodSync' \in [Syncs -> CatSyncs] /\ UNCHANGED <<offered, vodRows, moves>>
  <2>1. PICK heard \in {{}, {"movie"}, Cat!Kinds} : \E unnamed \in SUBSET heard :
          /\ vodSync' = [vodSync EXCEPT ![r] = [Cat!Resting EXCEPT !.phase = "ask",
                                                  !.unnamed = unnamed, !.heard = heard]]
          /\ UNCHANGED <<offered, vodRows, moves>>
    BY <1>2, Zenon DEF Cat!Begin
  <2>2. PICK unnamed \in SUBSET heard :
          /\ vodSync' = [vodSync EXCEPT ![r] = [Cat!Resting EXCEPT !.phase = "ask",
                                                  !.unnamed = unnamed, !.heard = heard]]
          /\ UNCHANGED <<offered, vodRows, moves>>
    BY <2>1, Zenon
  <2>3. heard \subseteq Cat!Kinds /\ unnamed \subseteq Cat!Kinds
    BY <2>1, <2>2 DEF Cat!Kinds
  <2>4. [Cat!Resting EXCEPT !.phase = "ask", !.unnamed = unnamed, !.heard = heard] \in CatSyncs
    BY <2>3 DEF Cat!Resting, Cat!Unlisted, CatSyncs, Cat!Kinds, Cat!Categories
  <2>. QED
    BY <1>1, <2>2, <2>4
<1>3. ASSUME NEW r \in Syncs, Cat!Hears(r)
      PROVE  vodSync' \in [Syncs -> CatSyncs] /\ UNCHANGED <<offered, vodRows, moves>>
  <2>. DEFINE told1 == [t \in Cat!Items |-> IF t \in Cat!Of(vodSync[r].kind) THEN offered[t]
                                            ELSE "none"]
              todo1 == {t \in Cat!Items : told1[t] # "none"}
  <2>1. /\ vodSync' = [vodSync EXCEPT ![r].phase = "write", ![r].told = told1, ![r].todo = todo1]
        /\ UNCHANGED <<offered, vodRows, moves>>
    BY <1>3, Zenon DEF Cat!Hears
  <2>2. told1 \in [Cat!Items -> Cat!Categories \cup {"none"}]
    BY <1>0
  <2>3. todo1 \in SUBSET Cat!Items
    OBVIOUS
  <2>. HIDE DEF told1, todo1
  <2>4. vodSync' = [vodSync EXCEPT ![r] = [vodSync[r] EXCEPT !.phase = "write", !.told = told1,
                                                               !.todo = todo1]]
    BY <1>0, <2>1 DEF CatSyncs
  <2>5. [vodSync[r] EXCEPT !.phase = "write", !.told = told1, !.todo = todo1] \in CatSyncs
    <3>1. vodSync[r] \in CatSyncs
      BY <1>0
    <3>. QED
      BY <2>2, <2>3, <3>1 DEF CatSyncs
  <2>. QED
    BY <1>1, <2>1, <2>4, <2>5
<1>4. ASSUME NEW r \in Syncs, Cat!Throws(r)
      PROVE  vodSync' \in [Syncs -> CatSyncs] /\ UNCHANGED <<offered, vodRows, moves>>
  BY <1>1, <1>4, CatResting, Zenon DEF Cat!Throws
<1>5. ASSUME NEW r \in Syncs, Cat!Write(r)
      PROVE  /\ vodSync' \in [Syncs -> CatSyncs] /\ UNCHANGED <<offered, moves>>
             /\ vodRows' \in [Cat!Items -> Cat!Categories \cup {"NULL", "none"}]
  <2>1. vodSync[r] \in CatSyncs
    BY <1>0
  <2>2. UNCHANGED <<offered, moves>>
    BY <1>5, Zenon DEF Cat!Write
  <2>3. CASE vodSync[r].todo # {}
    <3>1. vodRows' = Cat!Upserted(r)
          /\ vodSync' = [vodSync EXCEPT ![r].todo = vodSync[r].todo \ Cat!Batch(r)]
      BY <1>5, <2>3, Zenon DEF Cat!Write
    <3>2. vodSync' \in [Syncs -> CatSyncs]
      <4>1. [vodSync[r] EXCEPT !.todo = vodSync[r].todo \ Cat!Batch(r)] \in CatSyncs
        BY <2>1 DEF CatSyncs
      <4>2. vodSync' = [vodSync EXCEPT ![r] = [vodSync[r] EXCEPT !.todo =
                                                 vodSync[r].todo \ Cat!Batch(r)]]
        BY <3>1
      <4>. QED
        BY <1>0, <4>1, <4>2
    <3>3. ASSUME NEW t \in Cat!Items
          PROVE  Cat!Category(r, t) \in Cat!Categories \cup {"NULL", "none"}
      <4>1. vodSync[r].told[t] \in Cat!Categories \cup {"none"}
        BY <2>1 DEF CatSyncs
      <4>. QED
        BY <4>1 DEF Cat!Category
    <3>4. Cat!Upserted(r) \in [Cat!Items -> Cat!Categories \cup {"NULL", "none"}]
      BY <1>0, <3>3 DEF Cat!Upserted
    <3>. QED
      BY <2>2, <3>1, <3>2, <3>4
  <2>4. CASE vodSync[r].todo = {}
    <3>. DEFINE s == [vodSync[r] EXCEPT !.phase = "ask", !.kind = "series",
                        !.told = Cat!Unlisted, !.unnamed = vodSync[r].unnamed \ {"movie"}]
    <3>1. /\ vodRows' = vodRows
          /\ vodSync' = [vodSync EXCEPT ![r] = IF vodSync[r].kind = "series" THEN Cat!Resting
                                               ELSE s]
      BY <1>5, <2>4, Zenon DEF Cat!Write
    <3>2. s \in CatSyncs
      BY <2>1 DEF CatSyncs, Cat!Unlisted, Cat!Kinds
    <3>. HIDE DEF s
    <3>3. vodSync' \in [Syncs -> CatSyncs]
      BY <1>0, <3>1, <3>2, CatResting
    <3>. QED
      BY <1>0, <2>2, <3>1, <3>3
  <2>. QED
    BY <2>3, <2>4
<1>6. ASSUME Cat!Restart
      PROVE  vodSync' \in [Syncs -> CatSyncs] /\ UNCHANGED <<offered, vodRows>> /\ moves' \in 0..1
  <2>1. /\ vodSync' = [r \in Syncs |-> Cat!Resting] /\ UNCHANGED <<offered, vodRows>>
        /\ moves < 1 /\ moves' = moves + 1
    BY <1>6, Zenon DEF Cat!Restart
  <2>. QED
    BY <1>0, <2>1, CatResting
<1>7. ASSUME NEW t \in Cat!Items, Cat!ProviderChanges(t)
      PROVE  /\ offered' \in [Cat!Items -> Cat!Categories \cup {"none"}] /\ moves' \in 0..1
             /\ UNCHANGED <<vodRows, vodSync>>
  <2>1. PICK c \in (Cat!Categories \cup {"none"}) \ {offered[t]} :
          /\ moves < 1 /\ moves' = moves + 1 /\ offered' = [offered EXCEPT ![t] = c]
          /\ UNCHANGED <<vodRows, vodSync>>
    BY <1>7, Zenon DEF Cat!ProviderChanges
  <2>. QED
    BY <1>0, <2>1
<1>. QED
  BY <1>0, <1>2, <1>3, <1>4, <1>5, <1>6, <1>7, Zenon DEF Cat!Next, Cat!Step

LEMMA CatRests == Cat!TypeOK /\ UNCHANGED catalogVars => Cat!TypeOK'
BY Zenon DEF Cat!TypeOK, catalogVars

-----------------------------------------------------------------------------
(* The parts together: one moves, the others rest.                         *)

UpkeepInv ==
  /\ IngInv /\ JobInv /\ MirInv /\ Eps1!TypeOK /\ Rec!TypeOK /\ Gp!TypeOK /\ TunInv
  /\ EpgInv /\ FavInv /\ LivInv /\ VerInv /\ DogInv /\ MatInv /\ Cat!TypeOK

LEMMA UpkeepStarts == AllInit => UpkeepInv
BY IngInit, JobInit, MirInit, EpsInit, RecInit, GpInit, TunInit, EpgInit, FavInit, LivInit,
   VerInit, DogInit, MatInit, CatInit, Zenon DEF AllInit, UpkeepInv

LEMMA UpkeepSteps == UpkeepInv /\ [AllNext]_allVars => UpkeepInv'
<1>. SUFFICES ASSUME UpkeepInv, [AllNext]_allVars PROVE UpkeepInv'
  OBVIOUS
<1>. USE DEF UpkeepInv, AllNext, allVars
<1>1. IngInv'
  BY IngStep, IngRests, Zenon
<1>2. JobInv'
  BY JobStep, JobRests, Zenon
<1>3. MirInv'
  BY MirStep, MirRests, Zenon
<1>4. Eps1!TypeOK'
  BY EpsStep, EpsRests, Zenon
<1>5. Rec!TypeOK'
  BY RecStep, RecRests, Zenon
<1>6. Gp!TypeOK'
  BY GpStep, GpRests, Zenon
<1>7. TunInv'
  BY TunStep, TunRests, Zenon
<1>8. EpgInv'
  BY EpgStep, EpgRests, Zenon
<1>9. FavInv'
  BY FavStep, FavRests, Zenon
<1>10. LivInv'
  BY LivStep, LivRests, Zenon
<1>11. VerInv'
  BY VerStep, VerRests, Zenon
<1>12. DogInv'
  BY DogStep, DogRests, Zenon
<1>13. MatInv'
  BY MatStep, MatRests, Zenon
<1>14. Cat!TypeOK'
  BY CatStep, CatRests, Zenon
<1>. QED
  BY <1>1, <1>2, <1>3, <1>4, <1>5, <1>6, <1>7, <1>8, <1>9, <1>10, <1>11, <1>12, <1>13, <1>14

\* The invariants of all the parts hold whenever one of them moves and the others rest.
THEOREM UpkeepKeepsItsInvariants == AllSpec => []UpkeepInv
<1>1. AllInit => UpkeepInv
  BY UpkeepStarts
<1>2. UpkeepInv /\ [AllNext]_allVars => UpkeepInv'
  BY UpkeepSteps
<1>. QED
  BY <1>1, <1>2, PTL DEF AllSpec

\* All variables of all parts have their types.
THEOREM UpkeepTypes == AllSpec => []TypesOK
<1>1. UpkeepInv => TypesOK
  BY JobOne, LivMarks, Zenon
     DEF UpkeepInv, IngInv, MirInv, TunInv, EpgInv, FavInv, VerInv, DogInv, MatInv, TypesOK
<1>. QED
  BY <1>1, UpkeepKeepsItsInvariants, PTL

\* What is recorded as done was done: one number per channel, one big job at a time, no
\* fingerprint before its rows were shown, a snapshot that is the table's, marks that were
\* heard, verdicts that were earned, no stray helper, no untold exit, no merged siblings.
\* Programmes do not return to an earlier version (without this the fingerprint may lie).
THEOREM RecordsStayTrue == ASSUME ~REVERTS PROVE AllSpec => []RecordsAreTrue
<1>1. AllSpec => []GpOrder
  <2>1. AllInit => GpOrder
    BY GpInit, Zenon DEF AllInit
  <2>2. UpkeepInv /\ GpOrder /\ [AllNext]_allVars => GpOrder'
    BY GpStep, GpRests, Zenon DEF UpkeepInv, AllNext, allVars
  <2>. QED
    BY <2>1, <2>2, UpkeepKeepsItsInvariants, PTL DEF AllSpec
<1>2. UpkeepInv /\ GpOrder => RecordsAreTrue
  <2>. SUFFICES ASSUME UpkeepInv, GpOrder PROVE RecordsAreTrue
    OBVIOUS
  <2>1. Ing!NumbersAreDistinct
    BY Zenon DEF UpkeepInv, IngInv, NumbersApart, Ing!NumbersAreDistinct
  <2>2. Job!OneBigJob /\ Gp!KnownWasShown /\ Liv!MarksAreHeard
    BY JobOne, GpShown, LivMarks, Zenon DEF UpkeepInv
  <2>3. Epg!SnapshotIsTrue /\ Tun!NoHelperStrays /\ Dog!ExitIsTold
    BY Zenon DEF UpkeepInv, EpgInv, TunInv, DogInv
  <2>4. Ver!VerdictIsEarned
    BY VerIsEarned, Zenon DEF UpkeepInv
  <2>5. Mat!SiblingsStayApart
    BY MatApartStays, Zenon DEF UpkeepInv
  <2>. QED
    BY <2>1, <2>2, <2>3, <2>4, <2>5, Zenon DEF RecordsAreTrue
<1>. QED
  BY <1>1, <1>2, UpkeepKeepsItsInvariants, PTL

\* A sync moves no number, undoes no hide by hand, takes no stream of a watched channel and
\* leaves every stream with the channel that it gave its name.
THEOREM SyncsAreFaithful == AllSpec => SyncIsFaithful
<1>1. UpkeepInv /\ [AllNext]_allVars
        => [\A n \in Names : number[n] # 0 /\ number'[n] # number[n] => Ing!Reflow]_(Ing!vars)
  BY IngStep, Zenon DEF UpkeepInv, AllNext, allVars, ingestVars, Ing!vars
<1>2. UpkeepInv /\ [AllNext]_allVars
        => [\A k \in Ing!Kinds : Ing!Apply(k) => \A n \in Ing!Rows(category') :
              IF isHidden[n] /\ hiddenReason[n] = "null" THEN isHidden'[n]
              ELSE isHidden'[n] = (n \notin Ing!Streamed(stream')
                                   \/ category'[n] \in hiddenCategories)]_(Ing!vars)
  BY IngGuide, Zenon DEF UpkeepInv
<1>3. UpkeepInv /\ [AllNext]_allVars
        => [\A e \in Entries : stream[e] \in watched => stream'[e] # 0]_(Ing!vars)
  BY IngStep, Zenon DEF UpkeepInv, AllNext, allVars, ingestVars, Ing!vars
<1>4. UpkeepInv /\ [AllNext]_allVars
        => [\A e \in 1..4 : Mat!Untagged(e) /\ source[e] = Mat!Id(Named[e], Countries[e])
              => source'[e] = source[e]]_(Mat!vars)
  <2>1. MatFounded(source')
          => \A e \in 1..4 : Mat!Untagged(e) /\ source[e] = Mat!Id(Named[e], Countries[e])
               => source'[e] = source[e]
    BY DEF MatFounded, Own, Untagged, Mat!Untagged
  <2>. QED
    BY <2>1, MatStep, Zenon DEF UpkeepInv, AllNext, allVars, matcherVars, Mat!vars
<1>5. AllSpec => Ing!NumbersStick
  BY <1>1, UpkeepKeepsItsInvariants, PTL DEF AllSpec, Ing!NumbersStick
<1>6. AllSpec => Ing!SyncedGuide
  BY <1>2, UpkeepKeepsItsInvariants, PTL DEF AllSpec, Ing!SyncedGuide
<1>7. AllSpec => Ing!WatchedKeepsStreams
  BY <1>3, UpkeepKeepsItsInvariants, PTL DEF AllSpec, Ing!WatchedKeepsStreams
<1>8. AllSpec => Mat!FoundersStay
  BY <1>4, UpkeepKeepsItsInvariants, PTL DEF AllSpec, Mat!FoundersStay
<1>. QED
  BY <1>5, <1>6, <1>7, <1>8, Zenon DEF SyncIsFaithful

\* Nothing wanted is lost to a partial answer or a concurrent run: mirrored titles, cached
\* episodes, guide rows of the window, favourites.
THEOREM WantedThingsStay == AllSpec => NothingWantedIsLost
<1>1. UpkeepInv /\ [AllNext]_allVars
        => [\A r \in Rebuilds : Mir!Prune(r) => steady[r] \cap files \subseteq files']_(Mir!vars)
  BY MirPrunes, Zenon DEF UpkeepInv
<1>2. UpkeepInv /\ [AllNext]_allVars
        => [/\ Eps1!Cached # {} => \E e \in Eps : firstSeen'[e] # 0
            /\ \A e \in Eps1!Cached : firstSeen'[e] \in {0, firstSeen[e]}]_(Eps1!vars)
  BY EpsStep, EpsUnchanged, Zenon
     DEF UpkeepInv, AllNext, allVars, episodeVars, EpsKept, Eps1!vars
<1>3. UpkeepInv /\ [AllNext]_allVars
        => [/\ \A s \in Slots : table[s] # None /\ ~Epg!Ended(s) => table'[s] # None
            /\ Len(queue') < Len(queue) =>
                 \A s \in Slots : said[s] # None /\ ~Epg!Ended(s) => table'[s] = said[s]
           ]_(Epg!vars)
  BY EpgStep, Zenon DEF UpkeepInv, AllNext, allVars, guideVars, EpgStands, Epg!vars
<1>4. UpkeepInv /\ [AllNext]_allVars
        => [\A s \in Hosts : rows[s] \cap kept[s] \subseteq rows'[s]]_(Fav!vars)
  BY FavStep, Zenon DEF UpkeepInv, AllNext, allVars, favoriteVars, Fav!vars
<1>. QED
  BY <1>1, <1>2, <1>3, <1>4, UpkeepKeepsItsInvariants, PTL
     DEF AllSpec, NothingWantedIsLost, Mir!WantedIsKept, Eps1!CacheIsKept, Epg!GuideStands,
         Fav!NothingIsErased
=============================================================================
