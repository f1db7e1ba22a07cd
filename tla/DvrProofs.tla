------------------------------ MODULE DvrProofs ------------------------------
(***************************************************************************)
(* Theorems about Dvr for any programmes and windows, number of rows and   *)
(* writers, limits, storage cap, and any number of crashes and of updates  *)
(* that fail.                                                              *)
(***************************************************************************)
EXTENDS Dvr, FiniteSetTheorems, FunctionTheorems, WellFoundedInduction, TLAPS

\* A row that is in the table books a programme; so does one that a writer is at work on,
\* which is recording unless it was deleted under its writer.  What the writer has flushed is
\* in the file of the row, and the entry of a row that still receives is that writer's.
WritersKnowTheirRow ==
  /\ \A i \in Ids : status[i] # "none" => programme[i] # Free
  /\ \A w \in Writers : writer[w].phase = "writing" =>
       LET i == writer[w].id IN
         /\ i \in Ids /\ programme[i] # Free /\ status[i] \in {"recording", "none"}
         /\ writer[w].real /\ status[i] = "recording" => file[i] = "real"
         /\ writer[w].subscribed => active[i] = w
  /\ \A w \in Writers : writer[w].phase = "idle" => ~writer[w].subscribed

\* A row is recording because a writer is at work on it.
WriterAtWork ==
  \A i \in Ids : running /\ status[i] = "recording"
    => i \in unclosed \/ \E w \in Writers : writer[w].phase = "writing" /\ writer[w].id = i

\* What a failed start left behind.
Abandoned == {w \in Writers : writer[w].phase = "abandoned"}

\* The entries stay within the limit; what is not an entry any more was a failed update.
CountsHold == /\ Cardinality(Active(active)) <= maxConcurrent
              /\ Cardinality(Abandoned) <= faults

DvrInv == /\ TypeOK /\ WritersKnowTheirRow /\ OneWriterPerFile /\ WriterAtWork
          /\ CountsHold /\ CompletedIsPlayable

\* A verdict stays, or its row is deleted.
VerdictsStay ==
  \A i \in Ids : status[i] \in {"completed", "failed"} => status'[i] \in {status[i], "none"}

-----------------------------------------------------------------------------
(* Finite sets of rows and writers.                                        *)

LEMMA RowsAreFinite ==
  ASSUME NEW S, S \subseteq Ids
  PROVE  IsFiniteSet(S) /\ Cardinality(S) \in Nat
<1>1. IsFiniteSet(Ids)
  BY FS_Interval, DvrAssumption DEF Ids
<1>. QED
  BY <1>1, FS_Subset, FS_CardinalityType

LEMMA OneMore ==
  ASSUME NEW S, IsFiniteSet(S), NEW x
  PROVE  IsFiniteSet(S \cup {x}) /\ Cardinality(S \cup {x}) <= Cardinality(S) + 1
<1>1. /\ IsFiniteSet(S \cup {x})
      /\ Cardinality(S \cup {x}) = IF x \in S THEN Cardinality(S) ELSE Cardinality(S) + 1
  BY FS_AddElement
<1>2. Cardinality(S) \in Nat
  BY FS_CardinalityType
<1>. QED
  BY <1>1, <1>2

LEMMA WritersAreFinite ==
  ASSUME NEW S, S \subseteq Writers
  PROVE  IsFiniteSet(S) /\ Cardinality(S) \in Nat
BY FS_Subset, FS_CardinalityType, DvrAssumption

LEMMA LargestExists ==
  ASSUME NEW n \in Nat, NEW T, T \subseteq 0 .. n, T # {}
  PROVE  \E i \in T : \A j \in T : j <= i
<1> DEFINE D == {n - i : i \in T}
<1>1. D \subseteq Nat /\ D # {}
  <2>1. \A i \in T : n - i \in Nat
    OBVIOUS
  <2>2. PICK i \in T : TRUE
    OBVIOUS
  <2>3. n - i \in D
    BY <2>2
  <2>. QED
    BY <2>1, <2>3
<1>2. PICK x \in D : \A y \in D : ~ (<<y, x>> \in OpToRel(<, Nat))
  BY <1>1, NatLessThanWellFounded, WFMin
<1>3. PICK i \in T : x = n - i
  OBVIOUS
<1>4. ASSUME NEW j \in T PROVE j <= i
  <2>1. n - j \in D /\ n - j \in Nat /\ n - i \in Nat
    BY <1>1, <1>3
  <2>2. ~ (<<n - j, n - i>> \in OpToRel(<, Nat))
    BY <1>2, <1>3, <2>1
  <2>3. ~ (n - j < n - i)
    BY <2>1, <2>2 DEF OpToRel
  <2>. QED
    BY <2>3
<1>. QED
  BY <1>4

\* Rows that book a programme have a last one in the order of a tick.
LEMMA LastRowExists ==
  ASSUME NEW db, NEW S, S \subseteq Ids, S # {}, \A i \in S : db.programme[i] \in Programmes
  PROVE  \E i \in S : \A j \in S : j # i => Before(db, j, i)
<1> DEFINE Below(i) == {j \in S : Before(db, j, i)}
           Depths == {Cardinality(Below(i)) : i \in S}
           n == Cardinality(S)
<1>1. IsFiniteSet(S) /\ n \in Nat
  BY RowsAreFinite
<1>2. \A i \in S : /\ IsFiniteSet(Below(i)) /\ Cardinality(Below(i)) \in 0 .. n
  <2> SUFFICES ASSUME NEW i \in S
               PROVE  /\ IsFiniteSet(Below(i)) /\ Cardinality(Below(i)) \in 0 .. n
    OBVIOUS
  <2>1. Below(i) \in SUBSET S /\ Below(i) \subseteq Ids
    OBVIOUS
  <2>2. IsFiniteSet(Below(i)) /\ Cardinality(Below(i)) <= n /\ Cardinality(Below(i)) \in Nat
    BY <1>1, <2>1, FS_Subset, RowsAreFinite
  <2>. QED
    BY <1>1, <2>2
<1>3. \A i \in S : StartOf(db, i) \in Nat /\ i \in Nat
  BY DvrAssumption DEF StartOf, Ids
<1>4. PICK i \in S : \A j \in S : Cardinality(Below(j)) <= Cardinality(Below(i))
  <2>1. Depths \subseteq 0 .. n /\ Depths # {}
    BY <1>2
  <2>2. PICK d \in Depths : \A e \in Depths : e <= d
    BY <1>1, <2>1, LargestExists
  <2>. QED
    BY <2>2
<1>5. ASSUME NEW j \in S, j # i PROVE Before(db, j, i)
  <2> SUFFICES ASSUME ~Before(db, j, i) PROVE FALSE
    OBVIOUS
  <2>1. Before(db, i, j)
    BY <1>3, <1>5 DEF Before
  <2>2. \A k \in S : Before(db, k, i) => Before(db, k, j)
    BY <1>3, <2>1 DEF Before
  <2>3. i \notin Below(i)
    BY <1>3 DEF Before
  <2>4. Below(i) \cup {i} \in SUBSET Below(j)
    BY <2>1, <2>2
  <2>5. Cardinality(Below(i) \cup {i}) = Cardinality(Below(i)) + 1
    BY <1>2, <2>3, FS_AddElement
  <2>6. Cardinality(Below(i)) + 1 <= Cardinality(Below(j))
    BY <1>2, <2>4, <2>5, FS_Subset
  <2> HIDE DEF Below
  <2>. QED
    BY <1>1, <1>2, <1>4, <2>6
<1>. QED
  BY <1>5

\* The limit holds for everything a round starts together: the last row has seen the others.
LEMMA RoundFits ==
  ASSUME NEW db, NEW act, NEW source, NEW S, S \subseteq Round(db, act, source).started, S # {},
         \A i \in Ids : db.status[i] = "scheduled" => db.programme[i] \in Programmes,
         maxConcurrent \in Nat
  PROVE  Cardinality(Active(act) \cup S) <= maxConcurrent
<1> DEFINE open == {i \in Due(db) \cap source : now >= StartOf(db, i) /\ ~Missed(db, i)}
           early(i) == {j \in open : Before(db, j, i)}
<1>1. S \subseteq open /\ \A i \in S : ~Full(act, early(i))
  BY DEF Round
<1>2. open \subseteq Ids /\ \A i \in open : db.programme[i] \in Programmes
  BY DEF Due
<1>3. PICK i \in S : \A j \in S : j # i => Before(db, j, i)
  BY <1>1, <1>2, LastRowExists
<1> DEFINE A == Active(act) \cup early(i)
<1>4. S \subseteq early(i) \cup {i}
  BY <1>1, <1>3
<1>5. A \subseteq Ids /\ IsFiniteSet(A) /\ Cardinality(A) \in Nat
  <2>1. A \subseteq Ids
    BY <1>2 DEF Active
  <2>. QED
    BY <2>1, RowsAreFinite
<1>6. Cardinality(A) < maxConcurrent
  BY <1>1, <1>5 DEF Full
<1>7. IsFiniteSet(A \cup {i}) /\ Cardinality(A \cup {i}) <= Cardinality(A) + 1
  BY <1>5, OneMore
<1>8. Active(act) \cup S \in SUBSET (A \cup {i})
  BY <1>4
<1>9. /\ Cardinality(Active(act) \cup S) <= Cardinality(A \cup {i})
      /\ Cardinality(Active(act) \cup S) \in Nat /\ Cardinality(A \cup {i}) \in Nat
  BY <1>7, <1>8, FS_Subset, FS_CardinalityType
<1> HIDE DEF A
<1>. QED
  BY <1>5, <1>6, <1>7, <1>9

-----------------------------------------------------------------------------
(* Inserts.                                                                *)

\* A table that has the rows there were and new ones, each with a programme of its own.
BooksMore(db) ==
  /\ db.status \in [Ids -> Statuses] /\ db.programme \in [Ids -> Programmes \cup {Free}]
  /\ \A a, b \in {i \in Ids : db.status[i] # "none"} :
       db.programme[a] = db.programme[b] => a = b
  /\ \A i \in Ids : db.status[i] # "none" => db.programme[i] \in Programmes
  /\ \A i \in Ids : programme[i] # Free =>
       db.programme[i] = programme[i] /\ db.status[i] = status[i]
  /\ \A i \in Ids : db.status[i] = status[i] \/ db.status[i] = "scheduled"

\* New rows take ids that were never used, for programmes that no row books.
LEMMA InsertsBook ==
  ASSUME TypeOK, WritersKnowTheirRow, NEW ps, ps \subseteq Programmes, NEW f \in Bookings(ps)
  PROVE  BooksMore(Inserted(f))
<1> DEFINE D == DOMAIN f
           st == [i \in Ids |-> IF i \in D THEN "scheduled" ELSE status[i]]
           pr == [i \in Ids |-> IF i \in D THEN f[i] ELSE programme[i]]
<1>1. /\ \A i \in D : i \in Ids /\ programme[i] = Free /\ f[i] \in ps /\ Bookable(f[i])
      /\ \A i, j \in D : f[i] = f[j] => i = j
  <2>1. PICK ids \in SUBSET {i \in Ids : programme[i] = Free} :
          f \in [ids -> {p \in ps : Bookable(p)}]
    BY DEF Bookings
  <2>2. D = ids
    BY <2>1
  <2>3. IsInjective(f)
    BY DEF Bookings
  <2>. QED
    BY <2>1, <2>2, <2>3 DEF IsInjective
<1>2. Inserted(f).status = st /\ Inserted(f).programme = pr
  BY DEF Inserted
<1> HIDE DEF D
<1>3. /\ status \in [Ids -> Statuses] /\ programme \in [Ids -> Programmes \cup {Free}]
      /\ \A a, b \in {i \in Ids : status[i] # "none"} : programme[a] = programme[b] => a = b
      /\ \A i \in Ids : status[i] # "none" => programme[i] # Free
  BY DEF TypeOK, WritersKnowTheirRow
<1>4. st \in [Ids -> Statuses] /\ pr \in [Ids -> Programmes \cup {Free}]
  BY <1>1, <1>3 DEF Statuses
<1>5. ASSUME NEW a \in Ids, NEW b \in Ids, st[a] # "none", st[b] # "none", pr[a] = pr[b]
      PROVE  a = b
  BY <1>1, <1>3, <1>5 DEF Bookable
<1>6. \A i \in Ids : st[i] # "none" => pr[i] \in Programmes
  BY <1>1, <1>3
<1>7. \A i \in Ids : programme[i] # Free => pr[i] = programme[i] /\ st[i] = status[i]
  BY <1>1
<1>8. \A i \in Ids : st[i] = status[i] \/ st[i] = "scheduled"
  OBVIOUS
<1> HIDE DEF st, pr
<1>. QED
  BY <1>2, <1>4, <1>5, <1>6, <1>7, <1>8 DEF BooksMore

-----------------------------------------------------------------------------
(* Aborts.                                                                 *)

LEMMA ClosedIs ==
  ASSUME writer \in [Writers -> WriterType], NEW ws
  PROVE  LET wr == Closed(writer, ws) IN
         /\ wr \in [Writers -> WriterType]
         /\ \A w \in Writers :
              \/ w \notin ws /\ wr[w] = writer[w]
              \/ w \in ws /\ writer[w].phase = "abandoned" /\ wr[w] = Idle
              \/ /\ w \in ws /\ writer[w].phase # "abandoned"
                 /\ wr[w].phase = writer[w].phase /\ wr[w].id = writer[w].id
                 /\ wr[w].real = writer[w].real /\ ~wr[w].subscribed
<1>1. Idle \in WriterType
  BY DEF Idle, WriterType
<1>2. \A x \in WriterType : /\ [x EXCEPT !.subscribed = FALSE] \in WriterType
                            /\ [x EXCEPT !.subscribed = FALSE].phase = x.phase
                            /\ [x EXCEPT !.subscribed = FALSE].id = x.id
                            /\ [x EXCEPT !.subscribed = FALSE].real = x.real
                            /\ ~[x EXCEPT !.subscribed = FALSE].subscribed
  BY DEF WriterType
<1>. QED
  BY <1>1, <1>2 DEF Closed

\* What the rest of a step finds after it has aborted: wr and act are in place of writer and
\* active.
AfterAbort(wr, act) ==
  /\ wr \in [Writers -> WriterType] /\ act \in [Ids -> Writers \cup {Free}]
  /\ Active(act) \subseteq Active(active)
  /\ \A w \in Writers : wr[w].phase = "writing" =>
       /\ writer[w].phase = "writing" /\ wr[w].id = writer[w].id /\ wr[w].real = writer[w].real
       /\ wr[w].subscribed => act[wr[w].id] = w
  /\ \A w \in Writers : writer[w].phase = "writing" =>
       wr[w].phase = "writing" /\ wr[w].id = writer[w].id
  /\ \A w \in Writers : wr[w].phase = "idle" => ~wr[w].subscribed
  /\ \A w \in Writers : wr[w].phase = "abandoned" => writer[w].phase = "abandoned"

\* It is enough that every subscription left open has an entry left.
LEMMA ClosedLeaves ==
  ASSUME TypeOK, WritersKnowTheirRow, NEW ws, NEW act \in [Ids -> Writers \cup {Free}],
         Active(act) \subseteq Active(active),
         \A w \in Writers \ ws :
           writer[w].phase = "writing" /\ writer[w].subscribed => act[writer[w].id] = w
  PROVE  AfterAbort(Closed(writer, ws), act)
<1> DEFINE wr == Closed(writer, ws)
<1>1. writer \in [Writers -> WriterType]
  BY DEF TypeOK
<1>2. /\ wr \in [Writers -> WriterType]
      /\ \A w \in Writers :
           \/ w \notin ws /\ wr[w] = writer[w]
           \/ w \in ws /\ writer[w].phase = "abandoned" /\ wr[w] = Idle
           \/ /\ w \in ws /\ writer[w].phase # "abandoned"
              /\ wr[w].phase = writer[w].phase /\ wr[w].id = writer[w].id
              /\ wr[w].real = writer[w].real /\ ~wr[w].subscribed
  BY <1>1, ClosedIs
<1>3. Idle.phase = "idle" /\ ~Idle.subscribed
  BY DEF Idle
<1> HIDE DEF wr
<1>4. ASSUME NEW w \in Writers, wr[w].phase = "writing"
      PROVE  /\ writer[w].phase = "writing" /\ wr[w].id = writer[w].id
             /\ wr[w].real = writer[w].real
             /\ wr[w].subscribed => act[wr[w].id] = w
  BY <1>2, <1>3, <1>4
<1>5. \A w \in Writers : writer[w].phase = "writing" =>
        wr[w].phase = "writing" /\ wr[w].id = writer[w].id
  BY <1>2
<1>6. \A w \in Writers : wr[w].phase = "idle" => ~wr[w].subscribed
  BY <1>2, <1>3 DEF WritersKnowTheirRow
<1>7. \A w \in Writers : wr[w].phase = "abandoned" => writer[w].phase = "abandoned"
  BY <1>2, <1>3
<1>. QED
  BY <1>2, <1>4, <1>5, <1>6, <1>7 DEF AfterAbort, wr

\* Entries go together with the subscriptions they abort.
LEMMA AbortedLeaves ==
  ASSUME TypeOK, WritersKnowTheirRow, NEW ids, ids \subseteq Ids
  PROVE  AfterAbort(Aborted(ids), [i \in Ids |-> IF i \in ids THEN Free ELSE active[i]])
<1> DEFINE act == [i \in Ids |-> IF i \in ids THEN Free ELSE active[i]]
           ws == {active[i] : i \in ids} \ {Free}
<1>1. act \in [Ids -> Writers \cup {Free}] /\ Active(act) \subseteq Active(active)
  BY DEF TypeOK, Active
<1>2. ASSUME NEW w \in Writers \ ws, writer[w].phase = "writing", writer[w].subscribed
      PROVE  act[writer[w].id] = w
  <2>1. writer[w].id \in Ids /\ active[writer[w].id] = w /\ w # Free
    BY <1>2, DvrAssumption DEF WritersKnowTheirRow
  <2>2. writer[w].id \notin ids
    BY <2>1
  <2>. QED
    BY <2>1, <2>2
<1> HIDE DEF act, ws
<1>3. AfterAbort(Closed(writer, ws), act)
  BY <1>1, <1>2, ClosedLeaves
<1>. QED
  BY <1>3 DEF Aborted, act, ws

-----------------------------------------------------------------------------
(* One tick.                                                               *)

\* What the loop hands to the end of a tick: rows that were scheduled, each started by a
\* writer of its own or found missed, at most as many as the limit lets in.
Handed(db, act, r, threw) ==
  /\ r.started \subseteq {i \in Ids : db.status[i] = "scheduled"}
  /\ r.missed \subseteq {i \in Ids : db.status[i] = "scheduled"}
  /\ r.started \cap r.missed = {}
  /\ threw \subseteq r.started
  /\ r.started # {} => Cardinality(Active(act) \cup r.started) <= maxConcurrent

LEMMA RoundHands ==
  ASSUME NEW db, NEW act, NEW source, maxConcurrent \in Nat,
         \A i \in Ids : db.status[i] = "scheduled" => db.programme[i] \in Programmes
  PROVE  LET r == Round(db, act, source) IN
         /\ Handed(db, act, r, {})
         /\ \A k \in r.started : Handed(db, act, Thrown(db, r, k), {k})
<1> DEFINE r == Round(db, act, source)
<1>1. /\ r.started \subseteq {i \in Ids : db.status[i] = "scheduled"}
      /\ r.missed \subseteq {i \in Ids : db.status[i] = "scheduled"}
      /\ r.started \cap r.missed = {}
  BY DEF Round, Due
<1>2. \A S : S \subseteq r.started /\ S # {} => Cardinality(Active(act) \cup S) <= maxConcurrent
  BY RoundFits
<1> HIDE DEF r
<1>3. Handed(db, act, r, {})
  BY <1>1, <1>2 DEF Handed
<1>4. ASSUME NEW k \in r.started PROVE Handed(db, act, Thrown(db, r, k), {k})
  <2>1. /\ Thrown(db, r, k).started \subseteq r.started
        /\ Thrown(db, r, k).missed \subseteq r.missed
        /\ k \in Thrown(db, r, k).started
    BY <1>4 DEF Thrown
  <2>. QED
    BY <1>1, <1>2, <2>1 DEF Handed
<1>. QED
  BY <1>3, <1>4 DEF r

LEMMA StaffedIs ==
  ASSUME NEW rows, NEW wr, NEW new \in Staffed(rows, wr)
  PROVE  /\ new \in [rows -> Writers]
         /\ \A i \in rows : wr[new[i]] = Idle
         /\ \A i, j \in rows : new[i] = new[j] => i = j
<1> DEFINE fits == {f \in [rows -> {w \in Writers : wr[w] = Idle}] : IsInjective(f)}
<1>1. new \in fits
  BY DEF Staffed
<1>. QED
  BY <1>1 DEF IsInjective

LEMMA TickedKeeps ==
  ASSUME DvrInv, NEW db, BooksMore(db), NEW act, NEW wr, AfterAbort(wr, act),
         NEW r, NEW threw, Handed(db, act, r, threw), Ticked(db, act, wr, r, threw),
         UNCHANGED <<now, maxConcurrent, rule, running, reboots, unclosed>>,
         \/ threw = {} /\ faults' = faults
         \/ (\E k : threw = {k}) /\ faults < MAX_FAULTS /\ faults' = faults + 1
  PROVE  DvrInv' /\ VerdictsStay
<1> DEFINE S == r.started
           M == r.missed
           st == [i \in Ids |-> IF i \in M THEN "failed"
                                ELSE IF i \in S \ threw THEN "recording" ELSE db.status[i]]
<1>1. PICK new \in Staffed(S, wr), gone \in SUBSET {i \in Ids : st[i] = "completed"} :
        /\ programme' = db.programme
        /\ status' = [i \in Ids |-> IF i \in gone THEN "none" ELSE st[i]]
        /\ active' = [i \in Ids |-> IF i \in S THEN new[i] ELSE act[i]]
        /\ writer' = [w \in Writers |->
             IF \E i \in S : new[i] = w
             THEN LET i == CHOOSE j \in S : new[j] = w IN
                  [id |-> i, phase |-> IF i \in threw THEN "abandoned" ELSE "writing",
                   subscribed |-> TRUE, real |-> FALSE]
             ELSE wr[w]]
        /\ file' = [i \in Ids |-> IF i \in gone THEN "none"
                                  ELSE IF i \in S \ threw THEN "trivial" ELSE file[i]]
  <2>1. Visited(db, r, threw) = st
    BY DEF Visited, Marked
  <2>2. Pruned(db, st) \in SUBSET {i \in Ids : st[i] = "completed"}
    BY DEF Pruned
  <2> HIDE DEF st
  <2> DEFINE Leaves(x, n, g) ==
               /\ programme' = db.programme
               /\ status' = [i \in Ids |-> IF i \in g THEN "none" ELSE x[i]]
               /\ active' = [i \in Ids |-> IF i \in S THEN n[i] ELSE act[i]]
               /\ writer' = [w \in Writers |->
                    IF \E i \in S : n[i] = w
                    THEN LET i == CHOOSE j \in S : n[j] = w IN
                         [id |-> i, phase |-> IF i \in threw THEN "abandoned" ELSE "writing",
                          subscribed |-> TRUE, real |-> FALSE]
                    ELSE wr[w]]
               /\ file' = [i \in Ids |-> IF i \in g THEN "none"
                                         ELSE IF i \in S \ threw THEN "trivial" ELSE file[i]]
  <2>3. \E x \in {Visited(db, r, threw)}, n \in Staffed(S, wr) :
          \E g \in {IF threw = {} THEN Pruned(db, x) ELSE {}} : Leaves(x, n, g)
    BY DEF Ticked
  <2> HIDE DEF Leaves
  <2>4. \E n \in Staffed(S, wr), g \in SUBSET {i \in Ids : st[i] = "completed"} :
          Leaves(st, n, g)
    BY <2>1, <2>2, <2>3
  <2>. QED
    BY <2>4 DEF Leaves
<1>2. /\ TypeOK /\ WritersKnowTheirRow /\ OneWriterPerFile /\ WriterAtWork /\ CountsHold
      /\ CompletedIsPlayable
  BY DEF DvrInv
<1>3. /\ S \subseteq {i \in Ids : db.status[i] = "scheduled"}
      /\ M \subseteq {i \in Ids : db.status[i] = "scheduled"}
      /\ S \cap M = {} /\ threw \subseteq S
      /\ S # {} => Cardinality(Active(act) \cup S) <= maxConcurrent
  BY DEF Handed
<1>4. /\ new \in [S -> Writers] /\ \A i \in S : wr[new[i]] = Idle
      /\ \A i, j \in S : new[i] = new[j] => i = j
  BY StaffedIs
<1> HIDE DEF S, M
<1>5. /\ db.status \in [Ids -> Statuses] /\ db.programme \in [Ids -> Programmes \cup {Free}]
      /\ \A a, b \in {i \in Ids : db.status[i] # "none"} :
           db.programme[a] = db.programme[b] => a = b
      /\ \A i \in Ids : db.status[i] # "none" => db.programme[i] \in Programmes
      /\ \A i \in Ids : programme[i] # Free =>
           db.programme[i] = programme[i] /\ db.status[i] = status[i]
      /\ \A i \in Ids : db.status[i] = status[i] \/ db.status[i] = "scheduled"
  BY DEF BooksMore
<1>6. /\ wr \in [Writers -> WriterType] /\ act \in [Ids -> Writers \cup {Free}]
      /\ Active(act) \subseteq Active(active)
      /\ \A w \in Writers : wr[w].phase = "writing" =>
           /\ writer[w].phase = "writing" /\ wr[w].id = writer[w].id
           /\ wr[w].real = writer[w].real
           /\ wr[w].subscribed => act[wr[w].id] = w
      /\ \A w \in Writers : writer[w].phase = "writing" =>
           wr[w].phase = "writing" /\ wr[w].id = writer[w].id
      /\ \A w \in Writers : wr[w].phase = "idle" => ~wr[w].subscribed
      /\ \A w \in Writers : wr[w].phase = "abandoned" => writer[w].phase = "abandoned"
  BY DEF AfterAbort
\* What becomes of each row.
<1>7. \A i \in Ids : /\ status'[i] # "none" => db.status[i] # "none"
                     /\ status'[i] = "completed" =>
                          status[i] = "completed" /\ file'[i] = file[i]
                     /\ status'[i] = "recording" => status[i] = "recording" \/ i \in S \ threw
                     /\ i \in S \ threw => status'[i] = "recording"
  BY <1>1, <1>3, <1>5
\* What becomes of each writer: it keeps its row, or it is new at one.
<1>8. ASSUME NEW w \in Writers
      PROVE  \/ (\A i \in S : new[i] # w) /\ writer'[w] = wr[w]
             \/ \E i \in S : /\ new[i] = w /\ wr[w] = Idle
                             /\ writer'[w].id = i /\ writer'[w].subscribed
                             /\ ~writer'[w].real /\ writer'[w] \in WriterType
                             /\ writer'[w].phase = IF i \in threw THEN "abandoned" ELSE "writing"
  <2>1. CASE \E i \in S : new[i] = w
    <3>1. PICK i \in S : new[i] = w
      BY <2>1
    <3>2. i = CHOOSE j \in S : new[j] = w
      BY <1>4, <3>1
    <3>3. writer'[w] = [id |-> i, phase |-> IF i \in threw THEN "abandoned" ELSE "writing",
                        subscribed |-> TRUE, real |-> FALSE]
      BY <1>1, <2>1, <3>2
    <3>. QED
      BY <1>3, <1>4, <3>1, <3>3 DEF WriterType
  <2>2. CASE ~\E i \in S : new[i] = w
    BY <1>1, <2>2
  <2>. QED
    BY <2>1, <2>2
<1>9. Idle.phase = "idle" /\ ~Idle.subscribed
  BY DEF Idle
\* A row that a writer is at work on is neither due nor pruned.
<1>10. ASSUME NEW w \in Writers, wr[w].phase = "writing"
       PROVE  LET i == wr[w].id IN
              /\ i \in Ids /\ i \notin S /\ programme'[i] = programme[i] /\ programme[i] # Free
              /\ status'[i] = status[i] /\ status[i] \in {"recording", "none"}
              /\ file'[i] = file[i]
              /\ wr[w].real /\ status[i] = "recording" => file[i] = "real"
  <2> DEFINE i == wr[w].id
  <2>1. /\ i \in Ids /\ programme[i] # Free /\ status[i] \in {"recording", "none"}
        /\ wr[w].real /\ status[i] = "recording" => file[i] = "real"
    BY <1>2, <1>6, <1>10 DEF WritersKnowTheirRow
  <2>2. db.programme[i] = programme[i] /\ db.status[i] = status[i]
    BY <1>5, <2>1
  <2>3. i \notin S /\ i \notin M /\ i \notin gone
    BY <1>1, <1>3, <2>1, <2>2
  <2>. QED
    BY <1>1, <2>1, <2>2, <2>3
<1>11. TypeOK'
  <2>1. /\ now' \in 0 .. LAST /\ maxConcurrent' \in Limits /\ rule' \in BOOLEAN
        /\ running' \in BOOLEAN /\ reboots' \in 0 .. MAX_REBOOTS /\ unclosed' \subseteq Ids
    BY <1>2 DEF TypeOK
  <2>2. faults' \in 0 .. MAX_FAULTS
    BY <1>2, DvrAssumption DEF TypeOK
  <2>3. status' \in [Ids -> Statuses]
    BY <1>1, <1>5 DEF Statuses
  <2>4. programme' \in [Ids -> Programmes \cup {Free}]
    BY <1>1, <1>5
  <2>5. ASSUME NEW a \in Ids, NEW b \in Ids, status'[a] # "none", status'[b] # "none",
               programme'[a] = programme'[b]
        PROVE  a = b
    BY <1>1, <1>5, <1>7, <2>5
  <2>6. file' \in [Ids -> {"none", "trivial", "real"}]
    BY <1>1, <1>2 DEF TypeOK
  <2>7. active' \in [Ids -> Writers \cup {Free}]
    BY <1>1, <1>4, <1>6
  <2>8. writer' \in [Writers -> WriterType]
    <3>1. \A w \in Writers : writer'[w] \in WriterType
      BY <1>6, <1>8
    <3>2. writer' = [w \in Writers |-> writer'[w]]
      BY <1>1
    <3>. QED
      BY <3>1, <3>2
  <2>. QED
    BY <2>1, <2>2, <2>3, <2>4, <2>5, <2>6, <2>7, <2>8 DEF TypeOK
<1>12. WritersKnowTheirRow'
  <2>1. \A i \in Ids : status'[i] # "none" => programme'[i] # Free
    BY <1>1, <1>5, <1>7, DvrAssumption
  <2>2. ASSUME NEW w \in Writers, writer'[w].phase = "writing"
        PROVE  LET i == writer'[w].id IN
               /\ i \in Ids /\ programme'[i] # Free /\ status'[i] \in {"recording", "none"}
               /\ writer'[w].real /\ status'[i] = "recording" => file'[i] = "real"
               /\ writer'[w].subscribed => active'[i] = w
    <3>1. CASE writer'[w] = wr[w]
      <4>1. writer'[w].id \notin S
        BY <1>10, <2>2, <3>1
      <4>. QED
        BY <1>1, <1>6, <1>10, <2>2, <3>1, <4>1
    <3>2. CASE writer'[w] # wr[w]
      <4>1. PICK i \in S : /\ new[i] = w /\ writer'[w].id = i /\ ~writer'[w].real
                           /\ i \notin threw
        BY <1>8, <2>2, <3>2
      <4>2. i \in Ids /\ status'[i] = "recording" /\ programme'[i] # Free
        BY <1>3, <1>7, <2>1, <4>1
      <4>3. active'[i] = w
        BY <1>1, <4>1, <4>2
      <4>. QED
        BY <4>1, <4>2, <4>3
    <3>. QED
      BY <3>1, <3>2
  <2>3. ASSUME NEW w \in Writers, writer'[w].phase = "idle" PROVE ~writer'[w].subscribed
    BY <1>6, <1>8, <2>3
  <2>. QED
    BY <2>1, <2>2, <2>3 DEF WritersKnowTheirRow
<1>13. OneWriterPerFile'
  <2> SUFFICES ASSUME NEW v \in Writers, NEW w \in Writers,
                      writer'[v].phase = "writing", writer'[w].phase = "writing",
                      writer'[v].id = writer'[w].id
               PROVE  v = w
    BY DEF OneWriterPerFile
  <2>1. \A u \in Writers : writer'[u].phase = "writing" =>
          \/ /\ wr[u].phase = "writing" /\ writer'[u].id = writer[u].id
             /\ writer[u].phase = "writing" /\ writer'[u].id \notin S
          \/ writer'[u].id \in S /\ new[writer'[u].id] = u
    BY <1>6, <1>8, <1>10
  <2>. QED
    BY <1>2, <2>1 DEF OneWriterPerFile
<1>14. WriterAtWork'
  <2> SUFFICES ASSUME NEW i \in Ids, running, status'[i] = "recording"
               PROVE  \/ i \in unclosed
                      \/ \E w \in Writers : writer'[w].phase = "writing" /\ writer'[w].id = i
    BY DEF WriterAtWork
  <2>1. CASE i \in S \ threw
    <3>1. new[i] \in Writers
      BY <1>4, <2>1
    <3>2. writer'[new[i]].phase = "writing" /\ writer'[new[i]].id = i
      BY <1>4, <1>8, <2>1, <3>1
    <3>. QED
      BY <3>1, <3>2
  <2>2. CASE i \notin S \ threw /\ i \notin unclosed
    <3>1. PICK w \in Writers : writer[w].phase = "writing" /\ writer[w].id = i
      BY <1>2, <1>7, <2>2 DEF WriterAtWork
    <3>2. wr[w].phase = "writing" /\ wr[w].id = i
      BY <1>6, <3>1
    <3>3. writer'[w] = wr[w]
      BY <1>8, <1>9, <3>2
    <3>. QED
      BY <3>2, <3>3
  <2>. QED
    BY <2>1, <2>2
<1>15. CompletedIsPlayable'
  BY <1>2, <1>7 DEF CompletedIsPlayable
<1>16. CountsHold'
  <2>1. maxConcurrent \in Nat /\ faults \in Nat
    BY <1>2, DvrAssumption DEF TypeOK
  <2>2. Cardinality(Active(active')) <= maxConcurrent
    <3>1. Active(active') \in SUBSET (Active(act) \cup S)
      BY <1>1 DEF Active
    <3>2. /\ Active(act) \cup S \subseteq Ids /\ Active(active) \subseteq Ids
          /\ Active(active') \subseteq Ids
      BY <1>3 DEF Active
    <3>3. /\ IsFiniteSet(Active(act) \cup S) /\ Cardinality(Active(act) \cup S) \in Nat
          /\ IsFiniteSet(Active(active)) /\ Cardinality(Active(active)) \in Nat
          /\ Cardinality(Active(active')) \in Nat
      BY <3>2, RowsAreFinite
    <3>4. CASE S = {}
      <4>1. Active(active') \in SUBSET Active(active)
        BY <1>6, <3>1, <3>4
      <4>2. Cardinality(Active(active')) <= Cardinality(Active(active))
        BY <3>3, <4>1, FS_Subset
      <4>. QED
        BY <1>2, <2>1, <3>3, <4>2 DEF CountsHold
    <3>5. CASE S # {}
      <4>1. Cardinality(Active(active')) <= Cardinality(Active(act) \cup S)
        BY <3>1, <3>3, FS_Subset
      <4>. QED
        BY <1>3, <2>1, <3>3, <3>5, <4>1
    <3>. QED
      BY <3>4, <3>5
  <2>3. Cardinality(Abandoned') <= faults'
    <3>1. Abandoned \subseteq Writers /\ Abandoned' \subseteq Writers
      BY DEF Abandoned
    <3>2. /\ IsFiniteSet(Abandoned) /\ Cardinality(Abandoned) \in Nat
          /\ Cardinality(Abandoned') \in Nat /\ Cardinality(Abandoned) <= faults
      BY <1>2, <3>1, WritersAreFinite DEF CountsHold
    <3>3. \A w \in Abandoned' : w \in Abandoned \/ \E i \in threw : w = new[i]
      BY <1>6, <1>8 DEF Abandoned
    <3>4. CASE threw = {} /\ faults' = faults
      <4>1. Abandoned' \in SUBSET Abandoned
        BY <3>3, <3>4
      <4>. QED
        BY <2>1, <3>2, <3>4, <4>1, FS_Subset
    <3>5. CASE (\E k : threw = {k}) /\ faults' = faults + 1
      <4>1. PICK k : threw = {k}
        BY <3>5
      <4>2. Abandoned' \in SUBSET (Abandoned \cup {new[k]})
        BY <3>3, <4>1
      <4>3. /\ IsFiniteSet(Abandoned \cup {new[k]})
            /\ Cardinality(Abandoned \cup {new[k]}) \in Nat
            /\ Cardinality(Abandoned \cup {new[k]}) <= Cardinality(Abandoned) + 1
        <5> DEFINE x == new[k]
        <5> HIDE DEF x
        <5>1. /\ IsFiniteSet(Abandoned \cup {x})
              /\ Cardinality(Abandoned \cup {x}) =
                   IF x \in Abandoned THEN Cardinality(Abandoned) ELSE Cardinality(Abandoned) + 1
          BY <3>2, FS_AddElement
        <5>2. /\ IsFiniteSet(Abandoned \cup {x}) /\ Cardinality(Abandoned \cup {x}) \in Nat
              /\ Cardinality(Abandoned \cup {x}) <= Cardinality(Abandoned) + 1
          BY <3>2, <5>1
        <5>. QED
          BY <5>2 DEF x
      <4>4. Cardinality(Abandoned') <= Cardinality(Abandoned \cup {new[k]})
        BY <4>2, <4>3, FS_Subset
      <4>. QED
        BY <2>1, <3>2, <3>5, <4>3, <4>4
    <3>. QED
      BY <3>4, <3>5
  <2>. QED
    BY <2>2, <2>3 DEF CountsHold
<1>17. VerdictsStay
  <2> SUFFICES ASSUME NEW i \in Ids, status[i] \in {"completed", "failed"}
               PROVE  status'[i] \in {status[i], "none"}
    BY DEF VerdictsStay
  <2>1. db.status[i] = status[i]
    BY <1>2, <1>5 DEF WritersKnowTheirRow
  <2>2. i \notin S /\ i \notin M
    BY <1>3, <2>1
  <2>. QED
    BY <1>1, <2>1, <2>2
<1>. QED
  BY <1>11, <1>12, <1>13, <1>14, <1>15, <1>16, <1>17 DEF DvrInv

LEMMA TickKeeps == DvrInv /\ Tick => DvrInv' /\ VerdictsStay
<1> SUFFICES ASSUME DvrInv, Tick PROVE DvrInv' /\ VerdictsStay
  OBVIOUS
<1>1. TypeOK /\ WritersKnowTheirRow
  BY DEF DvrInv
<1> DEFINE act == [i \in Ids |-> IF i \in Finished THEN Free ELSE active[i]]
           wr == Aborted(Finished)
           Loop(d, a, v) == \E source \in SUBSET Due(d) : \E r \in {Round(d, a, source)} :
             \/ Ticked(d, a, v, r, {}) /\ UNCHANGED faults
             \/ \E k \in r.started :
                  /\ faults < MAX_FAULTS /\ faults' = faults + 1
                  /\ Ticked(d, a, v, Thrown(d, r, k), {k})
<1>2. PICK f \in Bookings(Upcoming) : Loop(Inserted(f), act, wr)
  <2>1. \E d \in Materialized, a \in {act}, v \in {wr} : Loop(d, a, v)
    BY DEF Tick
  <2> HIDE DEF Loop, act, wr
  <2>. QED
    BY <2>1 DEF Materialized
<1> HIDE DEF act, wr
<1> DEFINE db == Inserted(f)
<1>3. BooksMore(db)
  <2>1. Upcoming \subseteq Programmes
    BY DEF Upcoming
  <2>. QED
    BY <1>1, <2>1, InsertsBook
<1>4. AfterAbort(wr, act)
  <2>1. Finished \subseteq Ids
    BY DEF Finished, Active
  <2>. QED
    BY <1>1, <2>1, AbortedLeaves DEF act, wr
<1>5. maxConcurrent \in Nat
  BY <1>1, DvrAssumption DEF TypeOK
<1>6. \A i \in Ids : db.status[i] = "scheduled" => db.programme[i] \in Programmes
  BY <1>3 DEF BooksMore
<1>7. UNCHANGED <<now, maxConcurrent, rule, running, reboots, unclosed>>
  BY DEF Tick
<1> HIDE DEF db
<1>8. PICK source \in SUBSET Due(db) :
        LET r == Round(db, act, source) IN
          \/ Ticked(db, act, wr, r, {}) /\ UNCHANGED faults
          \/ \E k \in r.started :
               /\ faults < MAX_FAULTS /\ faults' = faults + 1
               /\ Ticked(db, act, wr, Thrown(db, r, k), {k})
  BY <1>2 DEF db
<1> DEFINE r == Round(db, act, source)
<1>9. Handed(db, act, r, {}) /\ \A k \in r.started : Handed(db, act, Thrown(db, r, k), {k})
  BY <1>5, <1>6, RoundHands
<1> HIDE DEF r
<1>10. CASE Ticked(db, act, wr, r, {}) /\ UNCHANGED faults
  BY <1>3, <1>4, <1>7, <1>9, <1>10, TickedKeeps
<1>11. ASSUME NEW k \in r.started, faults < MAX_FAULTS, faults' = faults + 1,
              Ticked(db, act, wr, Thrown(db, r, k), {k})
       PROVE  DvrInv' /\ VerdictsStay
  BY <1>3, <1>4, <1>7, <1>9, <1>11, TickedKeeps
<1>. QED
  BY <1>8, <1>10, <1>11 DEF r

-----------------------------------------------------------------------------
(* The other steps.                                                        *)

\* Steps that at most delete rows and abort subscriptions.
LEMMA EndingKeeps ==
  ASSUME DvrInv, AfterAbort(writer', active'),
         now' \in 0 .. LAST, UNCHANGED <<maxConcurrent, programme, history>>,
         rule' \in BOOLEAN, running' \in BOOLEAN, running' => running,
         status' \in [Ids -> Statuses], file' \in [Ids -> {"none", "trivial", "real"}],
         \A i \in Ids : \/ status'[i] = status[i] /\ file'[i] = file[i]
                        \/ status'[i] = "none"
  PROVE  DvrInv' /\ VerdictsStay
<1>1. /\ TypeOK /\ WritersKnowTheirRow /\ OneWriterPerFile /\ WriterAtWork /\ CountsHold
      /\ CompletedIsPlayable
  BY DEF DvrInv
<1>2. UNCHANGED <<reboots, faults, unclosed>>
  BY DEF history
<1> DEFINE wr == writer'
           act == active'
<1>3. /\ wr \in [Writers -> WriterType] /\ act \in [Ids -> Writers \cup {Free}]
      /\ Active(act) \subseteq Active(active)
      /\ \A w \in Writers : wr[w].phase = "writing" =>
           /\ writer[w].phase = "writing" /\ wr[w].id = writer[w].id
           /\ wr[w].real = writer[w].real
           /\ wr[w].subscribed => act[wr[w].id] = w
      /\ \A w \in Writers : writer[w].phase = "writing" =>
           wr[w].phase = "writing" /\ wr[w].id = writer[w].id
      /\ \A w \in Writers : wr[w].phase = "idle" => ~wr[w].subscribed
      /\ \A w \in Writers : wr[w].phase = "abandoned" => writer[w].phase = "abandoned"
  BY DEF AfterAbort
<1>4. TypeOK'
  BY <1>1, <1>2, <1>3 DEF TypeOK
<1>5. WritersKnowTheirRow'
  BY <1>1, <1>3 DEF WritersKnowTheirRow
<1>6. OneWriterPerFile'
  BY <1>1, <1>3 DEF OneWriterPerFile
<1>7. WriterAtWork'
  BY <1>1, <1>2, <1>3 DEF WriterAtWork
<1>8. CompletedIsPlayable'
  BY <1>1 DEF CompletedIsPlayable
<1>9. CountsHold'
  <2>1. maxConcurrent \in Nat /\ faults \in Nat
    BY <1>1, DvrAssumption DEF TypeOK
  <2>2. Active(act) \in SUBSET Active(active) /\ Active(active) \subseteq Ids
    BY <1>3 DEF Active
  <2>3. Abandoned' \in SUBSET Abandoned /\ Abandoned \subseteq Writers
    BY <1>3 DEF Abandoned
  <2>4. /\ IsFiniteSet(Active(active)) /\ Cardinality(Active(active)) \in Nat
        /\ IsFiniteSet(Abandoned) /\ Cardinality(Abandoned) \in Nat
    BY <2>2, <2>3, RowsAreFinite, WritersAreFinite
  <2>5. /\ Cardinality(Active(act)) <= Cardinality(Active(active))
        /\ Cardinality(Abandoned') <= Cardinality(Abandoned)
        /\ Cardinality(Active(act)) \in Nat /\ Cardinality(Abandoned') \in Nat
    BY <2>2, <2>3, <2>4, FS_Subset, FS_CardinalityType
  <2>6. Cardinality(Active(act)) <= maxConcurrent /\ Cardinality(Abandoned') <= faults
    BY <1>1, <2>1, <2>4, <2>5 DEF CountsHold
  <2>. QED
    BY <1>2, <2>6 DEF CountsHold
<1>. QED
  BY <1>4, <1>5, <1>6, <1>7, <1>8, <1>9 DEF DvrInv, VerdictsStay

LEMMA SameWriters ==
  ASSUME DvrInv, UNCHANGED <<writer, active>>
  PROVE  AfterAbort(writer', active')
BY DEF DvrInv, TypeOK, WritersKnowTheirRow, AfterAbort

LEMMA EndingsKeep ==
  ASSUME DvrInv,
         \/ \E w \in Writers : UpstreamEnds(w)
         \/ \E i \in Ids : Cancel(i)
         \/ DeleteRule \/ Shutdown \/ TimePasses \/ UNCHANGED vars
  PROVE  DvrInv' /\ VerdictsStay
<1>1. TypeOK /\ WritersKnowTheirRow
  BY DEF DvrInv
<1>2. /\ status \in [Ids -> Statuses] /\ file \in [Ids -> {"none", "trivial", "real"}]
      /\ now \in 0 .. LAST /\ rule \in BOOLEAN /\ running \in BOOLEAN
      /\ writer \in [Writers -> WriterType] /\ active \in [Ids -> Writers \cup {Free}]
  BY <1>1 DEF TypeOK
<1>3. ASSUME NEW w \in Writers, UpstreamEnds(w) PROVE DvrInv' /\ VerdictsStay
  <2>1. AfterAbort(writer', active')
    <3>1. CASE writer[w].phase = "writing"
      <4>1. writer' = Closed(writer, {w}) /\ active' = active
        BY <1>3, <3>1 DEF UpstreamEnds
      <4>2. AfterAbort(Closed(writer, {w}), active)
        <5>1. \A v \in Writers \ {w} :
                writer[v].phase = "writing" /\ writer[v].subscribed => active[writer[v].id] = v
          BY <1>1 DEF WritersKnowTheirRow
        <5>. QED
          BY <1>1, <1>2, <5>1, ClosedLeaves
      <4>. QED
        BY <4>1, <4>2
    <3>2. CASE writer[w].phase # "writing"
      <4>1. writer' = [writer EXCEPT ![w].subscribed = FALSE] /\ active' = active
        BY <1>3, <3>2 DEF UpstreamEnds
      <4>2. /\ writer' \in [Writers -> WriterType]
            /\ \A v \in Writers : /\ writer'[v].phase = writer[v].phase
                                  /\ writer'[v].id = writer[v].id
                                  /\ writer'[v].real = writer[v].real
                                  /\ writer'[v].subscribed => writer[v].subscribed
        BY <1>2, <4>1 DEF WriterType
      <4>. QED
        BY <1>1, <1>2, <4>1, <4>2 DEF AfterAbort, WritersKnowTheirRow
    <3>. QED
      BY <3>1, <3>2
  <2>. QED
    BY <1>2, <1>3, <2>1, EndingKeeps DEF UpstreamEnds, dbVars, history
<1>4. ASSUME NEW i \in Ids, Cancel(i) PROVE DvrInv' /\ VerdictsStay
  <2>1. active' = [j \in Ids |-> IF j \in {i} THEN Free ELSE active[j]]
    BY <1>2, <1>4 DEF Cancel
  <2>2. AfterAbort(writer', active')
    BY <1>1, <1>4, <2>1, AbortedLeaves DEF Cancel
  <2>3. /\ status' \in [Ids -> Statuses] /\ file' \in [Ids -> {"none", "trivial", "real"}]
        /\ \A j \in Ids : \/ status'[j] = status[j] /\ file'[j] = file[j]
                          \/ status'[j] = "none"
    BY <1>2, <1>4 DEF Cancel, Statuses
  <2>. QED
    BY <1>2, <1>4, <2>2, <2>3, EndingKeeps DEF Cancel
<1>5. ASSUME DeleteRule PROVE DvrInv' /\ VerdictsStay
  <2>1. AfterAbort(writer', active')
    BY <1>5, SameWriters DEF DeleteRule, memVars
  <2>2. /\ status' \in [Ids -> Statuses]
        /\ \A j \in Ids : status'[j] = status[j] \/ status'[j] = "none"
    BY <1>2, <1>5 DEF DeleteRule, Statuses
  <2>. QED
    BY <1>2, <1>5, <2>1, <2>2, EndingKeeps DEF DeleteRule, memVars
<1>6. ASSUME Shutdown PROVE DvrInv' /\ VerdictsStay
  <2>1. AfterAbort(writer', active')
    <3>1. active' \in [Ids -> Writers \cup {Free}] /\ Active(active') \subseteq Active(active)
      BY <1>6 DEF Shutdown, Active
    <3>2. AfterAbort(Closed(writer, Writers), active')
      BY <1>1, <3>1, ClosedLeaves
    <3>. QED
      BY <1>6, <3>2 DEF Shutdown
  <2>. QED
    BY <1>2, <1>6, <2>1, EndingKeeps DEF Shutdown, dbVars
<1>7. ASSUME TimePasses PROVE DvrInv' /\ VerdictsStay
  <2>1. AfterAbort(writer', active')
    BY <1>7, SameWriters DEF TimePasses, memVars
  <2>2. now' \in 0 .. LAST
    BY <1>2, <1>7, DvrAssumption DEF TimePasses
  <2>. QED
    BY <1>2, <1>7, <2>1, <2>2, EndingKeeps DEF TimePasses, memVars, dbVars
<1>8. ASSUME UNCHANGED vars PROVE DvrInv' /\ VerdictsStay
  <2>1. AfterAbort(writer', active')
    BY <1>8, SameWriters DEF vars, memVars
  <2>. QED
    BY <1>2, <1>8, <2>1, EndingKeeps DEF vars, memVars, dbVars
<1>. QED
  BY <1>3, <1>4, <1>5, <1>6, <1>7, <1>8

LEMMA ReceiveKeeps ==
  ASSUME DvrInv, NEW w \in Writers, Receives(w)
  PROVE  DvrInv' /\ VerdictsStay
<1> DEFINE i == writer[w].id
<1>1. /\ TypeOK /\ WritersKnowTheirRow /\ OneWriterPerFile /\ WriterAtWork /\ CountsHold
      /\ CompletedIsPlayable
  BY DEF DvrInv
<1>2. i \in Ids /\ writer[w].phase = "writing"
  BY <1>1 DEF Receives, Reads, WritersKnowTheirRow
<1>3. /\ UNCHANGED <<now, maxConcurrent, status, programme, rule, running, active>>
      /\ UNCHANGED <<reboots, faults, unclosed>>
      /\ file' = [file EXCEPT ![i] = "real"]
  BY DEF Receives, dbVars, history
<1>4. /\ writer' \in [Writers -> WriterType]
      /\ \A v \in Writers : /\ writer'[v].phase = writer[v].phase
                            /\ writer'[v].id = writer[v].id
                            /\ writer'[v].subscribed = writer[v].subscribed
                            /\ v = w \/ writer'[v].real = writer[v].real
  <2>1. writer \in [Writers -> WriterType] /\ writer' = [writer EXCEPT ![w].real = TRUE]
    BY <1>1 DEF TypeOK, Receives
  <2>2. [writer[w] EXCEPT !.real = TRUE] \in WriterType
    BY <2>1 DEF WriterType
  <2>3. writer' \in [Writers -> WriterType]
    BY <2>1, <2>2
  <2>4. ASSUME NEW v \in Writers
        PROVE  /\ writer'[v].phase = writer[v].phase
               /\ writer'[v].id = writer[v].id
               /\ writer'[v].subscribed = writer[v].subscribed
               /\ v = w \/ writer'[v].real = writer[v].real
    <3>1. CASE v = w
      BY <2>1, <3>1 DEF WriterType
    <3>2. CASE v # w
      BY <2>1, <3>2
    <3>. QED
      BY <3>1, <3>2
  <2>. QED
    BY <2>3, <2>4
<1>5. /\ file' \in [Ids -> {"none", "trivial", "real"}] /\ file'[i] = "real"
      /\ \A j \in Ids : file[j] = "real" => file'[j] = "real"
  BY <1>1, <1>2, <1>3 DEF TypeOK
<1>6. TypeOK'
  BY <1>1, <1>3, <1>4, <1>5 DEF TypeOK
<1>7. WritersKnowTheirRow'
  BY <1>1, <1>3, <1>4, <1>5 DEF WritersKnowTheirRow
<1>8. OneWriterPerFile' /\ WriterAtWork' /\ CompletedIsPlayable'
  BY <1>1, <1>3, <1>4, <1>5 DEF OneWriterPerFile, WriterAtWork, CompletedIsPlayable
<1>9. CountsHold'
  <2>1. Abandoned' = Abandoned /\ Active(active)' = Active(active)
    BY <1>3, <1>4 DEF Abandoned, Active
  <2>. QED
    BY <1>1, <1>3, <2>1 DEF CountsHold
<1>. QED
  BY <1>3, <1>6, <1>7, <1>8, <1>9 DEF DvrInv, VerdictsStay

\* Whoever finalizes has no subscription any more: it is gone for good.
LEMMA FinalizeKeeps ==
  ASSUME DvrInv, NEW w \in Writers, Finalizes(w)
  PROVE  DvrInv' /\ VerdictsStay
<1> DEFINE i == writer[w].id
<1>1. /\ TypeOK /\ WritersKnowTheirRow /\ OneWriterPerFile /\ WriterAtWork /\ CountsHold
      /\ CompletedIsPlayable
  BY DEF DvrInv
<1>2. /\ i \in Ids /\ writer[w].phase = "writing" /\ status[i] \in {"recording", "none"}
      /\ writer[w].real /\ status[i] = "recording" => file[i] = "real"
      /\ ~writer[w].subscribed
  <2>1. writer[w].phase = "writing" /\ ~Reads(w)
    BY DEF Finalizes
  <2>2. /\ i \in Ids /\ status[i] \in {"recording", "none"}
        /\ writer[w].real /\ status[i] = "recording" => file[i] = "real"
        /\ writer[w].subscribed => active[i] = w
    BY <1>1, <2>1 DEF WritersKnowTheirRow
  <2>. QED
    BY <2>1, <2>2, DvrAssumption DEF Reads
<1>3. /\ writer' = [writer EXCEPT ![w] = Idle] /\ active' = [active EXCEPT ![i] = Free]
      /\ UNCHANGED <<now, maxConcurrent, programme, rule, file, running, reboots>>
      /\ \/ /\ status' = IF status[i] = "none" THEN status
                         ELSE [status EXCEPT ![i] = Verdict(w)]
            /\ UNCHANGED <<faults, unclosed>>
         \/ /\ faults < MAX_FAULTS /\ faults' = faults + 1
            /\ unclosed' = unclosed \cup {i} /\ UNCHANGED status
  BY <1>1, <1>2 DEF Finalizes, TypeOK
<1>4. /\ writer' \in [Writers -> WriterType] /\ writer'[w] = Idle
      /\ \A v \in Writers : v # w => writer'[v] = writer[v]
      /\ Idle.phase = "idle" /\ ~Idle.subscribed
  BY <1>1, <1>3 DEF TypeOK, Idle, WriterType
<1>5. /\ status' \in [Ids -> Statuses]
      /\ \A j \in Ids : j # i => status'[j] = status[j]
      /\ \/ status'[i] = status[i] /\ (i \in unclosed' \/ status[i] = "none")
         \/ status'[i] = "failed" /\ status[i] = "recording"
         \/ status'[i] = "completed" /\ status[i] = "recording" /\ file[i] = "real"
  BY <1>1, <1>2, <1>3 DEF TypeOK, Verdict, Statuses
<1>6. /\ unclosed \subseteq unclosed' /\ unclosed' \subseteq Ids
      /\ faults \in Nat /\ faults' \in 0 .. MAX_FAULTS /\ faults <= faults'
      /\ maxConcurrent \in Nat
  BY <1>1, <1>2, <1>3, DvrAssumption DEF TypeOK
<1>7. /\ active' \in [Ids -> Writers \cup {Free}]
      /\ \A j \in Ids : j # i => active'[j] = active[j]
  BY <1>1, <1>3 DEF TypeOK
\* No other writer is at this row.
<1>8. \A v \in Writers : v # w /\ writer[v].phase = "writing" => writer[v].id # i
  BY <1>1, <1>2 DEF OneWriterPerFile
<1>9. TypeOK'
  BY <1>1, <1>3, <1>4, <1>5, <1>6, <1>7 DEF TypeOK
<1>10. WritersKnowTheirRow'
  <2>1. \A j \in Ids : status'[j] # "none" => programme'[j] # Free
    BY <1>1, <1>3, <1>5 DEF WritersKnowTheirRow
  <2>2. ASSUME NEW v \in Writers, writer'[v].phase = "writing"
        PROVE  LET j == writer'[v].id IN
               /\ j \in Ids /\ programme'[j] # Free /\ status'[j] \in {"recording", "none"}
               /\ writer'[v].real /\ status'[j] = "recording" => file'[j] = "real"
               /\ writer'[v].subscribed => active'[j] = v
    <3>1. v # w /\ writer'[v] = writer[v] /\ writer[v].id # i
      BY <1>4, <1>8, <2>2
    <3>2. LET j == writer[v].id IN
          /\ j \in Ids /\ programme[j] # Free /\ status[j] \in {"recording", "none"}
          /\ writer[v].real /\ status[j] = "recording" => file[j] = "real"
          /\ writer[v].subscribed => active[j] = v
      BY <1>1, <2>2, <3>1 DEF WritersKnowTheirRow
    <3>. QED
      BY <1>3, <1>5, <1>7, <3>1, <3>2
  <2>3. \A v \in Writers : writer'[v].phase = "idle" => ~writer'[v].subscribed
    BY <1>1, <1>4 DEF WritersKnowTheirRow
  <2>. QED
    BY <2>1, <2>2, <2>3 DEF WritersKnowTheirRow
<1>11. OneWriterPerFile'
  BY <1>1, <1>4 DEF OneWriterPerFile
<1>12. WriterAtWork'
  BY <1>1, <1>2, <1>3, <1>4, <1>5, <1>6 DEF WriterAtWork
<1>13. CompletedIsPlayable'
  BY <1>1, <1>2, <1>3, <1>5 DEF CompletedIsPlayable
<1>14. CountsHold'
  <2>1. Active(active') \in SUBSET Active(active) /\ Active(active) \subseteq Ids
    BY <1>3 DEF Active
  <2>2. Abandoned' \in SUBSET Abandoned /\ Abandoned \subseteq Writers
    BY <1>4 DEF Abandoned
  <2>3. /\ IsFiniteSet(Active(active)) /\ Cardinality(Active(active)) \in Nat
        /\ IsFiniteSet(Abandoned) /\ Cardinality(Abandoned) \in Nat
    BY <2>1, <2>2, RowsAreFinite, WritersAreFinite
  <2>4. /\ Cardinality(Active(active')) <= Cardinality(Active(active))
        /\ Cardinality(Abandoned') <= Cardinality(Abandoned)
        /\ Cardinality(Active(active')) \in Nat /\ Cardinality(Abandoned') \in Nat
    BY <2>1, <2>2, <2>3, FS_Subset, FS_CardinalityType
  <2>5. Cardinality(Active(active')) <= maxConcurrent /\ Cardinality(Abandoned') <= faults'
    BY <1>1, <1>6, <2>3, <2>4 DEF CountsHold
  <2>. QED
    BY <1>3, <2>5 DEF CountsHold
<1>15. VerdictsStay
  BY <1>2, <1>5 DEF VerdictsStay
<1>. QED
  BY <1>9, <1>10, <1>11, <1>12, <1>13, <1>14, <1>15 DEF DvrInv

LEMMA ScheduleKeeps ==
  ASSUME DvrInv, NEW p \in Programmes, Schedule(p)
  PROVE  DvrInv' /\ VerdictsStay
<1>1. /\ TypeOK /\ WritersKnowTheirRow /\ OneWriterPerFile /\ WriterAtWork /\ CountsHold
      /\ CompletedIsPlayable
  BY DEF DvrInv
<1>2. PICK f \in Bookings({p}) :
        status' = Inserted(f).status /\ programme' = Inserted(f).programme
  BY DEF Schedule
<1>3. BooksMore(Inserted(f))
  BY <1>1, InsertsBook
<1>4. /\ status' \in [Ids -> Statuses] /\ programme' \in [Ids -> Programmes \cup {Free}]
      /\ \A a, b \in {i \in Ids : status'[i] # "none"} : programme'[a] = programme'[b] => a = b
      /\ \A i \in Ids : status'[i] # "none" => programme'[i] \in Programmes
      /\ \A i \in Ids : programme[i] # Free =>
           programme'[i] = programme[i] /\ status'[i] = status[i]
      /\ \A i \in Ids : status'[i] = status[i] \/ status'[i] = "scheduled"
  BY <1>2, <1>3 DEF BooksMore
<1>5. /\ UNCHANGED <<now, maxConcurrent, rule, file, running, active, writer>>
      /\ UNCHANGED <<reboots, faults, unclosed>>
  BY DEF Schedule, memVars, history
<1>6. TypeOK'
  BY <1>1, <1>4, <1>5 DEF TypeOK
<1>7. WritersKnowTheirRow'
  BY <1>1, <1>4, <1>5, DvrAssumption DEF WritersKnowTheirRow
<1>8. OneWriterPerFile'
  BY <1>1, <1>5 DEF OneWriterPerFile
<1>9. WriterAtWork' /\ CompletedIsPlayable'
  BY <1>1, <1>4, <1>5 DEF WriterAtWork, CompletedIsPlayable
<1>10. CountsHold'
  BY <1>1, <1>5 DEF CountsHold, Abandoned, Active
<1>11. VerdictsStay
  BY <1>1, <1>4 DEF VerdictsStay, WritersKnowTheirRow
<1>. QED
  BY <1>6, <1>7, <1>8, <1>9, <1>10, <1>11 DEF DvrInv

LEMMA NobodyCounts ==
  ASSUME maxConcurrent \in Nat, faults \in Nat, active = [i \in Ids |-> Free],
         writer = [w \in Writers |-> Idle]
  PROVE  CountsHold
<1>1. Active(active) = {} /\ Abandoned = {}
  BY DEF Active, Abandoned, Idle
<1>. QED
  BY <1>1, FS_EmptySet DEF CountsHold

LEMMA NobodyCountsAgain ==
  ASSUME maxConcurrent' \in Nat, faults' \in Nat, active' = [i \in Ids |-> Free],
         writer' = [w \in Writers |-> Idle]
  PROVE  CountsHold'
<1>1. Active(active') = {} /\ Abandoned' = {}
  BY DEF Active, Abandoned, Idle
<1>. QED
  BY <1>1, FS_EmptySet DEF CountsHold

\* The recovery gives every row of the last process a verdict or its turn again; what that
\* process had closed keeps its file.
LEMMA BootKeeps == DvrInv /\ Boot => DvrInv' /\ VerdictsStay
<1> SUFFICES ASSUME DvrInv, Boot PROVE DvrInv' /\ VerdictsStay
  OBVIOUS
<1>1. TypeOK /\ WritersKnowTheirRow /\ CompletedIsPlayable
  BY DEF DvrInv
<1> DEFINE written == {writer[w].id : w \in {v \in Writers : writer[v].phase = "writing"}}
<1>2. PICK lost \in SUBSET {i \in written : file[i] = "real"} :
        file' = [i \in Ids |-> IF i \in lost THEN "trivial" ELSE file[i]]
  BY DEF Boot
<1>3. /\ status' = [i \in Ids |-> IF status[i] = "recording" THEN Recovered(i, file')
                                  ELSE status[i]]
      /\ running' = TRUE /\ unclosed' = {}
      /\ active' = [i \in Ids |-> Free] /\ writer' = [w \in Writers |-> Idle]
      /\ reboots < MAX_REBOOTS /\ reboots' = reboots + 1
      /\ UNCHANGED <<now, maxConcurrent, programme, rule, faults>>
  BY DEF Boot, Interrupted
<1>4. \A i \in Ids :
        \/ status[i] # "recording" /\ status'[i] = status[i]
        \/ /\ status[i] = "recording" /\ status'[i] \in {"scheduled", "completed", "failed"}
           /\ status'[i] = "completed" => file'[i] = "real"
  BY <1>3 DEF Recovered
<1>5. \A i \in lost : i \in Ids => status[i] \in {"recording", "none"}
  BY <1>1 DEF WritersKnowTheirRow
<1>6. TypeOK'
  <2>1. status' \in [Ids -> Statuses]
    BY <1>1, <1>3, <1>4 DEF TypeOK, Statuses
  <2>2. file' \in [Ids -> {"none", "trivial", "real"}]
    BY <1>1, <1>2 DEF TypeOK
  <2>3. writer' \in [Writers -> WriterType] /\ active' \in [Ids -> Writers \cup {Free}]
    BY <1>3 DEF Idle, WriterType
  <2>4. reboots' \in 0 .. MAX_REBOOTS
    BY <1>1, <1>3, DvrAssumption DEF TypeOK
  <2>5. ASSUME NEW a \in Ids, NEW b \in Ids, status'[a] # "none", status'[b] # "none",
               programme'[a] = programme'[b]
        PROVE  a = b
    BY <1>1, <1>3, <1>4, <2>5 DEF TypeOK
  <2>. QED
    BY <1>1, <1>3, <2>1, <2>2, <2>3, <2>4, <2>5 DEF TypeOK
<1>7. WritersKnowTheirRow'
  BY <1>1, <1>3, <1>4 DEF WritersKnowTheirRow, Idle
<1>8. OneWriterPerFile'
  BY <1>3 DEF OneWriterPerFile, Idle
<1>9. WriterAtWork'
  BY <1>4 DEF WriterAtWork
<1>10. CompletedIsPlayable'
  BY <1>1, <1>2, <1>4, <1>5 DEF CompletedIsPlayable
<1>11. CountsHold'
  <2>1. maxConcurrent' \in Nat /\ faults' \in Nat
    BY <1>1, <1>3, DvrAssumption DEF TypeOK
  <2>. QED
    BY <1>3, <2>1, NobodyCountsAgain
<1>12. VerdictsStay
  BY <1>4 DEF VerdictsStay
<1>. QED
  BY <1>6, <1>7, <1>8, <1>9, <1>10, <1>11, <1>12 DEF DvrInv

LEMMA Starts == Init => DvrInv
<1> SUFFICES ASSUME Init PROVE DvrInv
  OBVIOUS
<1>1. TypeOK
  <2>1. 0 \in 0 .. LAST /\ 0 \in 0 .. MAX_REBOOTS /\ 0 \in 0 .. MAX_FAULTS
    BY DvrAssumption
  <2>. QED
    BY <2>1 DEF Init, TypeOK, Statuses, Idle, WriterType
<1>2. WritersKnowTheirRow /\ OneWriterPerFile /\ WriterAtWork /\ CompletedIsPlayable
  BY DEF Init, WritersKnowTheirRow, OneWriterPerFile, WriterAtWork, CompletedIsPlayable, Idle
<1>3. CountsHold
  BY NobodyCounts, DvrAssumption DEF Init
<1>. QED
  BY <1>1, <1>2, <1>3 DEF DvrInv

-----------------------------------------------------------------------------
(* The theorems.                                                           *)

LEMMA NextKeeps == DvrInv /\ [Next]_vars => DvrInv' /\ VerdictsStay
<1> SUFFICES ASSUME DvrInv, [Next]_vars PROVE DvrInv' /\ VerdictsStay
  OBVIOUS
<1>1. CASE Tick
  BY <1>1, TickKeeps
<1>2. ASSUME NEW w \in Writers, Receives(w) \/ UpstreamEnds(w) \/ Finalizes(w)
      PROVE  DvrInv' /\ VerdictsStay
  BY <1>2, ReceiveKeeps, EndingsKeep, FinalizeKeeps
<1>3. ASSUME NEW p \in Programmes, Schedule(p) PROVE DvrInv' /\ VerdictsStay
  BY <1>3, ScheduleKeeps
<1>4. ASSUME NEW i \in Ids, Cancel(i) PROVE DvrInv' /\ VerdictsStay
  BY <1>4, EndingsKeep
<1>5. CASE DeleteRule \/ Shutdown \/ TimePasses \/ UNCHANGED vars
  BY <1>5, EndingsKeep
<1>6. CASE Boot
  BY <1>6, BootKeeps
<1>. QED
  BY <1>1, <1>2, <1>3, <1>4, <1>5, <1>6 DEF Next

LEMMA DvrInvHolds == Spec => []DvrInv
<1>1. DvrInv /\ [Next]_vars => DvrInv'
  BY NextKeeps
<1>. QED
  BY Starts, <1>1, PTL DEF Spec

\* The tables, maps and counters keep their types, and no two rows book one programme.
THEOREM DvrTypes == Spec => []TypeOK
<1>1. DvrInv => TypeOK
  BY DEF DvrInv
<1>. QED
  BY <1>1, DvrInvHolds, PTL

\* One writer per file, subscriptions within the limit but for one more with every start that
\* failed, and nothing left open that nobody can abort but for those.
THEOREM WritersStayBounded == Spec => []WritersAreBounded
<1>1. DvrInv => WritersAreBounded
  <2> SUFFICES ASSUME DvrInv PROVE WritersAreBounded
    OBVIOUS
  <2> DEFINE Fed == {w \in Writers : writer[w].phase = "writing" /\ writer[w].subscribed}
             E == Active(active)
             F == [w \in Fed |-> writer[w].id]
  <2>1. TypeOK /\ WritersKnowTheirRow /\ OneWriterPerFile /\ CountsHold
    BY DEF DvrInv
  <2>2. \A w \in Writers : writer[w].phase \in {"idle", "writing", "abandoned"}
    BY <2>1 DEF TypeOK, WriterType
  <2>3. Subscribed \in SUBSET (Fed \cup Abandoned) /\ Subscribed \ Held \in SUBSET Abandoned
    <3>1. \A w \in Fed : w \in Held
      BY <2>1, DvrAssumption DEF WritersKnowTheirRow, Held, Active
    <3>2. Subscribed \in SUBSET (Fed \cup Abandoned)
      BY <2>1, <2>2 DEF WritersKnowTheirRow, Subscribed, Abandoned
    <3>. QED
      BY <3>1, <3>2
  <2>4. /\ IsFiniteSet(Fed) /\ Cardinality(Fed) \in Nat
        /\ IsFiniteSet(Abandoned) /\ Cardinality(Abandoned) \in Nat
        /\ IsFiniteSet(E) /\ Cardinality(E) \in Nat
    <3>1. Fed \subseteq Writers /\ Abandoned \subseteq Writers /\ E \subseteq Ids
      BY DEF Abandoned, Active
    <3>. QED
      BY <3>1, RowsAreFinite, WritersAreFinite
  <2>5. F \in Injection(Fed, E)
    <3>1. F \in [Fed -> E]
      BY <2>1, DvrAssumption DEF WritersKnowTheirRow, Active
    <3>2. \A v, w \in Fed : F[v] = F[w] => v = w
      BY <2>1 DEF OneWriterPerFile
    <3>. QED
      BY <3>1, <3>2, Fun_IsInj
  <2>6. Cardinality(Fed) <= Cardinality(E)
    BY <2>4, <2>5, FS_Injection
  <2>7. /\ Cardinality(E) <= maxConcurrent /\ Cardinality(Abandoned) <= faults
        /\ maxConcurrent \in Nat /\ faults \in Nat
    BY <2>1, DvrAssumption DEF CountsHold, TypeOK
  <2> HIDE DEF Fed, E
  <2>8. WithinConcurrency
    <3>1. /\ IsFiniteSet(Fed \cup Abandoned)
          /\ Cardinality(Fed \cup Abandoned) =
               Cardinality(Fed) + Cardinality(Abandoned) - Cardinality(Fed \cap Abandoned)
      BY <2>4, FS_Union
    <3>2. Cardinality(Fed \cap Abandoned) \in Nat
      BY <2>4, FS_Intersection, FS_CardinalityType
    <3>3. Cardinality(Subscribed) <= Cardinality(Fed \cup Abandoned)
          /\ Cardinality(Subscribed) \in Nat
      BY <2>3, <3>1, FS_Subset, FS_CardinalityType
    <3>4. Cardinality(Subscribed) <= maxConcurrent + faults
      BY <2>4, <2>6, <2>7, <3>1, <3>2, <3>3
    <3>. QED
      BY <3>4 DEF WithinConcurrency
  <2>9. OrphansCostAFault
    <3>1. Cardinality(Subscribed \ Held) <= Cardinality(Abandoned)
          /\ Cardinality(Subscribed \ Held) \in Nat
      BY <2>3, <2>4, FS_Subset, FS_CardinalityType
    <3>2. Cardinality(Subscribed \ Held) <= faults
      BY <2>4, <2>7, <3>1
    <3>. QED
      BY <3>2 DEF OrphansCostAFault
  <2>. QED
    BY <2>1, <2>8, <2>9 DEF WritersAreBounded
<1>. QED
  BY <1>1, DvrInvHolds, PTL

\* A row is recording only as long as a writer is at work on it, crashes and shutdowns
\* included, unless the update that closes it failed; a completed one has its file.
THEOREM StatusStaysTrue == Spec => []StatusIsTrue
<1>1. DvrInv => StatusIsTrue
  BY DEF DvrInv, StatusIsTrue, WriterAtWork, NoRowIsStuck, Idle
<1>. QED
  BY <1>1, DvrInvHolds, PTL

\* A recording that has ended is never started again nor given another verdict, whatever
\* ticks, late writers and recoveries do.
THEOREM EndedStaysFinal == Spec => EndedIsFinal
<1>1. DvrInv /\ [Next]_vars =>
        [\A i \in Ids : status[i] \in {"completed", "failed"}
                        => status'[i] \in {status[i], "none"}]_vars
  BY NextKeeps DEF VerdictsStay
<1>. QED
  BY <1>1, DvrInvHolds, PTL DEF Spec, EndedIsFinal
=============================================================================
