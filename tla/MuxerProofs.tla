---------------------------- MODULE MuxerProofs -----------------------------
(***************************************************************************)
(* Theorems about Muxer for any number of viewers, channels, streams,      *)
(* providers and muxes, any budgets and any reconnect budget: its types,   *)
(* the slots, and who shares the upstreams.                                *)
(***************************************************************************)
EXTENDS Muxer, FiniteSetTheorems, SequenceTheorems, TLAPS

(* Lemmas about functions, the pool and the sequences of holds.            *)

\* Overwriting one value of a function by one of the same type keeps its type.
LEMMA ExceptType ==
  ASSUME NEW S, NEW T, NEW f \in [S -> T], NEW x, NEW y \in T
  PROVE  [f EXCEPT ![x] = y] \in [S -> T]
OBVIOUS

\* However many slots are given back, a count stays a natural number.
LEMMA LessSlotsType ==
  ASSUME NEW have \in Nat, NEW n \in Nat
  PROVE  LessSlots(have, n) \in Nat /\ LessSlots(have, n) <= have
BY DEF LessSlots

LEMMA HeldByFinite ==
  ASSUME NEW D \in SUBSET Muxes, NEW p
  PROVE  IsFiniteSet(HeldBy(D, p)) /\ Cardinality(HeldBy(D, p)) \in Nat
<1>1. HeldBy(D, p) \in SUBSET Muxes
  BY DEF HeldBy
<1>. QED
  BY <1>1, MuxerAssumption, FS_Subset, FS_CardinalityType DEF MuxerAssumption

\* Dropping any number of consumers and muxes keeps the types.
LEMMA DropType ==
  ASSUME TypeOK, NEW Q, NEW D \in SUBSET Muxes, Drop(Q, D)
  PROVE  /\ subs' \in [Muxes -> SUBSET Consumers]
         /\ graceTimer' \in [Muxes -> BOOLEAN]
         /\ stopping' \in [Muxes -> BOOLEAN]
         /\ started' \in [Muxes -> BOOLEAN]
         /\ used' \in [Providers -> Nat]
         /\ liveStreamIds' \subseteq Streams
         /\ active' \in [Streams -> Muxes \cup {None}]
<1>1. used' \in [Providers -> Nat]
  <2>1. \A p \in Providers : LessSlots(used[p], Cardinality(HeldBy(D, p))) \in Nat
    BY HeldByFinite, LessSlotsType DEF TypeOK, SelectorTypeOK, PoolTypeOK
  <2>. QED
    BY <2>1 DEF Drop
<1>2. subs' \in [Muxes -> SUBSET Consumers]
  BY DEF TypeOK, Drop
<1>3. /\ graceTimer' \in [Muxes -> BOOLEAN]
      /\ stopping' \in [Muxes -> BOOLEAN]
      /\ started' \in [Muxes -> BOOLEAN]
  BY DEF TypeOK, Drop, TimersAfterDrop
<1>4. liveStreamIds' \subseteq Streams
  BY DEF TypeOK, SelectorTypeOK, Drop
<1>5. active' \in [Streams -> Muxes \cup {None}]
  BY DEF TypeOK, Drop, KeysWithout
<1>. QED
  BY <1>1, <1>2, <1>3, <1>4, <1>5

LEMMA AbortedType ==
  ASSUME TypeOK, NEW D
  PROVE  Aborted(D) \in [Muxes -> Phases]
BY DEF TypeOK, Aborted, Phases

LEMMA SelectionsAreStreams ==
  ASSUME NEW c
  PROVE  Selections(c) \subseteq Streams
BY DEF Selections, FirstRanked, Sources

LEMMA OpenReturnsType ==
  ASSUME TypeOK, NEW v, OpenReturns(v)
  PROVE  /\ opening' \in [Consumers -> Opening]
         /\ tuned' \in [Consumers -> Channels \cup {None}]
         /\ picked' \in [Consumers -> Streams \cup {None}]
         /\ attempt' \in [Consumers -> 0 .. OPEN_ATTEMPTS]
<1>1. opening' \in [Consumers -> Opening]
  BY DEF TypeOK, OpenReturns, Opening
<1>2. /\ tuned' \in [Consumers -> Channels \cup {None}]
      /\ picked' \in [Consumers -> Streams \cup {None}]
  BY DEF TypeOK, OpenReturns
<1>3. attempt' \in [Consumers -> 0 .. OPEN_ATTEMPTS]
  <2>1. 0 \in 0 .. OPEN_ATTEMPTS
    BY MuxerAssumption DEF MuxerAssumption
  <2>. QED
    BY <2>1, ExceptType DEF TypeOK, OpenReturns
<1>. QED
  BY <1>1, <1>2, <1>3

LEMMA AttachType ==
  ASSUME TypeOK, NEW v \in Consumers, NEW m, Attach(v, m)
  PROVE  /\ subs' \in [Muxes -> SUBSET Consumers]
         /\ graceTimer' \in [Muxes -> BOOLEAN]
         /\ cooling' \subseteq Channels
         /\ holds' \in Seq(Channels)
<1>1. subs' \in [Muxes -> SUBSET Consumers] /\ graceTimer' \in [Muxes -> BOOLEAN]
  BY DEF TypeOK, Attach, TimersAfterAttach
<1>2. cooling' \subseteq Channels /\ holds' \in Seq(Channels)
  BY AppendProperties DEF TypeOK, Attach
<1>. QED
  BY <1>1, <1>2

-----------------------------------------------------------------------------
(* Type correctness.  TypeOK is not inductive: a dial needs the stream the *)
(* open has picked, and a failover the stream the mux has had.             *)

\* An open that dials, or undoes its dial, has picked a stream.
DialsKnown ==
  \A v \in Consumers : opening[v] \in {"dial", "undo"} => picked[v] \in Streams

\* A mux that is running, or believes it holds a slot, has a source; a mux in
\* its backoff holds no slot.
SourceKnown ==
  \A m \in Muxes :
    /\ started[m] \/ phase[m] \in Pumping \cup {"nap", "backoff"} => stream[m] \in Streams
    /\ phase[m] = "backoff" => ~started[m]

TypeInv == TypeOK /\ DialsKnown /\ SourceKnown

\* The slots after nextSource's release are a natural number per provider.
LEMMA ReleasedType ==
  ASSUME TypeOK, NEW m
  PROVE  SlotsAfterFailure(m) \in [Providers -> Nat]
<1>1. \A n \in Nat : LessSlots(n, 1) \in Nat
  BY LessSlotsType
<1>. QED
  BY <1>1 DEF TypeOK, SelectorTypeOK, PoolTypeOK, SlotsAfterFailure, Released

LEMMA AcquiredType ==
  ASSUME NEW u \in [Providers -> Nat], NEW p \in Providers
  PROVE  Acquired(u, p) \in [Providers -> Nat]
<1>1. u[p] + 1 \in Nat
  OBVIOUS
<1>. QED
  BY <1>1, ExceptType DEF Acquired

LEMMA InitType == Init => TypeOK
<1>. SUFFICES ASSUME Init PROVE TypeOK
  OBVIOUS
<1>1. SelectorTypeOK
  BY MuxerAssumption DEF Init, SelectorTypeOK, PoolTypeOK, Healths, Verdicts, MuxerAssumption
<1>. QED
  BY <1>1, MuxerAssumption DEF Init, TypeOK, Phases, Opening, MuxerAssumption

LEMMA OpenBeginsType ==
  ASSUME TypeOK, NEW v \in Consumers, NEW c \in Channels, OpenBegins(v, c)
  PROVE  TypeOK'
BY DEF TypeOK, SelectorTypeOK, PoolTypeOK, OpenBegins, Opening, poolVars,
       selectorVars, muxVars, ringVars

LEMMA OpenStepType ==
  ASSUME TypeOK, DialsKnown, NEW v \in Consumers, OpenStep(v)
  PROVE  TypeOK'
<1>1. ASSUME PickSource(v) PROVE TypeOK'
  BY <1>1, SelectionsAreStreams
     DEF TypeOK, SelectorTypeOK, PoolTypeOK, PickSource, Opening, poolVars,
         selectorVars, muxVars, ringVars
<1>2. ASSUME Evict(v) PROVE TypeOK'
  <2>1. PICK n \in 0 .. Len(holds) :
          /\ ReleaseHolds({holds[i] : i \in 1 .. n})
          /\ holds' = SubSeq(holds, n + 1, Len(holds))
          /\ \/ /\ opening' = [opening EXCEPT ![v] = "reselect"]
                /\ UNCHANGED <<tuned, picked, attempt>>
             \/ OpenReturns(v)
          /\ UNCHANGED <<max, health, verdict, stream, failed, reconnects, longRun, cooling>>
    BY <1>2 DEF Evict
  <2>2. PICK D \in SUBSET Muxes : Drop({holds[i] : i \in 1 .. n}, D) /\ phase' = Aborted(D)
    BY <2>1 DEF ReleaseHolds
  <2>3. holds' \in Seq(Channels)
    <3>1. holds \in Seq(Channels)
      BY DEF TypeOK
    <3>2. Len(holds) \in Nat /\ \A i \in n + 1 .. Len(holds) : holds[i] \in Channels
      BY <3>1, <2>1
    <3>. QED
      BY <2>1, <3>2, SubSeqProperties
  <2>4. /\ opening' \in [Consumers -> Opening]
        /\ tuned' \in [Consumers -> Channels \cup {None}]
        /\ picked' \in [Consumers -> Streams \cup {None}]
        /\ attempt' \in [Consumers -> 0 .. OPEN_ATTEMPTS]
    <3>1. CASE OpenReturns(v)
      BY <3>1, OpenReturnsType
    <3>2. CASE /\ opening' = [opening EXCEPT ![v] = "reselect"]
               /\ UNCHANGED <<tuned, picked, attempt>>
      BY <3>2 DEF TypeOK, Opening
    <3>. QED
      BY <2>1, <3>1, <3>2
  <2>. QED
    BY <2>1, <2>2, <2>3, <2>4, DropType, AbortedType DEF TypeOK, SelectorTypeOK, PoolTypeOK
<1>3. ASSUME Reselect(v) PROVE TypeOK'
  <2>1. CASE PickSource(v)
    BY <2>1, <1>1
  <2>2. CASE OpenReturns(v) /\ UNCHANGED <<poolVars, selectorVars, muxVars, ringVars>>
    BY <2>2, OpenReturnsType
       DEF TypeOK, SelectorTypeOK, PoolTypeOK, poolVars, selectorVars, muxVars, ringVars
  <2>. QED
    BY <1>3, <2>1, <2>2 DEF Reselect
<1>4. ASSUME JoinActive(v) PROVE TypeOK'
  <2>1. PICK m : Attach(v, m)
    BY <1>4 DEF JoinActive
  <2>2. OpenReturns(v)
    BY <2>1 DEF Attach
  <2>. QED
    BY <1>4, <2>1, <2>2, AttachType, OpenReturnsType
       DEF JoinActive, TypeOK, SelectorTypeOK, PoolTypeOK, poolVars, selectorVars
<1>5. ASSUME NEW m \in Muxes, NEW s \in Streams \cup {None}, Construct(m, s)
      PROVE  /\ stream' \in [Muxes -> Streams \cup {None}]
             /\ stopping' \in [Muxes -> BOOLEAN]
             /\ failed' \in [Muxes -> SUBSET Streams]
             /\ reconnects' \in [Muxes -> 0 .. RECONNECT_MAX]
             /\ longRun' \in [Muxes -> BOOLEAN]
             /\ active' \in [Streams -> Muxes \cup {None}]
  <2>1. 0 \in 0 .. RECONNECT_MAX
    BY MuxerAssumption DEF MuxerAssumption
  <2>2. reconnects' \in [Muxes -> 0 .. RECONNECT_MAX]
    BY <1>5, <2>1, ExceptType DEF TypeOK, Construct
  <2>. QED
    BY <1>5, <2>2 DEF TypeOK, Construct
<1>6. ASSUME NEW m \in Muxes, StartMux(v, m), opening[v] = "dial" PROVE TypeOK'
  <2>. picked[v] \in Streams
    BY <1>6 DEF DialsKnown
  <2>1. OpenReturns(v) /\ Attach(v, m) /\ Construct(m, picked[v])
    BY <1>6 DEF StartMux, Attach
  <2>2. used' \in [Providers -> Nat]
    BY <1>6, AcquiredType, StreamsAssumption
       DEF StartMux, TypeOK, SelectorTypeOK, PoolTypeOK, StreamsAssumption
  <2>3. /\ started' \in [Muxes -> BOOLEAN]
        /\ liveStreamIds' \subseteq Streams
        /\ phase' \in [Muxes -> Phases]
        /\ UNCHANGED <<max, health, verdict>>
    BY <1>6 DEF StartMux, TypeOK, SelectorTypeOK, Phases, Pumping
  <2>. QED
    BY <2>1, <2>2, <2>3, <1>5, <1>6, AttachType, OpenReturnsType
       DEF TypeOK, SelectorTypeOK, PoolTypeOK
<1>7. ASSUME NEW m \in Muxes, StartFails(v, m), opening[v] = "dial" PROVE TypeOK'
  <2>. picked[v] \in Streams
    BY <1>7 DEF DialsKnown
  <2>1. Construct(m, picked[v])
    BY <1>7 DEF StartFails
  <2>2. /\ phase' \in [Muxes -> Phases]
        /\ started' \in [Muxes -> BOOLEAN]
        /\ opening' \in [Consumers -> Opening]
    BY <1>7 DEF StartFails, TypeOK, Phases, Opening
  <2>. QED
    BY <1>5, <1>7, <2>1, <2>2
       DEF StartFails, TypeOK, SelectorTypeOK, PoolTypeOK, poolVars, selectorVars
<1>8. ASSUME UndoStart(v) PROVE TypeOK'
  <2>1. active' \in [Streams -> Muxes \cup {None}]
    BY <1>8 DEF UndoStart, TypeOK
  <2>2. CASE OpenReturns(v)
    BY <1>8, <2>1, <2>2, OpenReturnsType
       DEF UndoStart, TypeOK, SelectorTypeOK, PoolTypeOK, poolVars, selectorVars, muxVars
  <2>3. CASE /\ TriesLeft(v)
             /\ attempt' = [attempt EXCEPT ![v] = @ + 1]
             /\ opening' = [opening EXCEPT ![v] = "select"]
             /\ picked' = [picked EXCEPT ![v] = None]
             /\ UNCHANGED tuned
    <3>1. attempt' \in [Consumers -> 0 .. OPEN_ATTEMPTS]
      BY <2>3, MuxerAssumption DEF TypeOK, TriesLeft, MuxerAssumption
    <3>2. opening' \in [Consumers -> Opening] /\ picked' \in [Consumers -> Streams \cup {None}]
      BY <2>3 DEF TypeOK, Opening
    <3>. QED
      BY <1>8, <2>1, <2>3, <3>1, <3>2
         DEF UndoStart, TypeOK, SelectorTypeOK, PoolTypeOK, poolVars, selectorVars, muxVars
  <2>. QED
    BY <1>8, <2>2, <2>3 DEF UndoStart
<1>. QED
  BY <1>1, <1>2, <1>3, <1>4, <1>6, <1>7, <1>8 DEF OpenStep, Select, Dial

\* run()'s own steps; only a failover and a give-up need to know the source.
LEMMA RunStepType ==
  ASSUME TypeOK, SourceKnown, NEW m \in Muxes, RunStep(m)
  PROVE  TypeOK'
<1>1. ASSUME NEW at \in Phases, Becomes(m, at) PROVE phase' \in [Muxes -> Phases]
  BY <1>1 DEF Becomes, TypeOK
<1>2. CASE \E at \in Phases :
             /\ Becomes(m, at)
             /\ UNCHANGED <<poolVars, selectorVars, stream, subs, started, stopping, failed,
                            reconnects, longRun, graceTimer, openVars, ringVars>>
  BY <1>1, <1>2
     DEF TypeOK, SelectorTypeOK, PoolTypeOK, poolVars, selectorVars, openVars, ringVars
<1>3. CASE TimePasses(m)
  BY <1>3 DEF TimePasses, TypeOK, SelectorTypeOK, PoolTypeOK, poolVars, selectorVars,
              openVars, ringVars
<1>4. CASE PumpDone(m)
  <2>1. /\ subs' \in [Muxes -> SUBSET Consumers]
        /\ graceTimer' \in [Muxes -> BOOLEAN]
        /\ stopping' \in [Muxes -> BOOLEAN]
        /\ started' \in [Muxes -> BOOLEAN]
        /\ used' \in [Providers -> Nat]
        /\ liveStreamIds' \subseteq Streams
        /\ active' \in [Streams -> Muxes \cup {None}]
    <3>1. CASE Drop({}, {m})
      BY <3>1, DropType
    <3>2. CASE UNCHANGED <<used, liveStreamIds, subs, started, stopping, graceTimer, active>>
      BY <3>2 DEF TypeOK, SelectorTypeOK, PoolTypeOK
    <3>. QED
      BY <1>4, <3>1, <3>2 DEF PumpDone
  <2>2. phase' \in [Muxes -> Phases]
    BY <1>1, <1>4 DEF PumpDone, Phases
  <2>. QED
    BY <1>4, <2>1, <2>2 DEF PumpDone, TypeOK, SelectorTypeOK, PoolTypeOK, openVars
<1>5. CASE NapEnds(m)
  <2>. stream[m] \in Streams
    BY <1>5 DEF NapEnds, SourceKnown
  <2>1. failed' \in [Muxes -> SUBSET Streams] /\ phase' \in [Muxes -> Phases]
    <3>1. failed' = [failed EXCEPT ![m] = failed[m] \cup {stream[m]}]
      BY <1>5 DEF NapEnds, FailOver, BackOff, BudgetSpent
    <3>2. failed[m] \cup {stream[m]} \in SUBSET Streams
      BY DEF TypeOK
    <3>3. Becomes(m, "silent") \/ Becomes(m, "backoff") \/ Becomes(m, "ended")
      BY <1>5 DEF NapEnds, FailOver, BackOff, BudgetSpent, GiveUp
    <3>4. {"silent", "backoff", "ended"} \subseteq Phases
      BY DEF Phases, Pumping
    <3>. QED
      BY <3>1, <3>2, <3>3, <3>4, <1>1, ExceptType DEF TypeOK
  <2>2. CASE FailOver(m)
    <3>1. PICK s \in Streams :
            /\ used' = Acquired(SlotsAfterFailure(m), ProviderOf[s])
            /\ liveStreamIds' = LiveAfterFailure(m) \cup {s}
            /\ stream' = [stream EXCEPT ![m] = s]
            /\ active' = [active EXCEPT ![stream[m]] = IF @ = m THEN None ELSE @, ![s] = m]
      BY <2>2 DEF FailOver, FirstRanked, Alternates, Sources
    <3>2. used' \in [Providers -> Nat]
      BY <3>1, ReleasedType, AcquiredType, StreamsAssumption DEF StreamsAssumption
    <3>3. reconnects' \in [Muxes -> 0 .. RECONNECT_MAX]
      <4>1. 0 \in 0 .. RECONNECT_MAX
        BY MuxerAssumption DEF MuxerAssumption
      <4>. QED
        BY <2>2, <4>1, ExceptType DEF FailOver, TypeOK
    <3>4. /\ liveStreamIds' \subseteq Streams
          /\ stream' \in [Muxes -> Streams \cup {None}]
          /\ started' \in [Muxes -> BOOLEAN]
          /\ longRun' \in [Muxes -> BOOLEAN]
      BY <2>2, <3>1 DEF FailOver, LiveAfterFailure, TypeOK, SelectorTypeOK
    <3>5. active' \in [Streams -> Muxes \cup {None}]
      BY <3>1 DEF TypeOK
    <3>. QED
      BY <2>1, <2>2, <3>2, <3>3, <3>4, <3>5
         DEF FailOver, TypeOK, SelectorTypeOK, PoolTypeOK, openVars
  <2>3. CASE BackOff(m)
    <3>1. reconnects' \in [Muxes -> 0 .. RECONNECT_MAX]
      <4>1. Attempts(m) + 1 \in 0 .. RECONNECT_MAX
        BY <2>3, MuxerAssumption DEF BackOff, BudgetLeft, Attempts, TypeOK, MuxerAssumption
      <4>. QED
        BY <2>3, <4>1, ExceptType DEF BackOff, TypeOK
    <3>2. liveStreamIds' \subseteq Streams /\ started' \in [Muxes -> BOOLEAN]
      BY <2>3 DEF BackOff, LiveAfterFailure, TypeOK, SelectorTypeOK
    <3>. QED
      BY <2>1, <2>3, <3>1, <3>2, ReleasedType
         DEF BackOff, TypeOK, SelectorTypeOK, PoolTypeOK, openVars, ringVars
  <2>4. CASE BudgetSpent(m)
    <3>1. liveStreamIds' \subseteq Streams /\ used' \in [Providers -> Nat]
      BY <2>4, ReleasedType DEF BudgetSpent, GiveUp, LiveAfterFailure, TypeOK, SelectorTypeOK
    <3>2. cooling' \subseteq Channels
      BY <2>4, StreamsAssumption DEF BudgetSpent, GiveUp, TypeOK, StreamsAssumption
    <3>. QED
      BY <2>1, <2>4, <3>1, <3>2
         DEF BudgetSpent, GiveUp, KeysWithout, TypeOK, SelectorTypeOK, PoolTypeOK, openVars
  <2>. QED
    BY <1>5, <2>2, <2>3, <2>4 DEF NapEnds
<1>6. CASE BackoffEnds(m)
  <2>. stream[m] \in Streams
    BY <1>6 DEF BackoffEnds, SourceKnown
  <2>1. CASE Reconnect(m)
    <3>1. used' \in [Providers -> Nat]
      BY <2>1, AcquiredType, StreamsAssumption
         DEF Reconnect, Provider, TypeOK, SelectorTypeOK, PoolTypeOK, StreamsAssumption
    <3>2. phase' \in [Muxes -> Phases]
      BY <1>1, <2>1 DEF Reconnect, Phases, Pumping
    <3>. QED
      BY <2>1, <3>1, <3>2
         DEF Reconnect, TypeOK, SelectorTypeOK, PoolTypeOK, openVars, ringVars
  <2>2. CASE GiveUp(m, used, liveStreamIds) /\ UNCHANGED failed
    <3>1. cooling' \subseteq Channels
      BY <2>2, StreamsAssumption DEF GiveUp, TypeOK, StreamsAssumption
    <3>2. phase' \in [Muxes -> Phases]
      BY <1>1, <2>2 DEF GiveUp, Phases
    <3>. QED
      BY <2>2, <3>1, <3>2
         DEF GiveUp, KeysWithout, TypeOK, SelectorTypeOK, PoolTypeOK, openVars
  <2>. QED
    BY <1>6, <2>1, <2>2 DEF BackoffEnds
<1>7. CASE GraceExpires(m)
  <2>1. CASE Drop({}, {m}) /\ phase' = Aborted({m})
    BY <1>7, <2>1, DropType, AbortedType
       DEF GraceExpires, TypeOK, SelectorTypeOK, PoolTypeOK, openVars
  <2>2. CASE /\ graceTimer' = [graceTimer EXCEPT ![m] = FALSE]
             /\ UNCHANGED <<used, liveStreamIds, phase, subs, started, stopping, active>>
    BY <1>7, <2>2 DEF GraceExpires, TypeOK, SelectorTypeOK, PoolTypeOK, openVars
  <2>. QED
    BY <1>7, <2>1, <2>2 DEF GraceExpires
<1>8. {"silent", "pulling", "ended"} \subseteq Phases
  BY DEF Phases, Pumping
<1>. QED
  BY <1>2, <1>3, <1>4, <1>5, <1>6, <1>7, <1>8
     DEF RunStep, TimerStep, BytesArrive, SourceStalls, SourceEnds, WatchdogAborts, PumpUnwinds

\* A warm hold is released: the sequence loses one entry.
LEMMA HoldReleasedType ==
  ASSUME TypeOK, NEW i \in DOMAIN holds, HoldReleased(i)
  PROVE  TypeOK'
<1>1. PICK D \in SUBSET Muxes : Drop({holds[i]}, D) /\ phase' = Aborted(D)
  BY DEF HoldReleased, ReleaseHolds
<1>2. holds' \in Seq(Channels)
  <2>1. holds \in Seq(Channels) /\ i \in 1 .. Len(holds) /\ Len(holds) \in Nat
    BY DEF TypeOK
  <2>2. holds' = SubSeq(holds, 1, i - 1) \o SubSeq(holds, i + 1, Len(holds))
    BY <2>1 DEF HoldReleased, RemoveAt
  <2>3. /\ SubSeq(holds, 1, i - 1) \in Seq(Channels)
        /\ SubSeq(holds, i + 1, Len(holds)) \in Seq(Channels)
    <3>1. \A j \in 1 .. Len(holds) : holds[j] \in Channels
      BY <2>1
    <3>. QED
      BY <2>1, <3>1, SubSeqProperties
  <2>. QED
    BY <2>2, <2>3, ConcatProperties
<1>. QED
  BY <1>1, <1>2, DropType, AbortedType
     DEF HoldReleased, TypeOK, SelectorTypeOK, PoolTypeOK, openVars

\* What the rest of the process does.
LEMMA OutsideType ==
  ASSUME TypeOK,
         \/ \E v \in Viewers : ViewerLeaves(v)
         \/ \E c \in Channels : CooldownExpires(c)
         \/ HealthChanges \/ BudgetChanges \/ UNCHANGED vars
  PROVE  TypeOK'
<1>1. ASSUME NEW v \in Viewers, ViewerLeaves(v) PROVE TypeOK'
  BY <1>1, DropType DEF ViewerLeaves, TypeOK, SelectorTypeOK, PoolTypeOK, openVars
<1>2. ASSUME NEW c \in Channels, CooldownExpires(c) PROVE TypeOK'
  BY <1>2 DEF CooldownExpires, TypeOK, SelectorTypeOK, PoolTypeOK, poolVars, selectorVars,
              muxVars, openVars
<1>3. CASE HealthChanges
  BY <1>3 DEF HealthChanges, TypeOK, SelectorTypeOK, PoolTypeOK, poolVars, muxVars,
              openVars, ringVars
<1>4. CASE BudgetChanges
  <2>1. max' \in [Providers -> Nat] /\ UNCHANGED used
    BY <1>4, MuxerAssumption
       DEF BudgetChanges, SetBudget, TypeOK, SelectorTypeOK, PoolTypeOK, MuxerAssumption
  <2>. QED
    BY <1>4, <2>1 DEF BudgetChanges, TypeOK, SelectorTypeOK, PoolTypeOK, selectorVars, muxVars,
                      openVars, ringVars
<1>5. CASE UNCHANGED vars
  BY <1>5 DEF vars, TypeOK, SelectorTypeOK, PoolTypeOK, poolVars, selectorVars, muxVars,
              openVars, ringVars
<1>. QED
  BY <1>1, <1>2, <1>3, <1>4, <1>5

LEMMA StepType ==
  ASSUME TypeOK, DialsKnown, SourceKnown, [Next]_vars
  PROVE  TypeOK'
<1>1. ASSUME NEW v \in Viewers, NEW c \in Channels, Tune(v, c) PROVE TypeOK'
  BY <1>1, OpenBeginsType DEF Tune, Consumers
<1>2. ASSUME NEW c \in Channels, Warm(c) PROVE TypeOK'
  BY <1>2, OpenBeginsType DEF Warm, Consumers
<1>3. ASSUME NEW v \in Consumers, OpenStep(v) PROVE TypeOK'
  BY <1>3, OpenStepType
<1>4. ASSUME NEW i \in DOMAIN holds, HoldReleased(i) PROVE TypeOK'
  BY <1>4, HoldReleasedType
<1>5. ASSUME NEW m \in Muxes, RunStep(m) PROVE TypeOK'
  BY <1>5, RunStepType
<1>. QED
  BY <1>1, <1>2, <1>3, <1>4, <1>5, OutsideType DEF Next

\* Only an open's own steps move it, and it dials with what it picked.
LEMMA StepDials ==
  ASSUME TypeOK, DialsKnown, [Next]_vars
  PROVE  DialsKnown'
<1>1. CASE UNCHANGED <<opening, picked>>
  BY <1>1 DEF DialsKnown
<1>2. ASSUME NEW v \in Consumers, OpenReturns(v) PROVE DialsKnown'
  BY <1>2 DEF OpenReturns, DialsKnown, TypeOK
<1>3. ASSUME NEW v \in Consumers, NEW at \in Opening \ {"dial", "undo"},
             opening' = [opening EXCEPT ![v] = at],
             picked' = picked \/ picked' = [picked EXCEPT ![v] = None]
      PROVE  DialsKnown'
  BY <1>3 DEF DialsKnown, TypeOK
<1>4. ASSUME NEW v \in Consumers, PickSource(v) PROVE DialsKnown'
  BY <1>4, SelectionsAreStreams DEF PickSource, DialsKnown, TypeOK
<1>5. {"off", "select", "reselect"} \subseteq Opening \ {"dial", "undo"}
  BY DEF Opening
<1>6. ASSUME NEW v \in Consumers, NEW c, OpenBegins(v, c) PROVE DialsKnown'
  BY <1>6, <1>3, <1>5 DEF OpenBegins
<1>7. ASSUME NEW v \in Consumers, OpenStep(v) PROVE DialsKnown'
  <2>1. CASE Evict(v)
    BY <2>1, <1>2, <1>3, <1>5 DEF Evict
  <2>2. CASE Reselect(v)
    BY <2>2, <1>2, <1>4 DEF Reselect
  <2>3. CASE JoinActive(v)
    BY <2>3, <1>2 DEF JoinActive, Attach
  <2>4. ASSUME NEW m, StartMux(v, m) PROVE DialsKnown'
    BY <2>4, <1>2 DEF StartMux, Attach
  <2>5. ASSUME NEW m, StartFails(v, m), opening[v] = "dial" PROVE DialsKnown'
    BY <2>5 DEF StartFails, DialsKnown, TypeOK
  <2>6. CASE UndoStart(v)
    BY <2>6, <1>2, <1>3, <1>5 DEF UndoStart
  <2>. QED
    BY <1>4, <1>7, <2>1, <2>2, <2>3, <2>4, <2>5, <2>6 DEF OpenStep, Select, Dial
<1>8. ASSUME NEW m, RunStep(m) PROVE UNCHANGED <<opening, picked>>
  BY <1>8 DEF RunStep, TimerStep, BytesArrive, SourceStalls, SourceEnds, WatchdogAborts,
              PumpUnwinds, PumpDone, TimePasses, NapEnds, FailOver, BackOff, BudgetSpent,
              GiveUp, BackoffEnds, Reconnect, GraceExpires, openVars
<1>. QED
  BY <1>1, <1>6, <1>7, <1>8
     DEF Next, Tune, Warm, Consumers, ViewerLeaves, HoldReleased, CooldownExpires,
         HealthChanges, BudgetChanges, vars, openVars

\* Dropping muxes sets no phase but "closing" and grants no slot.
LEMMA DropKeepsSource ==
  ASSUME TypeOK, SourceKnown, NEW Q, NEW D, Drop(Q, D), UNCHANGED stream,
         \A m \in Muxes : phase'[m] \in {phase[m], "closing", "ended"}
  PROVE  SourceKnown'
BY DEF Drop, SourceKnown, TypeOK, Pumping

LEMMA AbortedPhases ==
  ASSUME NEW D, phase' = Aborted(D)
  PROVE  \A m \in Muxes : phase'[m] \in {phase[m], "closing", "ended"}
BY DEF Aborted

\* A mux gets a source when it is constructed and keeps one from then on.
LEMMA StepSource ==
  ASSUME TypeOK, DialsKnown, SourceKnown, [Next]_vars
  PROVE  SourceKnown'
<1>1. CASE UNCHANGED <<started, phase, stream>>
  BY <1>1 DEF SourceKnown
<1>2. ASSUME NEW C, ReleaseHolds(C), UNCHANGED stream PROVE SourceKnown'
  BY <1>2, AbortedPhases, DropKeepsSource DEF ReleaseHolds
<1>3. ASSUME NEW v \in Viewers, ViewerLeaves(v) PROVE SourceKnown'
  BY <1>3, DropKeepsSource DEF ViewerLeaves
<1>4. ASSUME NEW v \in Consumers, OpenStep(v) PROVE SourceKnown'
  <2>1. CASE Evict(v)
    BY <2>1, <1>2 DEF Evict
  <2>2. ASSUME NEW m \in Muxes, StartMux(v, m), opening[v] = "dial" PROVE SourceKnown'
    BY <2>2 DEF StartMux, Construct, DialsKnown, SourceKnown, TypeOK
  <2>3. ASSUME NEW m \in Muxes, StartFails(v, m), opening[v] = "dial" PROVE SourceKnown'
    BY <2>3 DEF StartFails, Construct, DialsKnown, SourceKnown, TypeOK, Pumping
  <2>4. CASE PickSource(v) \/ Reselect(v) \/ JoinActive(v) \/ UndoStart(v)
    BY <2>4, <1>1 DEF PickSource, Reselect, JoinActive, UndoStart, muxVars
  <2>. QED
    BY <1>4, <2>1, <2>2, <2>3, <2>4 DEF OpenStep, Select, Dial
<1>5. ASSUME NEW m \in Muxes, RunStep(m) PROVE SourceKnown'
  <2>1. CASE BytesArrive(m) \/ SourceStalls(m) \/ PumpUnwinds(m)
    BY <2>1 DEF BytesArrive, SourceStalls, PumpUnwinds, Becomes, SourceKnown, TypeOK, Pumping
  <2>2. CASE TimePasses(m)
    BY <2>2, <1>1 DEF TimePasses
  <2>3. ASSUME PumpDone(m), phase[m] \in Pumping PROVE SourceKnown'
    <3>1. CASE Drop({}, {m}) /\ Becomes(m, "ended")
      <4>1. \A n \in Muxes : phase'[n] \in {phase[n], "closing", "ended"}
        BY <3>1 DEF Becomes, TypeOK
      <4>. QED
        BY <2>3, <3>1, <4>1, DropKeepsSource DEF PumpDone
    <3>2. CASE (Becomes(m, "ended") \/ Becomes(m, "nap")) /\ UNCHANGED started
      BY <2>3, <3>2 DEF PumpDone, Becomes, SourceKnown, TypeOK, Pumping
    <3>. QED
      BY <2>3, <3>1, <3>2 DEF PumpDone
  <2>4. CASE NapEnds(m)
    <3>1. CASE FailOver(m)
      BY <3>1 DEF FailOver, FirstRanked, Alternates, Sources, Becomes, SourceKnown, TypeOK
    <3>2. CASE BackOff(m)
      BY <2>4, <3>2 DEF NapEnds, BackOff, Becomes, SourceKnown, TypeOK
    <3>3. CASE BudgetSpent(m)
      BY <3>3 DEF BudgetSpent, GiveUp, Becomes, SourceKnown, TypeOK, Pumping
    <3>. QED
      BY <2>4, <3>1, <3>2, <3>3 DEF NapEnds
  <2>5. CASE BackoffEnds(m)
    <3>1. CASE Reconnect(m)
      BY <2>5, <3>1 DEF BackoffEnds, Reconnect, Becomes, SourceKnown, TypeOK
    <3>2. CASE GiveUp(m, used, liveStreamIds)
      BY <3>2 DEF GiveUp, Becomes, SourceKnown, TypeOK, Pumping
    <3>. QED
      BY <2>5, <3>1, <3>2 DEF BackoffEnds
  <2>6. CASE GraceExpires(m)
    <3>1. CASE Drop({}, {m}) /\ phase' = Aborted({m})
      BY <2>6, <3>1, AbortedPhases, DropKeepsSource DEF GraceExpires
    <3>. QED
      BY <2>6, <3>1, <1>1 DEF GraceExpires
  <2>. QED
    BY <1>5, <2>1, <2>2, <2>3, <2>4, <2>5, <2>6
       DEF RunStep, TimerStep, SourceEnds, WatchdogAborts, WatchdogDue, Pumping
<1>6. ASSUME NEW i, HoldReleased(i) PROVE SourceKnown'
  BY <1>6, <1>2 DEF HoldReleased
<1>. QED
  BY <1>1, <1>3, <1>4, <1>5, <1>6
     DEF Next, Tune, Warm, OpenBegins, CooldownExpires, HealthChanges, BudgetChanges,
         muxVars, vars

LEMMA InitTypeInv == Init => TypeInv
<1>1. Init => DialsKnown
  BY DEF Init, DialsKnown
<1>2. Init => SourceKnown
  BY DEF Init, SourceKnown, Pumping
<1>. QED
  BY <1>1, <1>2, InitType DEF TypeInv

LEMMA StepTypeInv == TypeInv /\ [Next]_vars => TypeInv'
BY StepType, StepDials, StepSource DEF TypeInv

LEMMA TypeInvHolds == Spec => []TypeInv
BY InitTypeInv, StepTypeInv, PTL DEF Spec

\* Whatever viewers, sources, timers and budgets do, in any order: every variable
\* keeps its type.
THEOREM TypeCorrect == Spec => []TypeOK
<1>1. TypeInv => TypeOK
  BY DEF TypeInv
<1>. QED
  BY <1>1, TypeInvHolds, PTL

-----------------------------------------------------------------------------
(***************************************************************************)
(* Slots: none leaks, and without warm holds the pool's count is exact.    *)
(***************************************************************************)

(* The slot holders as a set.                                              *)

\* The muxes that believe they hold a slot of p, whatever became of their run().
Believers(p) == {m \in Muxes : started[m] /\ Provider(m) = p}

BelieversCover == \A p \in Providers : used[p] <= Cardinality(Believers(p))
BelieversMatch == \A p \in Providers : used[p] = Cardinality(Believers(p))

LEMMA HoldersFinite ==
  ASSUME NEW p
  PROVE  IsFiniteSet(Believers(p)) /\ Cardinality(Believers(p)) \in Nat
<1>1. Believers(p) \in SUBSET Muxes
  BY DEF Believers
<1>. QED
  BY <1>1, MuxerAssumption, FS_Subset, FS_CardinalityType DEF MuxerAssumption

LEMMA SubsetCount ==
  ASSUME NEW S, IsFiniteSet(S), NEW T \in SUBSET S
  PROVE  /\ Cardinality(S \ T) = LessSlots(Cardinality(S), Cardinality(T))
         /\ Cardinality(S \ T) \in Nat /\ Cardinality(T) \in Nat
<1>1. S \cap T = T
  OBVIOUS
<1>2. /\ Cardinality(S \ T) = Cardinality(S) - Cardinality(T)
      /\ Cardinality(T) <= Cardinality(S)
      /\ Cardinality(S) \in Nat /\ Cardinality(T) \in Nat
  BY <1>1, FS_Difference, FS_Subset, FS_CardinalityType
<1>. QED
  BY <1>2 DEF LessSlots

\* What is left of a set after an element leaves or joins it.
LEMMA ElementCount ==
  ASSUME NEW S, IsFiniteSet(S), NEW x
  PROVE  /\ Cardinality(S \ {x}) \in Nat
         /\ x \in S => Cardinality(S \ {x}) = LessSlots(Cardinality(S), 1)
         /\ Cardinality(S \ {x}) >= LessSlots(Cardinality(S), 1)
         /\ Cardinality((S \ {x}) \cup {x}) = Cardinality(S \ {x}) + 1
<1>1. Cardinality(S) \in Nat /\ IsFiniteSet(S \ {x}) /\ Cardinality(S \ {x}) \in Nat
  BY FS_CardinalityType, FS_RemoveElement, FS_Subset
<1>2. x \in S => Cardinality(S \ {x}) = Cardinality(S) - 1
  BY FS_RemoveElement
<1>3. x \notin S => S \ {x} = S
  OBVIOUS
<1>4. x \in S => Cardinality(S) # 0
  BY FS_EmptySet
<1>5. Cardinality((S \ {x}) \cup {x}) = Cardinality(S \ {x}) + 1
  BY <1>1, FS_AddElement
<1>6. CASE x \in S
  BY <1>1, <1>2, <1>4, <1>5, <1>6 DEF LessSlots
<1>7. CASE x \notin S
  <2>1. Cardinality(S \ {x}) = Cardinality(S)
    BY <1>3, <1>7
  <2>. QED
    BY <1>1, <1>5, <1>7, <2>1 DEF LessSlots
<1>. QED
  BY <1>6, <1>7

-----------------------------------------------------------------------------
(* No slot leaks.                                                          *)

LEMMA DropLeaksNothing ==
  ASSUME TypeInv, BelieversCover, NEW Q, NEW D \in SUBSET Muxes, Drop(Q, D), UNCHANGED stream
  PROVE  BelieversCover'
<1>. SUFFICES ASSUME NEW p \in Providers
              PROVE  used'[p] <= Cardinality(Believers(p)')
  BY DEF BelieversCover, Believers
<1>1. Believers(p)' = Believers(p) \ HeldBy(D, p)
  BY DEF Believers, Provider, HeldBy, Drop, TypeInv, TypeOK
<1>2. HeldBy(D, p) \in SUBSET Believers(p)
  BY DEF Believers, HeldBy
<1>3. used'[p] = LessSlots(used[p], Cardinality(HeldBy(D, p)))
  BY DEF Drop
<1>4. used[p] \in Nat /\ used[p] <= Cardinality(Believers(p))
  BY DEF BelieversCover, TypeInv, TypeOK, SelectorTypeOK, PoolTypeOK
<1>. QED
  BY <1>1, <1>2, <1>3, <1>4, SubsetCount, HoldersFinite DEF LessSlots

\* nextSource's release leaves at most the slots the other muxes hold.
LEMMA LeftAfterFailure ==
  ASSUME TypeInv, BelieversCover, NEW m \in Muxes, NEW p \in Providers
  PROVE  SlotsAfterFailure(m)[p] <= Cardinality(Believers(p) \ {m})
<1>1. used[p] \in Nat /\ used[p] <= Cardinality(Believers(p))
  BY DEF BelieversCover, TypeInv, TypeOK, SelectorTypeOK, PoolTypeOK
<1>2. CASE p = Provider(m)
  <2>1. SlotsAfterFailure(m)[p] = LessSlots(used[p], 1)
    BY <1>2 DEF SlotsAfterFailure, Released, TypeInv, TypeOK, SelectorTypeOK, PoolTypeOK
  <2>. QED
    BY <1>1, <2>1, ElementCount, HoldersFinite DEF LessSlots
<1>3. CASE p # Provider(m)
  <2>1. SlotsAfterFailure(m)[p] = used[p]
    BY <1>3 DEF SlotsAfterFailure, Released, TypeInv, TypeOK, SelectorTypeOK, PoolTypeOK
  <2>2. Believers(p) \ {m} = Believers(p)
    BY <1>3 DEF Believers
  <2>. QED
    BY <1>1, <2>1, <2>2
<1>. QED
  BY <1>2, <1>3

\* A mux that gives its slot back leaves the holders; if it then takes one of
\* provider q it joins the holders of q.
LEMMA HoldersWithout ==
  ASSUME TypeInv, NEW m \in Muxes, started' = [started EXCEPT ![m] = FALSE],
         UNCHANGED stream, NEW p
  PROVE  Believers(p)' = Believers(p) \ {m}
BY DEF Believers, Provider, TypeInv, TypeOK

LEMMA HoldersWith ==
  ASSUME TypeInv, NEW m \in Muxes, NEW s \in Streams,
         started' = [started EXCEPT ![m] = TRUE], stream' = [stream EXCEPT ![m] = s], NEW p
  PROVE  /\ p = ProviderOf[s] => Believers(p)' = (Believers(p) \ {m}) \cup {m}
         /\ p # ProviderOf[s] => Believers(p)' = Believers(p) \ {m}
BY DEF Believers, Provider, TypeInv, TypeOK

\* Taking one slot for one more holder.
LEMMA TakeLeaksNothing ==
  ASSUME TypeInv, NEW m \in Muxes, NEW s \in Streams,
         started' = [started EXCEPT ![m] = TRUE], stream' = [stream EXCEPT ![m] = s],
         NEW u \in [Providers -> Nat], used' = Acquired(u, ProviderOf[s]),
         \A p \in Providers : u[p] <= Cardinality(Believers(p) \ {m})
  PROVE  BelieversCover'
<1>. SUFFICES ASSUME NEW p \in Providers
              PROVE  used'[p] <= Cardinality(Believers(p)')
  BY DEF BelieversCover, Believers
<1>1. CASE p = ProviderOf[s]
  <2>1. used'[p] = u[p] + 1
    BY <1>1 DEF Acquired
  <2>2. Believers(p)' = (Believers(p) \ {m}) \cup {m}
    BY <1>1, HoldersWith
  <2>3. /\ Cardinality((Believers(p) \ {m}) \cup {m}) = Cardinality(Believers(p) \ {m}) + 1
        /\ Cardinality(Believers(p) \ {m}) \in Nat
    BY ElementCount, HoldersFinite
  <2>. QED
    BY <2>1, <2>2, <2>3
<1>2. CASE p # ProviderOf[s]
  <2>1. used'[p] = u[p]
    BY <1>2 DEF Acquired
  <2>2. Believers(p)' = Believers(p) \ {m}
    BY <1>2, HoldersWith
  <2>. QED
    BY <2>1, <2>2
<1>. QED
  BY <1>1, <1>2

\* A mux that held no slot is not among the holders.
LEMMA NotHolding ==
  ASSUME BelieversCover, NEW m \in Muxes, ~started[m]
  PROVE  \A p \in Providers : used[p] <= Cardinality(Believers(p) \ {m})
<1>1. \A p : Believers(p) \ {m} = Believers(p)
  BY DEF Believers
<1>. QED
  BY <1>1 DEF BelieversCover

LEMMA RunStepLeaksNothing ==
  ASSUME TypeInv, BelieversCover, NEW m \in Muxes, RunStep(m)
  PROVE  BelieversCover'
<1>1. CASE UNCHANGED <<used, started, stream>>
  BY <1>1 DEF BelieversCover, Believers, Provider
<1>2. CASE PumpDone(m)
  BY <1>1, <1>2, DropLeaksNothing DEF PumpDone
<1>3. CASE NapEnds(m)
  <2>0. /\ stream[m] \in Streams
        /\ SlotsAfterFailure(m) \in [Providers -> Nat]
    BY <1>3, ReleasedType DEF NapEnds, TypeInv, SourceKnown
  <2>1. CASE FailOver(m)
    <3>1. PICK s \in Streams : /\ used' = Acquired(SlotsAfterFailure(m), ProviderOf[s])
                               /\ started' = [started EXCEPT ![m] = TRUE]
                               /\ stream' = [stream EXCEPT ![m] = s]
      BY <2>1 DEF FailOver, FirstRanked, Alternates, Sources
    <3>. QED
      BY <2>0, <3>1, LeftAfterFailure, TakeLeaksNothing
  <2>2. CASE BackOff(m) \/ BudgetSpent(m)
    <3>1. /\ started' = [started EXCEPT ![m] = FALSE]
          /\ used' = SlotsAfterFailure(m) /\ UNCHANGED stream
      BY <2>2 DEF BackOff, BudgetSpent, GiveUp
    <3>. QED
      BY <3>1, LeftAfterFailure, HoldersWithout DEF BelieversCover
  <2>. QED
    BY <1>3, <2>1, <2>2 DEF NapEnds
<1>4. CASE BackoffEnds(m)
  <2>0. stream[m] \in Streams /\ ~started[m]
    BY <1>4 DEF BackoffEnds, TypeInv, SourceKnown
  <2>1. CASE Reconnect(m)
    <3>1. stream' = [stream EXCEPT ![m] = stream[m]]
      BY <2>1 DEF Reconnect, TypeInv, TypeOK
    <3>2. /\ used' = Acquired(used, ProviderOf[stream[m]])
          /\ started' = [started EXCEPT ![m] = TRUE]
          /\ used \in [Providers -> Nat]
      BY <2>1 DEF Reconnect, Provider, TypeInv, TypeOK, SelectorTypeOK, PoolTypeOK
    <3>. QED
      BY <2>0, <3>1, <3>2, NotHolding, TakeLeaksNothing
  <2>2. CASE GiveUp(m, used, liveStreamIds)
    <3>1. started' = started
      BY <2>0, <2>2 DEF GiveUp, TypeInv, TypeOK
    <3>. QED
      BY <1>1, <2>2, <3>1 DEF GiveUp
  <2>. QED
    BY <1>4, <2>1, <2>2 DEF BackoffEnds
<1>5. CASE GraceExpires(m)
  BY <1>1, <1>5, DropLeaksNothing DEF GraceExpires
<1>. QED
  BY <1>1, <1>2, <1>3, <1>4, <1>5
     DEF RunStep, TimerStep, BytesArrive, SourceStalls, SourceEnds, WatchdogAborts,
         PumpUnwinds, TimePasses, poolVars

LEMMA OpenStepLeaksNothing ==
  ASSUME TypeInv, BelieversCover, NEW v \in Consumers, OpenStep(v)
  PROVE  BelieversCover'
<1>1. CASE UNCHANGED <<used, started, stream>>
  BY <1>1 DEF BelieversCover, Believers, Provider
<1>2. CASE Evict(v)
  BY <1>2, DropLeaksNothing DEF Evict, ReleaseHolds
<1>3. ASSUME NEW m \in Muxes, StartMux(v, m), opening[v] = "dial" PROVE BelieversCover'
  <2>1. /\ picked[v] \in Streams /\ ~started[m]
        /\ used' = Acquired(used, ProviderOf[picked[v]])
        /\ started' = [started EXCEPT ![m] = TRUE]
        /\ stream' = [stream EXCEPT ![m] = picked[v]]
        /\ used \in [Providers -> Nat]
    BY <1>3 DEF StartMux, Construct, Reusable, TypeInv, DialsKnown, TypeOK, SelectorTypeOK,
                PoolTypeOK
  <2>. QED
    BY <2>1, NotHolding, TakeLeaksNothing
<1>4. ASSUME NEW m \in Muxes, StartFails(v, m) PROVE BelieversCover'
  <2>1. \A p : Believers(p)' = Believers(p)
    BY <1>4 DEF StartFails, Construct, Reusable, Believers, Provider, TypeInv, TypeOK
  <2>. QED
    BY <1>4, <2>1 DEF StartFails, BelieversCover, poolVars
<1>. QED
  BY <1>1, <1>2, <1>3, <1>4
     DEF OpenStep, Select, PickSource, Reselect, Dial, JoinActive, UndoStart, muxVars, poolVars

LEMMA StepLeaksNothing ==
  ASSUME TypeInv, BelieversCover, [Next]_vars
  PROVE  BelieversCover'
<1>1. CASE UNCHANGED <<used, started, stream>>
  BY <1>1 DEF BelieversCover, Believers, Provider
<1>2. ASSUME NEW v \in Viewers, ViewerLeaves(v) PROVE BelieversCover'
  BY <1>2, DropLeaksNothing DEF ViewerLeaves
<1>3. ASSUME NEW i, HoldReleased(i) PROVE BelieversCover'
  BY <1>3, DropLeaksNothing DEF HoldReleased, ReleaseHolds
<1>. QED
  BY <1>1, <1>2, <1>3, OpenStepLeaksNothing, RunStepLeaksNothing
     DEF Next, Tune, Warm, OpenBegins, CooldownExpires, HealthChanges, BudgetChanges, SetBudget,
         muxVars, poolVars, vars

LEMMA InitLeaksNothing == Init => BelieversCover
<1>1. ASSUME Init PROVE \A p \in Providers : used[p] = 0 /\ Cardinality(Believers(p)) \in Nat
  BY <1>1, HoldersFinite DEF Init
<1>. QED
  BY <1>1 DEF BelieversCover

-----------------------------------------------------------------------------
(* Without warm holds, and with a keep-warm time longer than the sleep     *)
(* before a failover, the count is exact: nothing tears down a mux that    *)
(* sleeps, so nextSource releases the slot of a mux that has one.          *)

NoHolds == holds = <<>> /\ \A c \in Channels : opening[c] = "off"

RunnersHold == \A m \in Muxes : phase[m] \in Pumping \cup {"nap"} => started[m]

ExactInv == TypeInv /\ NoHolds /\ RunnersHold /\ BelieversMatch

\* An open that stands somewhere is a viewer's.
LEMMA StepNoHolds ==
  ASSUME MAX_WARM = 0, TypeInv, NoHolds, [Next]_vars
  PROVE  NoHolds'
<1>1. CASE UNCHANGED <<holds, opening>>
  BY <1>1 DEF NoHolds
<1>2. ASSUME NEW v \in Viewers, NEW at \in Opening, opening' = [opening EXCEPT ![v] = at],
             UNCHANGED holds
      PROVE  NoHolds'
  BY <1>2, MuxerAssumption DEF NoHolds, TypeInv, TypeOK, MuxerAssumption
<1>3. {"off", "select", "reselect", "dial", "undo"} \subseteq Opening
  BY DEF Opening
<1>4. ASSUME NEW v \in Viewers, NEW c \in Channels, OpenBegins(v, c) PROVE NoHolds'
  BY <1>4, <1>2, <1>3 DEF OpenBegins, ringVars
<1>5. ASSUME NEW c \in Channels PROVE ~Warm(c)
  <2>1. Len(holds) = 0
    BY DEF NoHolds
  <2>. QED
    BY <2>1 DEF Warm
<1>6. ASSUME NEW v \in Consumers, OpenStep(v) PROVE NoHolds'
  <2>1. v \in Viewers /\ v \notin Channels
    BY <1>6, MuxerAssumption
       DEF OpenStep, Select, Reselect, Dial, UndoStart, NoHolds, Consumers, MuxerAssumption
  <2>2. CASE Evict(v)
    <3>1. PICK n \in 0 .. Len(holds) : holds' = SubSeq(holds, n + 1, Len(holds))
      BY <2>2 DEF Evict
    <3>2. holds' = holds
      <4>1. n = 0 /\ Len(holds) = 0
        BY <3>1 DEF NoHolds
      <4>. QED
        BY <3>1, <4>1 DEF NoHolds
    <3>3. \E at \in Opening : opening' = [opening EXCEPT ![v] = at]
      BY <2>2, <1>3 DEF Evict, OpenReturns
    <3>. QED
      BY <2>1, <3>2, <3>3, <1>2
  <2>3. CASE PickSource(v)
    BY <2>1, <2>3, <1>2, <1>3 DEF PickSource, ringVars
  <2>4. CASE OpenReturns(v) /\ UNCHANGED holds
    BY <2>1, <2>4, <1>2, <1>3 DEF OpenReturns
  <2>5. ASSUME NEW m, Attach(v, m) PROVE NoHolds'
    BY <2>1, <2>4, <2>5 DEF Attach
  <2>6. ASSUME NEW m, StartFails(v, m) PROVE NoHolds'
    BY <2>1, <2>6, <1>2, <1>3 DEF StartFails
  <2>7. CASE UndoStart(v)
    BY <2>1, <2>4, <2>7, <1>2, <1>3 DEF UndoStart
  <2>. QED
    BY <1>6, <2>2, <2>3, <2>4, <2>5, <2>6, <2>7
       DEF OpenStep, Select, Reselect, Dial, JoinActive, StartMux, ringVars
<1>7. ASSUME NEW m, RunStep(m) PROVE UNCHANGED <<opening, holds>>
  BY <1>7 DEF RunStep, TimerStep, BytesArrive, SourceStalls, SourceEnds, WatchdogAborts,
              PumpUnwinds, PumpDone, TimePasses, NapEnds, FailOver, BackOff, BudgetSpent,
              GiveUp, BackoffEnds, Reconnect, GraceExpires, openVars, ringVars
<1>8. DOMAIN holds = {}
  BY DEF NoHolds
<1>. QED
  BY <1>1, <1>4, <1>5, <1>6, <1>7, <1>8
     DEF Next, Tune, ViewerLeaves, CooldownExpires, HealthChanges, BudgetChanges, vars,
         openVars, ringVars

\* With no hold to evict, an eviction tears nothing down.
LEMMA EvictsNobody ==
  ASSUME NoHolds, NEW v, Evict(v)
  PROVE  Drop({}, {}) /\ phase' = Aborted({}) /\ UNCHANGED stream
<1>1. PICK n \in 0 .. Len(holds) : ReleaseHolds({holds[i] : i \in 1 .. n})
  BY DEF Evict
<1>2. {holds[i] : i \in 1 .. n} = {}
  <2>1. n = 0
    BY DEF NoHolds
  <2>. QED
    BY <2>1
<1>3. ReleaseHolds({})
  BY <1>1, <1>2
<1>. QED
  BY <1>3 DEF ReleaseHolds, Evict

\* A pump or a sleeping loop is torn down only by being aborted.
LEMMA StepRunners ==
  ASSUME KeepWarmOutlastsNap, TypeInv, NoHolds, RunnersHold, [Next]_vars
  PROVE  RunnersHold'
<1>1. CASE UNCHANGED <<started, phase>>
  BY <1>1 DEF RunnersHold
<1>2. ASSUME NEW Q, NEW D, Drop(Q, D), \A m \in D : phase[m] # "nap", phase' = Aborted(D)
      PROVE  RunnersHold'
  BY <1>2 DEF Drop, Aborted, RunnersHold, Pumping, TypeInv, TypeOK
<1>3. ASSUME NEW v \in Viewers, ViewerLeaves(v) PROVE RunnersHold'
  BY <1>3 DEF ViewerLeaves, Drop, RunnersHold, TypeInv, TypeOK
<1>4. ASSUME NEW v \in Consumers, OpenStep(v) PROVE RunnersHold'
  <2>1. CASE Evict(v)
    BY <2>1, EvictsNobody, <1>2
  <2>2. ASSUME NEW m \in Muxes, StartMux(v, m) PROVE RunnersHold'
    BY <2>2 DEF StartMux, RunnersHold, TypeInv, TypeOK
  <2>3. ASSUME NEW m \in Muxes, StartFails(v, m) PROVE RunnersHold'
    BY <2>3 DEF StartFails, RunnersHold, TypeInv, TypeOK, Pumping
  <2>. QED
    BY <1>1, <1>4, <2>1, <2>2, <2>3
       DEF OpenStep, Select, PickSource, Reselect, Dial, JoinActive, UndoStart, muxVars
<1>5. ASSUME NEW m \in Muxes, RunStep(m) PROVE RunnersHold'
  <2>1. CASE BytesArrive(m) \/ SourceStalls(m) \/ PumpUnwinds(m)
    BY <2>1 DEF BytesArrive, SourceStalls, PumpUnwinds, Becomes, RunnersHold, TypeInv, TypeOK,
                Pumping
  <2>2. CASE TimePasses(m)
    BY <2>2, <1>1 DEF TimePasses
  <2>3. ASSUME PumpDone(m), phase[m] \in Pumping PROVE RunnersHold'
    BY <2>3 DEF PumpDone, Drop, Becomes, RunnersHold, TypeInv, TypeOK, Pumping
  <2>4. CASE NapEnds(m)
    BY <2>4 DEF NapEnds, FailOver, BackOff, BudgetSpent, GiveUp, Becomes, RunnersHold, TypeInv,
                TypeOK, Pumping
  <2>5. CASE BackoffEnds(m)
    BY <2>5 DEF BackoffEnds, Reconnect, GiveUp, Becomes, RunnersHold, TypeInv, TypeOK, Pumping
  <2>6. CASE GraceExpires(m)
    BY <2>6, <1>1, <1>2 DEF GraceExpires
  <2>. QED
    BY <1>5, <2>1, <2>2, <2>3, <2>4, <2>5, <2>6
       DEF RunStep, TimerStep, SourceEnds, WatchdogAborts, WatchdogDue, Pumping
<1>6. DOMAIN holds = {}
  BY DEF NoHolds
<1>. QED
  BY <1>1, <1>3, <1>4, <1>5, <1>6
     DEF Next, Tune, Warm, OpenBegins, CooldownExpires, HealthChanges, BudgetChanges, muxVars,
         vars

LEMMA DropExact ==
  ASSUME TypeInv, BelieversMatch, NEW Q, NEW D \in SUBSET Muxes, Drop(Q, D), UNCHANGED stream
  PROVE  BelieversMatch'
<1>. SUFFICES ASSUME NEW p \in Providers
              PROVE  used'[p] = Cardinality(Believers(p)')
  BY DEF BelieversMatch, Believers
<1>1. Believers(p)' = Believers(p) \ HeldBy(D, p)
  BY DEF Believers, Provider, HeldBy, Drop, TypeInv, TypeOK
<1>2. HeldBy(D, p) \in SUBSET Believers(p)
  BY DEF Believers, HeldBy
<1>3. used'[p] = LessSlots(Cardinality(Believers(p)), Cardinality(HeldBy(D, p)))
  BY DEF Drop, BelieversMatch
<1>. QED
  BY <1>1, <1>2, <1>3, SubsetCount, HoldersFinite

\* nextSource's release leaves exactly the slots the other muxes hold.
LEMMA ExactAfterFailure ==
  ASSUME TypeInv, BelieversMatch, NEW m \in Muxes, started[m], NEW p \in Providers
  PROVE  SlotsAfterFailure(m)[p] = Cardinality(Believers(p) \ {m})
<1>1. CASE p = Provider(m)
  <2>1. SlotsAfterFailure(m)[p] = LessSlots(Cardinality(Believers(p)), 1)
    BY <1>1 DEF SlotsAfterFailure, Released, BelieversMatch, TypeInv, TypeOK, SelectorTypeOK,
                PoolTypeOK
  <2>2. m \in Believers(p)
    BY <1>1 DEF Believers
  <2>. QED
    BY <2>1, <2>2, ElementCount, HoldersFinite
<1>2. CASE p # Provider(m)
  <2>1. Believers(p) \ {m} = Believers(p)
    BY <1>2 DEF Believers
  <2>. QED
    BY <1>2, <2>1 DEF SlotsAfterFailure, Released, BelieversMatch, TypeInv, TypeOK,
                      SelectorTypeOK, PoolTypeOK
<1>. QED
  BY <1>1, <1>2

LEMMA TakeExact ==
  ASSUME TypeInv, NEW m \in Muxes, NEW s \in Streams,
         started' = [started EXCEPT ![m] = TRUE], stream' = [stream EXCEPT ![m] = s],
         NEW u \in [Providers -> Nat], used' = Acquired(u, ProviderOf[s]),
         \A p \in Providers : u[p] = Cardinality(Believers(p) \ {m})
  PROVE  BelieversMatch'
<1>. SUFFICES ASSUME NEW p \in Providers
              PROVE  used'[p] = Cardinality(Believers(p)')
  BY DEF BelieversMatch, Believers
<1>1. CASE p = ProviderOf[s]
  <2>1. used'[p] = u[p] + 1
    BY <1>1 DEF Acquired
  <2>2. Believers(p)' = (Believers(p) \ {m}) \cup {m}
    BY <1>1, HoldersWith
  <2>3. Cardinality((Believers(p) \ {m}) \cup {m}) = Cardinality(Believers(p) \ {m}) + 1
    BY ElementCount, HoldersFinite
  <2>. QED
    BY <2>1, <2>2, <2>3
<1>2. CASE p # ProviderOf[s]
  <2>1. used'[p] = u[p]
    BY <1>2 DEF Acquired
  <2>2. Believers(p)' = Believers(p) \ {m}
    BY <1>2, HoldersWith
  <2>. QED
    BY <2>1, <2>2
<1>. QED
  BY <1>1, <1>2

LEMMA NotHoldingExact ==
  ASSUME BelieversMatch, NEW m \in Muxes, ~started[m]
  PROVE  \A p \in Providers : used[p] = Cardinality(Believers(p) \ {m})
<1>1. \A p : Believers(p) \ {m} = Believers(p)
  BY DEF Believers
<1>. QED
  BY <1>1 DEF BelieversMatch

LEMMA RunStepExact ==
  ASSUME ExactInv, NEW m \in Muxes, RunStep(m)
  PROVE  BelieversMatch'
<1>. TypeInv /\ RunnersHold /\ BelieversMatch
  BY DEF ExactInv
<1>1. CASE UNCHANGED <<used, started, stream>>
  BY <1>1 DEF BelieversMatch, Believers, Provider
<1>2. CASE PumpDone(m)
  BY <1>1, <1>2, DropExact DEF PumpDone
<1>3. CASE NapEnds(m)
  <2>0. /\ stream[m] \in Streams /\ started[m]
        /\ SlotsAfterFailure(m) \in [Providers -> Nat]
    BY <1>3, ReleasedType DEF NapEnds, TypeInv, SourceKnown, RunnersHold
  <2>1. CASE FailOver(m)
    <3>1. PICK s \in Streams : /\ used' = Acquired(SlotsAfterFailure(m), ProviderOf[s])
                               /\ started' = [started EXCEPT ![m] = TRUE]
                               /\ stream' = [stream EXCEPT ![m] = s]
      BY <2>1 DEF FailOver, FirstRanked, Alternates, Sources
    <3>. QED
      BY <2>0, <3>1, ExactAfterFailure, TakeExact
  <2>2. CASE BackOff(m) \/ BudgetSpent(m)
    <3>1. /\ started' = [started EXCEPT ![m] = FALSE]
          /\ used' = SlotsAfterFailure(m) /\ UNCHANGED stream
      BY <2>2 DEF BackOff, BudgetSpent, GiveUp
    <3>. QED
      BY <2>0, <3>1, ExactAfterFailure, HoldersWithout DEF BelieversMatch
  <2>. QED
    BY <1>3, <2>1, <2>2 DEF NapEnds
<1>4. CASE BackoffEnds(m)
  <2>0. stream[m] \in Streams /\ ~started[m]
    BY <1>4 DEF BackoffEnds, TypeInv, SourceKnown
  <2>1. CASE Reconnect(m)
    <3>1. stream' = [stream EXCEPT ![m] = stream[m]]
      BY <2>1 DEF Reconnect, TypeInv, TypeOK
    <3>2. /\ used' = Acquired(used, ProviderOf[stream[m]])
          /\ started' = [started EXCEPT ![m] = TRUE]
          /\ used \in [Providers -> Nat]
      BY <2>1 DEF Reconnect, Provider, TypeInv, TypeOK, SelectorTypeOK, PoolTypeOK
    <3>. QED
      BY <2>0, <3>1, <3>2, NotHoldingExact, TakeExact
  <2>2. CASE GiveUp(m, used, liveStreamIds)
    <3>1. started' = started
      BY <2>0, <2>2 DEF GiveUp, TypeInv, TypeOK
    <3>. QED
      BY <1>1, <2>2, <3>1 DEF GiveUp
  <2>. QED
    BY <1>4, <2>1, <2>2 DEF BackoffEnds
<1>5. CASE GraceExpires(m)
  BY <1>1, <1>5, DropExact DEF GraceExpires
<1>. QED
  BY <1>1, <1>2, <1>3, <1>4, <1>5
     DEF RunStep, TimerStep, BytesArrive, SourceStalls, SourceEnds, WatchdogAborts,
         PumpUnwinds, TimePasses, poolVars

LEMMA OpenStepExact ==
  ASSUME ExactInv, NEW v \in Consumers, OpenStep(v)
  PROVE  BelieversMatch'
<1>. TypeInv /\ NoHolds /\ BelieversMatch
  BY DEF ExactInv
<1>1. CASE UNCHANGED <<used, started, stream>>
  BY <1>1 DEF BelieversMatch, Believers, Provider
<1>2. CASE Evict(v)
  BY <1>2, EvictsNobody, DropExact
<1>3. ASSUME NEW m \in Muxes, StartMux(v, m), opening[v] = "dial" PROVE BelieversMatch'
  <2>1. /\ picked[v] \in Streams /\ ~started[m]
        /\ used' = Acquired(used, ProviderOf[picked[v]])
        /\ started' = [started EXCEPT ![m] = TRUE]
        /\ stream' = [stream EXCEPT ![m] = picked[v]]
        /\ used \in [Providers -> Nat]
    BY <1>3 DEF StartMux, Construct, Reusable, TypeInv, DialsKnown, TypeOK, SelectorTypeOK,
                PoolTypeOK
  <2>. QED
    BY <2>1, NotHoldingExact, TakeExact
<1>4. ASSUME NEW m \in Muxes, StartFails(v, m) PROVE BelieversMatch'
  <2>1. \A p : Believers(p)' = Believers(p)
    BY <1>4 DEF StartFails, Construct, Reusable, Believers, Provider, TypeInv, TypeOK
  <2>. QED
    BY <1>4, <2>1 DEF StartFails, BelieversMatch, poolVars
<1>. QED
  BY <1>1, <1>2, <1>3, <1>4
     DEF OpenStep, Select, PickSource, Reselect, Dial, JoinActive, UndoStart, muxVars, poolVars

LEMMA StepExact ==
  ASSUME ExactInv, [Next]_vars
  PROVE  BelieversMatch'
<1>. TypeInv /\ NoHolds /\ BelieversMatch
  BY DEF ExactInv
<1>1. CASE UNCHANGED <<used, started, stream>>
  BY <1>1 DEF BelieversMatch, Believers, Provider
<1>2. ASSUME NEW v \in Viewers, ViewerLeaves(v) PROVE BelieversMatch'
  BY <1>2, DropExact DEF ViewerLeaves
<1>3. DOMAIN holds = {}
  BY DEF NoHolds
<1>. QED
  BY <1>1, <1>2, <1>3, OpenStepExact, RunStepExact
     DEF Next, Tune, Warm, OpenBegins, CooldownExpires, HealthChanges, BudgetChanges, SetBudget,
         muxVars, poolVars, vars

LEMMA InitExact == Init => ExactInv
<1>1. ASSUME Init PROVE NoHolds /\ RunnersHold
  BY <1>1 DEF Init, NoHolds, RunnersHold, Consumers, Pumping
<1>2. ASSUME Init, NEW p \in Providers PROVE used[p] = Cardinality(Believers(p))
  <2>1. Believers(p) = {}
    BY <1>2 DEF Init, Believers
  <2>. QED
    BY <1>2, <2>1, FS_EmptySet DEF Init
<1>. QED
  BY <1>1, <1>2, InitTypeInv DEF ExactInv, BelieversMatch

LEMMA StepExactInv ==
  ASSUME KeepWarmOutlastsNap, MAX_WARM = 0, ExactInv, [Next]_vars
  PROVE  ExactInv'
BY StepTypeInv, StepNoHolds, StepRunners, StepExact DEF ExactInv

-----------------------------------------------------------------------------
(* The budget.  A slot is taken only while one is free, and with fixed     *)
(* budgets the count never passes them; the count being exact, neither do  *)
(* the connections.                                                        *)

UsedWithinBudget == \A p \in Providers : used[p] <= max[p]

LEMMA TakeWithinBudget ==
  ASSUME TypeInv, NEW u \in [Providers -> Nat], \A p \in Providers : u[p] <= max[p],
         NEW q \in Providers, u[q] < max[q], used' = Acquired(u, q), UNCHANGED max
  PROVE  UsedWithinBudget'
<1>. max \in [Providers -> Nat]
  BY DEF TypeInv, TypeOK, SelectorTypeOK, PoolTypeOK
<1>. SUFFICES ASSUME NEW p \in Providers PROVE used'[p] <= max[p]
  BY DEF UsedWithinBudget
<1>1. used'[p] = IF p = q THEN u[p] + 1 ELSE u[p]
  BY DEF Acquired
<1>. QED
  BY <1>1

LEMMA StepWithinBudget ==
  ASSUME Budgets = {}, TypeInv, UsedWithinBudget, [Next]_vars
  PROVE  UsedWithinBudget'
<1>. used \in [Providers -> Nat] /\ max \in [Providers -> Nat]
  BY DEF TypeInv, TypeOK, SelectorTypeOK, PoolTypeOK
<1>1. CASE UNCHANGED <<used, max>>
  BY <1>1 DEF UsedWithinBudget
<1>2. ASSUME NEW Q, NEW D \in SUBSET Muxes, Drop(Q, D), UNCHANGED max PROVE UsedWithinBudget'
  <2>1. \A p \in Providers : used'[p] = LessSlots(used[p], Cardinality(HeldBy(D, p)))
    BY <1>2 DEF Drop
  <2>2. \A p \in Providers : LessSlots(used[p], Cardinality(HeldBy(D, p))) <= used[p]
    BY LessSlotsType, HeldByFinite
  <2>3. \A p \in Providers : LessSlots(used[p], Cardinality(HeldBy(D, p))) \in Nat
    BY LessSlotsType, HeldByFinite
  <2>. QED
    BY <1>2, <2>1, <2>2, <2>3 DEF UsedWithinBudget
<1>3. ASSUME NEW v \in Consumers, OpenStep(v) PROVE UsedWithinBudget'
  <2>1. CASE Evict(v)
    BY <2>1, <1>2 DEF Evict, ReleaseHolds
  <2>2. ASSUME NEW m \in Muxes, StartMux(v, m), opening[v] = "dial" PROVE UsedWithinBudget'
    <3>1. ProviderOf[picked[v]] \in Providers
      BY <2>2, StreamsAssumption DEF TypeInv, DialsKnown, StreamsAssumption
    <3>. QED
      BY <2>2, <3>1, TakeWithinBudget DEF StartMux, HasFreeSlot, UsedWithinBudget
  <2>. QED
    BY <1>1, <1>3, <2>1, <2>2
       DEF OpenStep, Select, PickSource, Reselect, Dial, JoinActive, StartFails, UndoStart,
           poolVars
<1>4. ASSUME NEW m \in Muxes, RunStep(m) PROVE UsedWithinBudget'
  <2>1. CASE PumpDone(m)
    BY <1>1, <1>2, <2>1 DEF PumpDone
  <2>2. CASE NapEnds(m)
    <3>1. /\ SlotsAfterFailure(m) \in [Providers -> Nat]
          /\ \A p \in Providers : SlotsAfterFailure(m)[p] <= used[p]
      <4>1. \A n \in Nat : LessSlots(n, 1) <= n
        BY LessSlotsType
      <4>. QED
        BY <4>1, ReleasedType DEF SlotsAfterFailure, Released, TypeInv
    <3>2. \A p \in Providers : SlotsAfterFailure(m)[p] <= max[p]
      BY <3>1 DEF UsedWithinBudget
    <3>3. CASE FailOver(m)
      <4>1. PICK s \in Streams : /\ used' = Acquired(SlotsAfterFailure(m), ProviderOf[s])
                                 /\ SlotsAfterFailure(m)[ProviderOf[s]] < max[ProviderOf[s]]
                                 /\ UNCHANGED max
        BY <3>3 DEF FailOver, FirstRanked, Alternates, Sources
      <4>2. ProviderOf[s] \in Providers
        BY StreamsAssumption DEF StreamsAssumption
      <4>. QED
        BY <3>1, <3>2, <4>1, <4>2, TakeWithinBudget
    <3>4. CASE BackOff(m) \/ BudgetSpent(m)
      BY <3>2, <3>4 DEF BackOff, BudgetSpent, GiveUp, UsedWithinBudget
    <3>. QED
      BY <2>2, <3>3, <3>4 DEF NapEnds
  <2>3. CASE BackoffEnds(m)
    <3>1. CASE Reconnect(m)
      <4>1. Provider(m) \in Providers
        BY <2>3, StreamsAssumption
           DEF BackoffEnds, Provider, TypeInv, SourceKnown, StreamsAssumption
      <4>. QED
        BY <3>1, <4>1, TakeWithinBudget
           DEF Reconnect, CanReconnect, HasFreeSlot, UsedWithinBudget
    <3>. QED
      BY <1>1, <2>3, <3>1 DEF BackoffEnds, GiveUp
  <2>4. CASE GraceExpires(m)
    BY <1>1, <1>2, <2>4 DEF GraceExpires
  <2>. QED
    BY <1>1, <1>4, <2>1, <2>2, <2>3, <2>4
       DEF RunStep, TimerStep, BytesArrive, SourceStalls, SourceEnds, WatchdogAborts,
           PumpUnwinds, TimePasses, poolVars
<1>5. ASSUME NEW v \in Viewers, ViewerLeaves(v) PROVE UsedWithinBudget'
  BY <1>2, <1>5 DEF ViewerLeaves
<1>6. ASSUME NEW i, HoldReleased(i) PROVE UsedWithinBudget'
  BY <1>2, <1>6 DEF HoldReleased, ReleaseHolds
<1>7. ~BudgetChanges
  BY DEF BudgetChanges
<1>. QED
  BY <1>1, <1>3, <1>4, <1>5, <1>6, <1>7
     DEF Next, Tune, Warm, OpenBegins, CooldownExpires, HealthChanges, poolVars, vars

\* With budgets nobody edits, the ring off and muxes kept warm for longer than a
\* failover sleeps, no provider ever sees more upstreams than its budget.
THEOREM BudgetIsKept ==
  ASSUME KeepWarmOutlastsNap, MAX_WARM = 0, Budgets = {}
  PROVE  Spec => []ProviderWithinBudget
<1>1. Init => ExactInv /\ UsedWithinBudget
  BY InitExact, MuxerAssumption DEF Init, UsedWithinBudget, MuxerAssumption
<1>2. ExactInv /\ UsedWithinBudget /\ [Next]_vars => ExactInv' /\ UsedWithinBudget'
  BY StepExactInv, StepWithinBudget DEF ExactInv
<1>3. ExactInv /\ UsedWithinBudget => ProviderWithinBudget
  <2>. SUFFICES ASSUME ExactInv, UsedWithinBudget, NEW p \in Providers
                PROVE  Cardinality(Upstreams(p)) <= max[p]
    BY DEF ProviderWithinBudget
  <2>1. Upstreams(p) \subseteq Believers(p)
    BY DEF ExactInv, RunnersHold, Upstreams, Believers
  <2>2. Cardinality(Upstreams(p)) <= Cardinality(Believers(p)) /\ Cardinality(Upstreams(p)) \in Nat
    BY <2>1, HoldersFinite, FS_Subset, FS_CardinalityType
  <2>3. Cardinality(Believers(p)) <= max[p] /\ max[p] \in Nat
    BY DEF ExactInv, BelieversMatch, UsedWithinBudget, TypeInv, TypeOK, SelectorTypeOK, PoolTypeOK
  <2>. QED
    BY <2>2, <2>3, HoldersFinite
<1>. QED
  BY <1>1, <1>2, <1>3, PTL DEF Spec

-----------------------------------------------------------------------------
(***************************************************************************)
(* Who shares the upstreams: the pool implements the slot ledger, a mux that*)
(* was torn down stays down, viewers keep the mux they are attached to, and*)
(* a live source is pulled once.                                           *)
(***************************************************************************)

(* What a step can do to the slots, the muxes and their keys.              *)

\* Nothing: the step is about opens, health, cooldowns or the clock.
Calm == UNCHANGED <<used, max, liveStreamIds, phase, stream, subs, started, stopping,
                    reconnects, graceTimer, active>>

\* The consumers Q detach and the muxes D are torn down.
Detaches(Q, D) == Drop(Q, D) /\ phase' = Aborted(D) /\ UNCHANGED <<max, stream, reconnects>>

\* The keep-warm timer of a mux finds viewers.
TimerSpares(m) ==
  /\ graceTimer' = [graceTimer EXCEPT ![m] = FALSE]
  /\ UNCHANGED <<used, max, liveStreamIds, phase, stream, subs, started, stopping,
                 reconnects, active>>

\* Bytes come or stop, or an aborted pump unwinds.
Flows(m) ==
  /\ \/ phase[m] \in Pumping /\ \E at \in Pumping : Becomes(m, at)
     \/ phase[m] = "closing" /\ Becomes(m, "ended")
  /\ UNCHANGED <<used, max, liveStreamIds, stream, subs, started, stopping, reconnects,
                 graceTimer, active>>

\* An open gets its consumer onto a mux.
Boards(v) == /\ opening[v] = "dial"
             /\ JoinActive(v) \/ \E m \in Muxes : StartMux(v, m)

Rebudgets == /\ \E p \in Providers, n \in Budgets : SetBudget(p, n)
             /\ UNCHANGED <<liveStreamIds, phase, stream, subs, started, stopping,
                            reconnects, graceTimer, active>>

RunMoves(m) == \/ Flows(m)
               \/ phase[m] \in Pumping /\ PumpDone(m)
               \/ NapEnds(m) \/ BackoffEnds(m)

\* The steps that no open is in the middle of undoing.
PlainStep == \/ Calm
             \/ Rebudgets
             \/ \E Q \in SUBSET Consumers, D \in SUBSET Muxes : Detaches(Q, D)
             \/ \E m \in Muxes : TimerSpares(m) \/ RunMoves(m)
             \/ \E v \in Consumers : Boards(v)

Kind == \/ PlainStep
        \/ \E v \in Consumers, m \in Muxes : opening[v] = "dial" /\ StartFails(v, m)
        \/ \E v \in Consumers : UndoStart(v)

LEMMA HoldsDetach ==
  ASSUME NEW C \in SUBSET Channels, ReleaseHolds(C), UNCHANGED <<max, stream, reconnects>>
  PROVE  PlainStep
<1>1. PICK D \in SUBSET Muxes : Drop(C, D) /\ phase' = Aborted(D)
  BY DEF ReleaseHolds
<1>2. C \in SUBSET Consumers
  BY DEF Consumers
<1>. QED
  BY <1>1, <1>2 DEF PlainStep, Detaches

LEMMA OpenStepKind ==
  ASSUME TypeOK, NEW v \in Consumers, OpenStep(v)
  PROVE  Kind
<1>1. CASE PickSource(v)
  BY <1>1 DEF PickSource, Kind, PlainStep, Calm, poolVars, selectorVars, muxVars, ringVars
<1>2. CASE Evict(v)
  <2>1. PICK n \in 0 .. Len(holds) : ReleaseHolds({holds[i] : i \in 1 .. n})
    BY <1>2 DEF Evict
  <2>2. {holds[i] : i \in 1 .. n} \in SUBSET Channels
    <3>1. holds \in Seq(Channels) /\ n <= Len(holds) /\ Len(holds) \in Nat
      BY <2>1 DEF TypeOK
    <3>2. \A i \in 1 .. n : i \in 1 .. Len(holds)
      BY <3>1
    <3>. QED
      BY <3>1, <3>2
  <2>. QED
    BY <1>2, <2>1, <2>2, HoldsDetach DEF Evict, Kind
<1>3. CASE Reselect(v)
  BY <1>1, <1>3
     DEF Reselect, Kind, PlainStep, Calm, poolVars, selectorVars, muxVars, ringVars
<1>4. CASE Dial(v)
  BY <1>4 DEF Dial, Kind, PlainStep, Boards
<1>. QED
  BY <1>1, <1>2, <1>3, <1>4 DEF OpenStep, Select, Kind

LEMMA RunStepKind ==
  ASSUME TypeOK, NEW m \in Muxes, RunStep(m)
  PROVE  PlainStep
<1>1. CASE BytesArrive(m) \/ SourceStalls(m) \/ PumpUnwinds(m)
  <2>1. Flows(m)
    BY <1>1 DEF BytesArrive, SourceStalls, PumpUnwinds, Flows, Pumping, poolVars, selectorVars,
                ringVars
  <2>. QED
    BY <2>1 DEF PlainStep, RunMoves
<1>2. CASE TimePasses(m)
  BY <1>2 DEF TimePasses, PlainStep, Calm, poolVars, selectorVars, ringVars
<1>3. CASE SourceEnds(m) \/ WatchdogAborts(m)
  BY <1>3 DEF SourceEnds, WatchdogAborts, WatchdogDue, PlainStep, RunMoves, Pumping
<1>4. CASE GraceExpires(m)
  <2>1. CASE Drop({}, {m}) /\ phase' = Aborted({m})
    BY <1>4, <2>1 DEF GraceExpires, PlainStep, Detaches
  <2>2. CASE /\ graceTimer' = [graceTimer EXCEPT ![m] = FALSE]
             /\ UNCHANGED <<used, liveStreamIds, phase, subs, started, stopping, active>>
    BY <1>4, <2>2 DEF GraceExpires, PlainStep, TimerSpares
  <2>. QED
    BY <1>4, <2>1, <2>2 DEF GraceExpires
<1>. QED
  BY <1>1, <1>2, <1>3, <1>4 DEF RunStep, TimerStep, PlainStep, RunMoves

LEMMA StepKind ==
  ASSUME TypeOK, [Next]_vars
  PROVE  Kind
<1>1. ASSUME NEW v, NEW c, OpenBegins(v, c) PROVE Kind
  BY <1>1 DEF OpenBegins, Kind, PlainStep, Calm, poolVars, selectorVars, muxVars, ringVars
<1>2. ASSUME NEW v \in Viewers, ViewerLeaves(v) PROVE Kind
  <2>1. phase' = Aborted({})
    BY <1>2 DEF ViewerLeaves, Aborted, TypeOK
  <2>. QED
    BY <1>2, <2>1 DEF ViewerLeaves, Kind, PlainStep, Detaches, Consumers
<1>3. ASSUME NEW i \in DOMAIN holds, HoldReleased(i) PROVE Kind
  <2>1. {holds[i]} \in SUBSET Channels
    BY DEF TypeOK
  <2>. QED
    BY <1>3, <2>1, HoldsDetach DEF HoldReleased, Kind
<1>4. CASE HealthChanges \/ (\E c \in Channels : CooldownExpires(c)) \/ UNCHANGED vars
  BY <1>4 DEF HealthChanges, CooldownExpires, vars, Kind, PlainStep, Calm, poolVars,
              selectorVars, muxVars, ringVars
<1>5. CASE BudgetChanges
  BY <1>5 DEF BudgetChanges, Kind, PlainStep, Rebudgets, selectorVars, muxVars, ringVars
<1>. QED
  BY <1>1, <1>2, <1>3, <1>4, <1>5, OpenStepKind, RunStepKind DEF Next, Tune, Warm, Kind

-----------------------------------------------------------------------------
(* The pool implements the ledger.  A connection holds a slot while its    *)
(* mux is started; with an exact count, the slot that is free for the      *)
(* counters is free for the ledger.                                        *)

Held == [m \in Muxes |-> IF started[m] THEN Provider(m) ELSE None]

\* The ledger counts with the same Cardinality.
LEMMA LedgerCount == \A S : Ledger!Cardinality(S) = Cardinality(S)
BY DEF Ledger!Cardinality, Cardinality

LEMMA LedgerHolders ==
  ASSUME NEW p \in Providers
  PROVE  Ledger!HoldersOf(Held, p) = Believers(p)
BY MuxerAssumption DEF Ledger!HoldersOf, Held, Believers, MuxerAssumption

LEMMA DropGivesBack ==
  ASSUME TypeInv, NEW D \in SUBSET Muxes, UNCHANGED <<max, stream>>,
         \A m \in Muxes : started'[m] <=> started[m] /\ m \notin D
  PROVE  Ledger!LedgerNext
<1>1. Held' = [m \in Muxes |-> IF m \in D THEN None ELSE Held[m]]
  BY DEF Held, Provider
<1>2. Ledger!GiveBack(D)
  BY <1>1 DEF Ledger!GiveBack, Held
<1>. QED
  BY <1>2 DEF Ledger!LedgerNext

LEMMA StartTakes ==
  ASSUME TypeInv, NEW m \in Muxes, NEW s \in Streams, UNCHANGED max,
         started' = [started EXCEPT ![m] = TRUE], stream' = [stream EXCEPT ![m] = s],
         Cardinality(Believers(ProviderOf[s]) \ {m}) < max[ProviderOf[s]]
  PROVE  Ledger!LedgerNext
<1>. DEFINE p == ProviderOf[s]
<1>0. p \in Providers
  BY StreamsAssumption DEF StreamsAssumption
<1>1. Held' = [Held EXCEPT ![m] = p]
  <2>1. \A n \in Muxes : Held'[n] = IF n = m THEN p ELSE Held[n]
    BY DEF Held, Provider, TypeInv, TypeOK
  <2>. QED
    BY <2>1 DEF Held
<1>2. Ledger!HoldersOf(Held, p) = Believers(p)
  BY <1>0, LedgerHolders
<1>3. Ledger!Take(m, p)
  <2>1. Ledger!Cardinality(Ledger!HoldersOf(Held, p) \ {m}) < max[p]
    BY <1>2, LedgerCount
  <2>. QED
    BY <1>1, <2>1 DEF Ledger!Take, Held
<1>. QED
  BY <1>0, <1>3 DEF Ledger!LedgerNext

LEMMA StepKeepsLedger ==
  ASSUME ExactInv, [Next]_vars
  PROVE  Ledger!LedgerNext \/ UNCHANGED <<Held, max>>
<1>. TypeInv /\ RunnersHold /\ BelieversMatch
  BY DEF ExactInv
<1>1. CASE UNCHANGED <<started, stream, max>>
  BY <1>1 DEF Held, Provider
<1>2. ASSUME NEW Q, NEW D \in SUBSET Muxes, Drop(Q, D), UNCHANGED <<max, stream>>
      PROVE  Ledger!LedgerNext
  BY <1>2, DropGivesBack DEF Drop
<1>3. ASSUME NEW m \in Muxes, started' = [started EXCEPT ![m] = FALSE], UNCHANGED <<max, stream>>
      PROVE  Ledger!LedgerNext
  <2>1. \A n \in Muxes : started'[n] <=> started[n] /\ n \notin {m}
    BY <1>3 DEF TypeInv, TypeOK
  <2>. QED
    BY <1>3, <2>1, DropGivesBack
<1>4. CASE Rebudgets
  <2>1. PICK p \in Providers, n \in Budgets : SetBudget(p, n)
    BY <1>4 DEF Rebudgets
  <2>2. /\ max' \in [Providers -> Nat]
        /\ \A q \in Providers \ {p} : max'[q] = max[q]
    BY <2>1, MuxerAssumption
       DEF SetBudget, TypeInv, TypeOK, SelectorTypeOK, PoolTypeOK, MuxerAssumption
  <2>3. UNCHANGED Held
    BY <1>4 DEF Rebudgets, Held, Provider
  <2>. QED
    BY <2>2, <2>3 DEF Ledger!LedgerNext, Ledger!Rebudget, Held
<1>5. ASSUME NEW v \in Consumers, NEW m \in Muxes, StartMux(v, m), opening[v] = "dial"
      PROVE  Ledger!LedgerNext
  <2>1. picked[v] \in Streams /\ ProviderOf[picked[v]] \in Providers
    BY <1>5, StreamsAssumption DEF TypeInv, DialsKnown, StreamsAssumption
  <2>2. used[ProviderOf[picked[v]]] < max[ProviderOf[picked[v]]]
    BY <1>5 DEF StartMux, HasFreeSlot
  <2>3. used[ProviderOf[picked[v]]] = Cardinality(Believers(ProviderOf[picked[v]]) \ {m})
    BY <1>5, <2>1, NotHoldingExact DEF StartMux, Reusable
  <2>. QED
    BY <1>5, <2>1, <2>2, <2>3, StartTakes DEF StartMux, Construct
<1>6. ASSUME NEW v \in Consumers, NEW m \in Muxes, StartFails(v, m) PROVE UNCHANGED <<Held, max>>
  BY <1>6 DEF StartFails, Construct, Reusable, Held, Provider, TypeInv, TypeOK, poolVars
<1>7. ASSUME NEW m \in Muxes, NapEnds(m) PROVE Ledger!LedgerNext
  <2>0. started[m]
    BY <1>7 DEF NapEnds, RunnersHold
  <2>1. CASE FailOver(m)
    <3>1. PICK s \in Streams : /\ started' = [started EXCEPT ![m] = TRUE]
                               /\ stream' = [stream EXCEPT ![m] = s]
                               /\ SlotsAfterFailure(m)[ProviderOf[s]] < max[ProviderOf[s]]
                               /\ UNCHANGED max
      BY <2>1 DEF FailOver, FirstRanked, Alternates, Sources
    <3>2. SlotsAfterFailure(m)[ProviderOf[s]] = Cardinality(Believers(ProviderOf[s]) \ {m})
      BY <2>0, ExactAfterFailure, StreamsAssumption DEF StreamsAssumption
    <3>. QED
      BY <3>1, <3>2, StartTakes
  <2>2. CASE BackOff(m) \/ BudgetSpent(m)
    BY <2>2, <1>3 DEF BackOff, BudgetSpent, GiveUp
  <2>. QED
    BY <1>7, <2>1, <2>2 DEF NapEnds
<1>8. ASSUME NEW m \in Muxes, BackoffEnds(m) PROVE Ledger!LedgerNext
  <2>1. CASE Reconnect(m)
    <3>1. stream[m] \in Streams /\ ~started[m] /\ Provider(m) \in Providers
      BY <1>8, StreamsAssumption
         DEF BackoffEnds, TypeInv, SourceKnown, Provider, StreamsAssumption
    <3>2. stream' = [stream EXCEPT ![m] = stream[m]]
      BY <2>1 DEF Reconnect, TypeInv, TypeOK
    <3>3. used[Provider(m)] = Cardinality(Believers(Provider(m)) \ {m})
      BY <3>1, NotHoldingExact
    <3>. QED
      BY <2>1, <3>1, <3>2, <3>3, StartTakes
         DEF Reconnect, CanReconnect, HasFreeSlot, Provider
  <2>2. CASE GiveUp(m, used, liveStreamIds)
    BY <2>2, <1>3 DEF GiveUp
  <2>. QED
    BY <1>8, <2>1, <2>2 DEF BackoffEnds
<1>9. ASSUME NEW m \in Muxes, PumpDone(m)
      PROVE  Ledger!LedgerNext \/ UNCHANGED <<Held, max>>
  BY <1>1, <1>2, <1>9 DEF PumpDone
<1>10. Kind
  BY StepKind DEF TypeInv
<1>. QED
  BY <1>1, <1>2, <1>4, <1>5, <1>6, <1>7, <1>8, <1>9, <1>10
     DEF Kind, PlainStep, Calm, Detaches, TimerSpares, RunMoves, Flows, Boards, JoinActive,
         UndoStart, poolVars, muxVars

\* "The pool tracks usage in memory and enforces budgets": with the ring off, and
\* muxes kept warm for longer than a failover sleeps, two counters per provider
\* implement the ledger.  A connection takes a slot only while the budget allows
\* another and gives back none but its own, in whatever order sources fail,
\* loops wake up, timers fire and budgets change.
THEOREM PoolKeepsLedger ==
  ASSUME KeepWarmOutlastsNap, MAX_WARM = 0
  PROVE  Spec => KeepsLedger
<1>1. Init => Ledger!LedgerInit
  BY MuxerAssumption DEF Init, Ledger!LedgerInit, MuxerAssumption
<1>2. ExactInv /\ [Next]_vars => [Ledger!LedgerNext]_<<Held, max>>
  BY StepKeepsLedger
<1>3. ExactInv /\ [Next]_vars => ExactInv'
  BY StepExactInv
<1>. QED
  BY <1>1, <1>2, <1>3, InitExact, PTL DEF Spec, KeepsLedger, Ledger!LedgerSpec, Held

-----------------------------------------------------------------------------
(* Who is torn down stays down.  A mux that fails over is put back under a *)
(* key of `active`, so it must not have been torn down while it slept.     *)
(* Nothing tears it down when the ring is off and keep-warm outlasts the   *)
(* sleep; and a channel with a single source has nowhere to fail over to.  *)

Sourced == Pumping \cup {"nap"}

\* A mux that believes it holds a slot runs.
StartedRuns == \A m \in Muxes : started[m] => phase[m] \in Sourced

NothingEndsNaps == KeepWarmOutlastsNap /\ MAX_WARM = 0
OneSourceEach   == \A s, t \in Streams : ChannelOf[s] = ChannelOf[t] => s = t

StoppedIsGone ==
  \A m \in Muxes : stopping[m] => /\ subs[m] = {} /\ ~started[m] /\ ~Active(m)
                                  /\ phase[m] \notin Pumping

\* What each of the two assumptions gives a mux that fails over.
NapsAreWanted == \A m \in Muxes : phase[m] = "nap" /\ FailOver(m) => ~stopping[m]

LEMMA OneSourceNoAlternate ==
  ASSUME OneSourceEach, TypeInv, NEW m \in Muxes, stream[m] \in Streams
  PROVE  Alternates(m) = {}
BY DEF OneSourceEach, Alternates, Sources

LEMMA WantedAlone ==
  ASSUME OneSourceEach, TypeInv
  PROVE  NapsAreWanted
<1>1. ASSUME NEW m \in Muxes, phase[m] = "nap" PROVE ~FailOver(m)
  <2>1. Alternates(m) = {}
    BY <1>1, OneSourceNoAlternate DEF TypeInv, SourceKnown
  <2>. QED
    BY <2>1 DEF FailOver, FirstRanked
<1>. QED
  BY <1>1 DEF NapsAreWanted

LEMMA WantedExact ==
  ASSUME ExactInv, StoppedIsGone
  PROVE  NapsAreWanted
BY DEF NapsAreWanted, ExactInv, RunnersHold, StoppedIsGone

LEMMA StepStopped ==
  ASSUME TypeInv, StoppedIsGone, NapsAreWanted, [Next]_vars
  PROVE  StoppedIsGone'
<1>. TypeOK
  BY DEF TypeInv
<1>1. CASE UNCHANGED <<phase, subs, started, stopping, active>>
  BY <1>1 DEF StoppedIsGone, Active
<1>2. ASSUME NEW Q, NEW D, Drop(Q, D), \A m \in D : phase'[m] \notin Pumping,
             \A m \in Muxes : phase'[m] \in Pumping => phase[m] \in Pumping
      PROVE  StoppedIsGone'
  <2>1. \A m \in Muxes : Active(m)' => Active(m) /\ m \notin D
    BY <1>2, MuxerAssumption DEF Drop, KeysWithout, Active, MuxerAssumption
  <2>. QED
    BY <1>2, <2>1 DEF Drop, StoppedIsGone, TypeOK
<1>3. ASSUME NEW m \in Muxes, Flows(m) PROVE StoppedIsGone'
  <2>1. \A n \in Muxes : stopping[n] => phase'[n] \notin Pumping
    BY <1>3 DEF Flows, Becomes, StoppedIsGone, Pumping, TypeOK
  <2>. QED
    BY <1>3, <2>1 DEF Flows, StoppedIsGone, Active
<1>4. ASSUME NEW m \in Muxes, phase[m] \in Pumping, PumpDone(m) PROVE StoppedIsGone'
  <2>1. phase' = [phase EXCEPT ![m] = "ended"] \/ phase' = [phase EXCEPT ![m] = "nap"]
    BY <1>4 DEF PumpDone, Becomes
  <2>2. \A n \in Muxes : phase'[n] \in Pumping => phase[n] \in Pumping /\ n # m
    BY <2>1 DEF TypeOK, Pumping
  <2>3. CASE Drop({}, {m})
    BY <1>2, <2>2, <2>3
  <2>4. CASE UNCHANGED <<subs, started, stopping, active>>
    BY <2>2, <2>4 DEF StoppedIsGone, Active
  <2>. QED
    BY <1>4, <2>3, <2>4 DEF PumpDone
\* A mux that starts over: no other mux gains a key or a subscriber.
<1>5. ASSUME NEW m \in Muxes, ~stopping'[m],
             \A n \in Muxes \ {m} : /\ stopping'[n] = stopping[n] /\ started'[n] = started[n]
                                    /\ phase'[n] = phase[n] /\ subs'[n] = subs[n]
                                    /\ Active(n)' => Active(n)
      PROVE  StoppedIsGone'
  BY <1>5 DEF StoppedIsGone
<1>6. ASSUME NEW v \in Consumers, Boards(v) PROVE StoppedIsGone'
  <2>. picked[v] \in Streams
    BY <1>6 DEF Boards, TypeInv, DialsKnown
  <2>1. CASE JoinActive(v)
    <3>1. Existing(v) \in Muxes /\ Active(Existing(v))
      BY <2>1 DEF JoinActive, Existing, Active, TypeOK
    <3>2. /\ ~stopping[Existing(v)]
          /\ subs' = [subs EXCEPT ![Existing(v)] = @ \cup {v}]
          /\ UNCHANGED <<phase, started, stopping, active>>
      BY <2>1, <3>1 DEF JoinActive, Attach, StoppedIsGone
    <3>. QED
      BY <3>1, <3>2, <1>5 DEF TypeOK, Active
  <2>2. ASSUME NEW m \in Muxes, StartMux(v, m) PROVE StoppedIsGone'
    BY <2>2, <1>5 DEF StartMux, Construct, Attach, Active, TypeOK
  <2>. QED
    BY <1>6, <2>1, <2>2 DEF Boards
<1>7. ASSUME NEW v \in Consumers, NEW m \in Muxes, StartFails(v, m), opening[v] = "dial"
      PROVE  StoppedIsGone'
  <2>. picked[v] \in Streams
    BY <1>7 DEF TypeInv, DialsKnown
  <2>. QED
    BY <1>7, <1>5 DEF StartFails, Construct, Active, TypeOK
<1>8. ASSUME NEW v \in Consumers, UndoStart(v) PROVE StoppedIsGone'
  BY <1>8, MuxerAssumption
     DEF UndoStart, muxVars, StoppedIsGone, Active, TypeOK, MuxerAssumption
<1>9. ASSUME NEW m \in Muxes, NEW u, NEW live, GiveUp(m, u, live) PROVE StoppedIsGone'
  <2>1. \A n \in Muxes : Active(n)' => Active(n) /\ n # m
    BY <1>9, MuxerAssumption DEF GiveUp, KeysWithout, Active, MuxerAssumption
  <2>2. /\ \A n \in Muxes \ {m} : /\ stopping'[n] = stopping[n] /\ started'[n] = started[n]
                                  /\ phase'[n] = phase[n] /\ subs'[n] = subs[n]
        /\ ~started'[m] /\ phase'[m] = "ended" /\ subs'[m] = {}
    BY <1>9 DEF GiveUp, Becomes, TypeOK
  <2>. QED
    BY <2>1, <2>2 DEF StoppedIsGone, Pumping
<1>10. ASSUME NEW m \in Muxes, NapEnds(m) PROVE StoppedIsGone'
  <2>1. CASE FailOver(m)
    <3>0. ~stopping[m]
      BY <1>10, <2>1 DEF NapEnds, NapsAreWanted
    <3>1. PICK s \in Streams :
            active' = [active EXCEPT ![stream[m]] = IF @ = m THEN None ELSE @, ![s] = m]
      BY <2>1 DEF FailOver, FirstRanked, Alternates, Sources
    <3>2. \A n \in Muxes \ {m} : Active(n)' => Active(n)
      BY <3>1, MuxerAssumption DEF Active, TypeOK, MuxerAssumption
    <3>3. /\ ~stopping'[m]
          /\ \A n \in Muxes \ {m} : /\ stopping'[n] = stopping[n] /\ started'[n] = started[n]
                                    /\ phase'[n] = phase[n] /\ subs'[n] = subs[n]
      BY <2>1, <3>0 DEF FailOver, Becomes, TypeOK
    <3>. QED
      BY <3>2, <3>3, <1>5
  <2>2. CASE BackOff(m)
    BY <2>2 DEF BackOff, Becomes, ringVars, StoppedIsGone, Active, Pumping, TypeOK
  <2>3. CASE BudgetSpent(m)
    BY <2>3, <1>9 DEF BudgetSpent
  <2>. QED
    BY <1>10, <2>1, <2>2, <2>3 DEF NapEnds
<1>11. ASSUME NEW m \in Muxes, BackoffEnds(m) PROVE StoppedIsGone'
  <2>1. CASE Reconnect(m)
    BY <2>1, <1>5 DEF Reconnect, CanReconnect, Becomes, ringVars, Active, TypeOK
  <2>. QED
    BY <1>11, <2>1, <1>9 DEF BackoffEnds
<1>12. ASSUME NEW Q, NEW D \in SUBSET Muxes, Detaches(Q, D) PROVE StoppedIsGone'
  BY <1>12, <1>2 DEF Detaches, Aborted, Pumping
<1>. QED
  BY <1>1, <1>3, <1>4, <1>6, <1>7, <1>8, <1>10, <1>11, <1>12, StepKind
     DEF Kind, PlainStep, Calm, Rebudgets, TimerSpares, RunMoves

\* A pump that ends unasked gives its slot back or naps: only one that was told to
\* stop ends with what it holds, and that one holds nothing.
LEMMA StepStarted ==
  ASSUME TypeInv, StoppedIsGone, StartedRuns, [Next]_vars
  PROVE  StartedRuns'
<1>. TypeOK
  BY DEF TypeInv
<1>1. CASE UNCHANGED <<phase, started>>
  BY <1>1 DEF StartedRuns
<1>2. ASSUME NEW m \in Muxes, Flows(m) PROVE StartedRuns'
  BY <1>2 DEF Flows, Becomes, StartedRuns, Sourced, Pumping, TypeOK
<1>3. ASSUME NEW m \in Muxes, phase[m] \in Pumping, PumpDone(m) PROVE StartedRuns'
  BY <1>3 DEF PumpDone, Drop, Becomes, StartedRuns, StoppedIsGone, Sourced, TypeOK
<1>4. ASSUME NEW v \in Consumers, NEW m \in Muxes, StartMux(v, m) \/ StartFails(v, m)
      PROVE  StartedRuns'
  BY <1>4 DEF StartMux, StartFails, StartedRuns, Sourced, Pumping, TypeOK
<1>5. ASSUME NEW m \in Muxes, NapEnds(m) PROVE StartedRuns'
  BY <1>5 DEF NapEnds, FailOver, BackOff, BudgetSpent, GiveUp, Becomes, StartedRuns, Sourced,
              Pumping, TypeOK
<1>6. ASSUME NEW m \in Muxes, BackoffEnds(m) PROVE StartedRuns'
  BY <1>6 DEF BackoffEnds, Reconnect, GiveUp, Becomes, StartedRuns, Sourced, Pumping, TypeOK
<1>7. ASSUME NEW Q, NEW D \in SUBSET Muxes, Detaches(Q, D) PROVE StartedRuns'
  BY <1>7 DEF Detaches, Drop, Aborted, StartedRuns, Sourced, TypeOK
<1>8. ASSUME NEW v \in Consumers, UndoStart(v) PROVE StartedRuns'
  BY <1>1, <1>8 DEF UndoStart, muxVars
<1>9. ASSUME NEW v \in Consumers, JoinActive(v) PROVE StartedRuns'
  BY <1>1, <1>9 DEF JoinActive
<1>. QED
  BY <1>1, <1>2, <1>3, <1>4, <1>5, <1>6, <1>7, <1>8, <1>9, StepKind
     DEF Kind, PlainStep, Calm, Rebudgets, TimerSpares, RunMoves, Boards

StayInv == TypeInv /\ StoppedIsGone /\ StartedRuns /\ (NothingEndsNaps => ExactInv)

LEMMA InitStay == Init => StayInv
<1>1. Init => StoppedIsGone /\ StartedRuns
  BY DEF Init, StoppedIsGone, StartedRuns
<1>. QED
  BY <1>1, InitTypeInv, InitExact DEF StayInv

LEMMA StepStay ==
  ASSUME NothingEndsNaps \/ OneSourceEach, StayInv, [Next]_vars
  PROVE  StayInv'
<1>1. NapsAreWanted
  BY WantedAlone, WantedExact DEF StayInv
<1>2. TypeInv' /\ StoppedIsGone' /\ StartedRuns'
  BY <1>1, StepTypeInv, StepStopped, StepStarted DEF StayInv
<1>3. NothingEndsNaps => ExactInv'
  BY StepExactInv DEF StayInv, NothingEndsNaps
<1>. QED
  BY <1>2, <1>3 DEF StayInv, NothingEndsNaps

\* While no mux has ended holding a slot, whoever believes it holds one gives it back.
LEMMA BelieversHold ==
  ASSUME StartedRuns, NEW p \in Providers
  PROVE  SlotHolders(p) = Believers(p)
BY DEF StartedRuns, SlotHolders, Believers, Sourced, Pumping

\* Failing over, reconnecting, tearing down, evicting and changing budgets in any
\* order: every slot the pool counts is held by a mux whose run() goes on and will
\* give it back.  Where a channel has alternates this needs that nothing tears down
\* a mux in its nap: one torn down there fails over all the same, and its run() then
\* ends with a slot nobody gives back.
THEOREM SlotsNeverLeak ==
  ASSUME NothingEndsNaps \/ OneSourceEach
  PROVE  Spec => []NoSlotLeak
<1>. DEFINE Inv == StayInv /\ BelieversCover
<1>1. Init => Inv
  BY InitStay, InitLeaksNothing
<1>2. Inv /\ [Next]_vars => Inv'
  BY StepStay, StepLeaksNothing DEF StayInv
<1>3. Inv => NoSlotLeak
  BY BelieversHold DEF StayInv, BelieversCover, NoSlotLeak
<1>. QED
  BY <1>1, <1>2, <1>3, PTL DEF Spec

\* With the ring off, and muxes kept warm for longer than a failover sleeps, the
\* pool counts exactly the muxes that will give a slot back: no order of failures,
\* retries, leaves and budget edits gives one back twice or never.
THEOREM PoolIsExact ==
  ASSUME KeepWarmOutlastsNap, MAX_WARM = 0
  PROVE  Spec => []SlotsMatchMuxes
<1>. NothingEndsNaps
  BY DEF NothingEndsNaps
<1>1. StayInv /\ [Next]_vars => StayInv'
  BY StepStay
<1>2. StayInv => SlotsMatchMuxes
  BY BelieversHold DEF StayInv, ExactInv, BelieversMatch, SlotsMatchMuxes
<1>. QED
  BY <1>1, <1>2, InitStay, PTL DEF Spec

\* "teardown sets stopping for the run() loop to see": a mux that was torn down,
\* by the keep-warm timer, an eviction or the end of its source, never dials again,
\* whatever sleeps it still has before it.
THEOREM StoppedStayStopped ==
  ASSUME NothingEndsNaps \/ OneSourceEach
  PROVE  Spec => StoppedNeverDials
<1>1. StayInv /\ [Next]_vars => StayInv'
  BY StepStay
<1>2. StayInv' => [\A m \in Muxes : stopping[m] /\ stopping'[m] /\ phase[m] \notin Pumping
                                      => phase'[m] \notin Pumping]_vars
  BY DEF StayInv, StoppedIsGone
<1>. QED
  BY <1>1, <1>2, InitStay, PTL DEF Spec, StoppedNeverDials

-----------------------------------------------------------------------------
(* Who keeps an upstream.  Only three actions open one, and each does it   *)
(* with a slot that was free.                                              *)

LEMMA DialHadSlot ==
  ASSUME TypeInv, NEW m \in Muxes, phase'[m] \in Pumping, ~UNCHANGED Provider(m) \/ phase[m] \notin Pumping,
         [Next]_vars
  PROVE  used'[Provider(m)'] <= max'[Provider(m)']
<1>. /\ TypeOK
     /\ used \in [Providers -> Nat] /\ max \in [Providers -> Nat]
  BY DEF TypeInv, TypeOK, SelectorTypeOK, PoolTypeOK
<1>0. \A s \in Streams : ProviderOf[s] \in Providers
  BY StreamsAssumption DEF StreamsAssumption
\* One slot more than a pool u with a free slot.
<1>1. ASSUME NEW u \in [Providers -> Nat], NEW s \in Streams, u[ProviderOf[s]] < max[ProviderOf[s]],
             used' = Acquired(u, ProviderOf[s]), stream'[m] = s, UNCHANGED max
      PROVE  used'[Provider(m)'] <= max'[Provider(m)']
  <2>1. used'[ProviderOf[s]] = u[ProviderOf[s]] + 1
    BY <1>0, <1>1 DEF Acquired
  <2>2. u[ProviderOf[s]] \in Nat /\ max[ProviderOf[s]] \in Nat
    BY <1>0
  <2>3. Provider(m)' = ProviderOf[s]
    BY <1>1 DEF Provider
  <2>. QED
    BY <1>1, <2>1, <2>2, <2>3
\* A step that opens nothing.
<1>2. ASSUME UNCHANGED stream, phase'[m] \in Pumping => phase[m] \in Pumping PROVE FALSE
  BY <1>2 DEF Provider
<1>3. ASSUME NEW v \in Consumers, Boards(v)
      PROVE  used'[Provider(m)'] <= max'[Provider(m)']
  <2>1. CASE JoinActive(v)
    BY <1>2, <2>1 DEF JoinActive
  <2>2. ASSUME NEW n \in Muxes, StartMux(v, n) PROVE used'[Provider(m)'] <= max'[Provider(m)']
    <3>1. picked[v] \in Streams
      BY <1>3 DEF Boards, TypeInv, DialsKnown
    <3>2. m = n
      BY <2>2 DEF StartMux, Construct, Provider, TypeOK
    <3>3. stream'[m] = picked[v]
      BY <2>2, <3>2 DEF StartMux, Construct, TypeOK
    <3>. QED
      BY <1>1, <2>2, <3>1, <3>3 DEF StartMux, HasFreeSlot
  <2>. QED
    BY <1>3, <2>1, <2>2 DEF Boards
<1>4. ASSUME NEW v \in Consumers, NEW n \in Muxes, StartFails(v, n) PROVE FALSE
  BY <1>4 DEF StartFails, Construct, Provider, Pumping, TypeOK
<1>5. ASSUME NEW n \in Muxes, NapEnds(n) PROVE used'[Provider(m)'] <= max'[Provider(m)']
  <2>1. CASE FailOver(n)
    <3>1. PICK s \in Streams : /\ used' = Acquired(SlotsAfterFailure(n), ProviderOf[s])
                               /\ stream' = [stream EXCEPT ![n] = s]
                               /\ SlotsAfterFailure(n)[ProviderOf[s]] < max[ProviderOf[s]]
                               /\ UNCHANGED max
      BY <2>1 DEF FailOver, FirstRanked, Alternates, Sources
    <3>2. m = n
      BY <2>1, <3>1 DEF FailOver, Becomes, Provider, TypeOK
    <3>3. stream'[m] = s
      BY <3>1, <3>2 DEF TypeOK
    <3>. QED
      BY <1>1, <3>1, <3>3, ReleasedType
  <2>2. CASE BackOff(n) \/ BudgetSpent(n)
    BY <1>2, <2>2 DEF BackOff, BudgetSpent, GiveUp, Becomes, Pumping, TypeOK
  <2>. QED
    BY <1>5, <2>1, <2>2 DEF NapEnds
<1>6. ASSUME NEW n \in Muxes, BackoffEnds(n) PROVE used'[Provider(m)'] <= max'[Provider(m)']
  <2>1. CASE Reconnect(n)
    <3>1. m = n
      BY <1>2, <2>1 DEF Reconnect, Becomes, TypeOK
    <3>2. stream[m] \in Streams
      BY <1>6, <3>1 DEF BackoffEnds, TypeInv, SourceKnown
    <3>. QED
      BY <1>1, <2>1, <3>1, <3>2 DEF Reconnect, CanReconnect, HasFreeSlot, Provider
  <2>2. CASE GiveUp(n, used, liveStreamIds)
    BY <1>2, <2>2 DEF GiveUp, Becomes, Pumping, TypeOK
  <2>. QED
    BY <1>6, <2>1, <2>2 DEF BackoffEnds
<1>7. ASSUME NEW n \in Muxes, Flows(n) \/ (phase[n] \in Pumping /\ PumpDone(n)) PROVE FALSE
  BY <1>2, <1>7 DEF Flows, PumpDone, Becomes, Pumping, TypeOK
<1>8. ASSUME NEW Q, NEW D, Detaches(Q, D) PROVE FALSE
  BY <1>2, <1>8 DEF Detaches, Aborted, Pumping
<1>. QED
  BY <1>2, <1>3, <1>4, <1>5, <1>6, <1>7, <1>8, StepKind
     DEF Kind, PlainStep, Calm, Rebudgets, TimerSpares, RunMoves, UndoStart, muxVars

LEMMA DrainsOnly ==
  ASSUME ExactInv, ExactInv', [Next]_vars, NEW p \in Providers,
         Cardinality(Upstreams(p)') > max'[p]
  PROVE  Upstreams(p)' \subseteq Upstreams(p)
<1>. SUFFICES ASSUME NEW m \in Upstreams(p)', m \notin Upstreams(p) PROVE FALSE
  OBVIOUS
<1>1. m \in Muxes /\ phase'[m] \in Pumping /\ Provider(m)' = p
  BY DEF Upstreams
<1>2. phase[m] \notin Pumping \/ ~UNCHANGED Provider(m)
  BY <1>1 DEF Upstreams
<1>3. used'[p] <= max'[p]
  BY <1>1, <1>2, DialHadSlot DEF ExactInv
<1>4. Upstreams(p)' \subseteq Believers(p)'
  BY DEF ExactInv, RunnersHold, Upstreams, Believers
<1>5. IsFiniteSet(Believers(p)') /\ Cardinality(Believers(p)') = used'[p]
  <2>1. Believers(p)' \in SUBSET Muxes
    BY DEF Believers
  <2>2. BelieversMatch'
    BY DEF ExactInv
  <2>. QED
    BY <2>1, <2>2, MuxerAssumption, FS_Subset DEF BelieversMatch, MuxerAssumption
<1>6. Cardinality(Upstreams(p)') <= used'[p] /\ Cardinality(Upstreams(p)') \in Nat
  BY <1>4, <1>5, FS_Subset, FS_CardinalityType
<1>7. max'[p] \in Nat /\ used'[p] \in Nat
  BY DEF ExactInv, TypeInv, TypeOK, SelectorTypeOK, PoolTypeOK
<1>. QED
  BY <1>3, <1>6, <1>7

\* run() drops viewers in two places, and a mux with viewers was not torn down.
LEMMA DropsSpent ==
  ASSUME TypeInv, StoppedIsGone, [Next]_vars, NEW m \in Muxes, CutOff(m)
  PROVE  \/ Attempts(m) >= RECONNECT_MAX
         \/ phase[m] = "backoff" /\ ~HasFreeSlot(Provider(m))
<1>. TypeOK
  BY DEF TypeInv
<1>1. /\ phase[m] \in {"nap", "backoff"} /\ phase'[m] = "ended" /\ subs[m] # {}
      /\ ~stopping[m]
  BY DEF CutOff, StoppedIsGone
<1>2. (\E n \in Muxes : NapEnds(n) \/ BackoffEnds(n)) => NapEnds(m) \/ BackoffEnds(m)
  <2>1. ASSUME NEW n \in Muxes, n # m PROVE ~NapEnds(n) /\ ~BackoffEnds(n)
    BY <1>1, <2>1 DEF NapEnds, FailOver, BackOff, BudgetSpent, BackoffEnds, Reconnect, GiveUp,
                      Becomes, TypeOK
  <2>. QED
    BY <2>1
<1>3. NapEnds(m) \/ BackoffEnds(m)
  <2>1. ASSUME NEW n \in Muxes, Flows(n) \/ (phase[n] \in Pumping /\ PumpDone(n)) PROVE FALSE
    BY <1>1, <2>1 DEF Flows, PumpDone, Becomes, Pumping, TypeOK
  <2>2. ASSUME NEW v \in Consumers, Boards(v) PROVE FALSE
    BY <1>1, <2>2 DEF Boards, JoinActive, StartMux, TypeOK
  <2>3. ASSUME NEW v \in Consumers, NEW n \in Muxes, StartFails(v, n) PROVE FALSE
    BY <1>1, <2>3 DEF StartFails, TypeOK
  <2>4. ASSUME NEW Q, NEW D, Detaches(Q, D) PROVE FALSE
    BY <1>1, <2>4 DEF Detaches, Aborted
  <2>. QED
    BY <1>1, <1>2, <2>1, <2>2, <2>3, <2>4, StepKind
       DEF Kind, PlainStep, Calm, Rebudgets, TimerSpares, RunMoves, UndoStart, muxVars
<1>4. CASE NapEnds(m)
  <2>1. ~FailOver(m) /\ ~BackOff(m)
    BY <1>1 DEF FailOver, BackOff, Becomes, TypeOK
  <2>2. ~(Attempts(m) < RECONNECT_MAX)
    BY <1>4, <2>1 DEF NapEnds, BudgetSpent, BudgetLeft
  <2>3. Attempts(m) \in Nat /\ RECONNECT_MAX \in Nat
    BY MuxerAssumption DEF Attempts, TypeOK, MuxerAssumption
  <2>. QED
    BY <2>2, <2>3
<1>5. CASE BackoffEnds(m)
  <2>1. ~Reconnect(m)
    BY <1>1 DEF Reconnect, Becomes, TypeOK
  <2>2. ~CanReconnect(m)
    BY <1>5, <2>1 DEF BackoffEnds
  <2>. QED
    BY <1>1, <1>5, <2>2 DEF CanReconnect, BackoffEnds
<1>. QED
  BY <1>3, <1>4, <1>5

\* With the ring off and muxes kept warm for longer than a failover sleeps: while a
\* provider is over its budget its connections only drain, and viewers are dropped
\* only with their reconnects spent or their provider's slots taken by others.
THEOREM SlotsDecide ==
  ASSUME KeepWarmOutlastsNap, MAX_WARM = 0
  PROVE  Spec => SlotsDecideWhoStays
<1>. NothingEndsNaps
  BY DEF NothingEndsNaps
<1>1. StayInv /\ [Next]_vars => StayInv'
  BY StepStay
<1>2. StayInv /\ StayInv' /\ [Next]_vars
        => [\A p \in Providers : Cardinality(Upstreams(p)') > max'[p]
                                   => Upstreams(p)' \subseteq Upstreams(p)]_vars
  BY DrainsOnly DEF StayInv
<1>3. StayInv /\ [Next]_vars
        => [\A m \in Muxes : CutOff(m) =>
              \/ Attempts(m) >= RECONNECT_MAX
              \/ phase[m] = "backoff" /\ ~HasFreeSlot(Provider(m))]_vars
  BY DropsSpent DEF StayInv
<1>. QED
  BY <1>1, <1>2, <1>3, InitStay, PTL
     DEF Spec, SlotsDecideWhoStays, OverBudgetOnlyDrains, DropsOnlyWhenSpent

-----------------------------------------------------------------------------
(* One open at a time.  An open that lost its slot has a dead mux under    *)
(* the key it picked until it resumes; when opens do not overlap, nothing  *)
(* but that open takes a step before the key is gone.                      *)

OneOpen == \A v, w \in Consumers : opening[v] # "off" /\ opening[w] # "off" => v = w

\* The keys with a mux behind them that never started.
DeadKeys == {picked[v] : v \in {w \in Consumers : opening[w] = "undo"}}

LEMMA StepOneOpen ==
  ASSUME ~OpensOverlap, TypeInv, OneOpen, [Next]_vars
  PROVE  OneOpen'
<1>. TypeOK
  BY DEF TypeInv
<1>1. CASE UNCHANGED opening
  BY <1>1 DEF OneOpen
<1>2. ASSUME NEW v \in Consumers, NEW at, opening' = [opening EXCEPT ![v] = at], opening[v] # "off"
      PROVE  OneOpen'
  BY <1>2 DEF OneOpen, TypeOK
<1>3. ASSUME NEW v \in Consumers, NEW c, OpenBegins(v, c) PROVE OneOpen'
  BY <1>3 DEF OpenBegins, Settled, OneOpen, TypeOK
<1>4. ASSUME NEW v \in Consumers, OpenStep(v) PROVE OneOpen'
  <2>1. opening[v] # "off"
    BY <1>4 DEF OpenStep, Select, Reselect, Dial, UndoStart
  <2>2. \E at : opening' = [opening EXCEPT ![v] = at]
    BY <1>4 DEF OpenStep, Select, Reselect, PickSource, Evict, Dial, JoinActive, StartMux,
                StartFails, Attach, UndoStart, OpenReturns
  <2>. QED
    BY <2>1, <2>2, <1>2
<1>5. ASSUME NEW m, RunStep(m) PROVE UNCHANGED opening
  BY <1>5 DEF RunStep, TimerStep, BytesArrive, SourceStalls, SourceEnds, WatchdogAborts,
              PumpUnwinds, PumpDone, TimePasses, NapEnds, FailOver, BackOff, BudgetSpent,
              GiveUp, BackoffEnds, Reconnect, GraceExpires, openVars
<1>. QED
  BY <1>1, <1>3, <1>4, <1>5
     DEF Next, Tune, Warm, Consumers, ViewerLeaves, HoldReleased, CooldownExpires,
         HealthChanges, BudgetChanges, vars, openVars

\* While a dead key is there, the open that put it there takes it away; no other
\* step sees one, and only a lost dial leaves one behind.
DeadKeyStep ==
  \/ UNCHANGED vars
  \/ \E v \in Consumers : UndoStart(v) /\ DeadKeys = {picked[v]} /\ DeadKeys' = {}
  \/ \E v \in Consumers, m \in Muxes :
       /\ opening[v] = "dial" /\ StartFails(v, m)
       /\ DeadKeys = {} /\ DeadKeys' = {picked[v]}
  \/ PlainStep /\ DeadKeys = {} /\ DeadKeys' = {}

LEMMA StepDeadKeys ==
  ASSUME ~OpensOverlap, TypeInv, OneOpen, [Next]_vars
  PROVE  DeadKeyStep
<1>. TypeOK
  BY DEF TypeInv
<1>1. ASSUME NEW v \in Consumers, OpenStep(v)
      PROVE  DeadKeyStep
  <2>0. opening[v] # "off" /\ \A w \in Consumers \ {v} : opening[w] = "off"
    BY <1>1 DEF OpenStep, Select, Reselect, Dial, UndoStart, OneOpen
  <2>1. ASSUME NEW at, opening' = [opening EXCEPT ![v] = at]
        PROVE  /\ DeadKeys = IF opening[v] = "undo" THEN {picked[v]} ELSE {}
               /\ DeadKeys' = IF at = "undo" THEN {picked'[v]} ELSE {}
    BY <2>0, <2>1 DEF DeadKeys, TypeOK
  <2>2. CASE UndoStart(v)
    <3>1. \E at \in {"select", "off"} : opening' = [opening EXCEPT ![v] = at]
      BY <2>2 DEF UndoStart, OpenReturns
    <3>. QED
      BY <2>1, <2>2, <3>1 DEF UndoStart, DeadKeyStep
  <2>3. ASSUME NEW m \in Muxes, opening[v] = "dial", StartFails(v, m) PROVE DeadKeyStep
    <3>1. opening' = [opening EXCEPT ![v] = "undo"] /\ picked' = picked
      BY <2>3 DEF StartFails
    <3>. QED
      BY <2>1, <2>3, <3>1 DEF DeadKeyStep
  <2>4. CASE Select(v) \/ Reselect(v) \/ Boards(v)
    <3>1. \E at \in {"dial", "reselect", "off"} : opening' = [opening EXCEPT ![v] = at]
      BY <2>4 DEF Select, PickSource, Evict, Reselect, Boards, JoinActive, StartMux, Attach,
                  OpenReturns
    <3>2. opening[v] # "undo"
      BY <2>4 DEF Select, Reselect, Boards
    <3>3. PlainStep
      <4>1. Kind
        BY <1>1, OpenStepKind
      <4>2. ASSUME NEW w \in Consumers, NEW m, opening[w] = "dial", StartFails(w, m) PROVE FALSE
        <5>1. w = v
          BY <2>0, <4>2
        <5>. QED
          BY <3>1, <4>2, <5>1 DEF StartFails, TypeOK
      <4>3. ASSUME NEW w \in Consumers, UndoStart(w) PROVE FALSE
        BY <2>0, <3>2, <4>3 DEF UndoStart
      <4>. QED
        BY <4>1, <4>2, <4>3 DEF Kind
    <3>. QED
      BY <2>1, <3>1, <3>2, <3>3 DEF DeadKeyStep
  <2>. QED
    BY <1>1, <2>2, <2>3, <2>4 DEF OpenStep, Dial, Boards
\* Everything else waits until no open is between two awaits.
<1>2. ASSUME Settled, UNCHANGED <<opening, picked>>, Kind, ~UNCHANGED vars PROVE DeadKeyStep
  <2>1. DeadKeys = {} /\ DeadKeys' = {}
    BY <1>2 DEF Settled, DeadKeys
  <2>2. PlainStep
    BY <1>2 DEF Kind, Settled, UndoStart
  <2>. QED
    BY <2>1, <2>2 DEF DeadKeyStep
<1>3. ASSUME NEW v \in Consumers, NEW c, OpenBegins(v, c) PROVE DeadKeyStep
  <2>1. DeadKeys = {} /\ DeadKeys' = {}
    BY <1>3 DEF OpenBegins, Settled, DeadKeys, TypeOK
  <2>2. PlainStep
    BY <1>3 DEF OpenBegins, PlainStep, Calm, poolVars, selectorVars, muxVars, ringVars
  <2>. QED
    BY <2>1, <2>2 DEF DeadKeyStep
<1>4. ASSUME NEW m \in Muxes, RunStep(m) PROVE Settled /\ UNCHANGED <<opening, picked>>
  BY <1>4 DEF RunStep, TimerStep, BytesArrive, SourceStalls, SourceEnds, WatchdogAborts,
              PumpUnwinds, PumpDone, TimePasses, NapEnds, FailOver, BackOff, BudgetSpent,
              GiveUp, BackoffEnds, Reconnect, GraceExpires, openVars
<1>5. Kind
  BY StepKind
<1>6. CASE UNCHANGED vars
  BY <1>6 DEF DeadKeyStep
<1>. QED
  BY <1>1, <1>2, <1>3, <1>4, <1>5, <1>6
     DEF Next, Tune, Warm, Consumers, ViewerLeaves, HoldReleased, CooldownExpires,
         HealthChanges, BudgetChanges, openVars

-----------------------------------------------------------------------------
(* Viewers keep the mux they are attached to.  A key of `active` leads to  *)
(* a running mux, so whoever joins one is served; only a dead key does     *)
(* not, and nobody joins while there is one.                               *)

Running == Pumping \cup {"nap", "backoff"}

WatchedRun == \A m \in Muxes : subs[m] # {} => phase[m] \in Running

KeysRun ==
  \A s \in Streams : active[s] # None =>
    \/ phase[active[s]] \in Running
    \/ phase[active[s]] = "idle" /\ s \in DeadKeys

KeepInv == WatchedRun /\ GraceOnlyWhenEmpty /\ KeysRun

\* The muxes D lose their subscribers and their keys, whatever becomes of them;
\* the others go on running.
LEMMA DropKeeps ==
  ASSUME TypeInv, KeepInv, NEW Q, NEW D, Drop(Q, D), DeadKeys = {},
         \A m \in Muxes \ D : phase[m] \in Running => phase'[m] \in Running
  PROVE  KeepInv'
<1>. TypeOK
  BY DEF TypeInv
<1>1. WatchedRun'
  BY DEF WatchedRun, Drop, KeepInv
<1>2. GraceOnlyWhenEmpty'
  BY DEF GraceOnlyWhenEmpty, Drop, TimersAfterDrop, TypeOK, KeepInv
<1>3. KeysRun'
  <2>1. \A s \in Streams : active'[s] # None => active'[s] = active[s] /\ active[s] \in Muxes \ D
    BY DEF Drop, KeysWithout, TypeOK
  <2>. QED
    BY <2>1 DEF KeysRun, KeepInv
<1>. QED
  BY <1>1, <1>2, <1>3 DEF KeepInv

LEMMA PumpEnds ==
  ASSUME TypeInv, StoppedIsGone, NEW m \in Muxes, phase[m] \in Pumping, PumpDone(m)
  PROVE  \/ Drop({}, {m}) /\ Becomes(m, "ended")
         \/ /\ Becomes(m, "nap")
            /\ UNCHANGED <<used, liveStreamIds, subs, started, stopping, graceTimer, active>>
BY DEF PumpDone, StoppedIsGone

LEMMA GiveUpKeeps ==
  ASSUME TypeInv, KeepInv, NEW m \in Muxes, NEW u, NEW live, GiveUp(m, u, live), DeadKeys = {}
  PROVE  KeepInv'
<1>. TypeOK
  BY DEF TypeInv
<1>0. \A n \in Muxes : n # m => phase'[n] = phase[n] /\ subs'[n] = subs[n]
                                /\ graceTimer'[n] = graceTimer[n]
  BY DEF GiveUp, Becomes, TypeOK
<1>1. WatchedRun' /\ GraceOnlyWhenEmpty'
  BY <1>0 DEF WatchedRun, GraceOnlyWhenEmpty, KeepInv, GiveUp, TypeOK
<1>2. KeysRun'
  <2>1. \A s \in Streams : active'[s] # None
                             => active'[s] = active[s] /\ active[s] \in Muxes \ {m}
    BY DEF GiveUp, KeysWithout, TypeOK
  <2>. QED
    BY <1>0, <2>1 DEF KeysRun, KeepInv
<1>. QED
  BY <1>1, <1>2 DEF KeepInv

LEMMA RunMovesKeep ==
  ASSUME TypeInv, StoppedIsGone, KeepInv, DeadKeys = {}, NEW m \in Muxes, RunMoves(m)
  PROVE  KeepInv'
<1>. TypeOK
  BY DEF TypeInv
\* m goes on running, with the subscribers and the timer it had.
<1>1. ASSUME NEW at \in Running, Becomes(m, at), UNCHANGED <<subs, graceTimer>>,
             \A s \in Streams : active'[s] \in {active[s], None, m}
      PROVE  KeepInv'
  <2>1. \A n \in Muxes : phase'[n] = IF n = m THEN at ELSE phase[n]
    BY <1>1 DEF Becomes, TypeOK
  <2>2. WatchedRun' /\ GraceOnlyWhenEmpty'
    BY <1>1, <2>1 DEF WatchedRun, GraceOnlyWhenEmpty, KeepInv
  <2>3. KeysRun'
    <3>1. \A s \in Streams : active'[s] # None => active'[s] = m \/ active'[s] = active[s]
      BY <1>1
    <3>2. \A s \in Streams : active[s] # None => active[s] \in Muxes /\ phase[active[s]] \in Running
      BY DEF KeysRun, KeepInv, TypeOK
    <3>. QED
      BY <2>1, <3>1, <3>2 DEF KeysRun
  <2>. QED
    BY <2>2, <2>3 DEF KeepInv
<1>2. CASE phase[m] \in Pumping /\ Flows(m)
  BY <1>1, <1>2 DEF Flows, Running, Pumping
<1>3. CASE phase[m] = "closing" /\ Flows(m)
  <2>1. \A n \in Muxes : phase[n] \in Running \cup {"idle"} => phase'[n] = phase[n]
    BY <1>3 DEF Flows, Becomes, Running, Pumping, TypeOK
  <2>2. UNCHANGED <<subs, graceTimer, active>>
    BY <1>3 DEF Flows
  <2>3. \A s \in Streams : active[s] # None => active[s] \in Muxes /\ phase[active[s]] \in Running
    BY DEF KeysRun, KeepInv, TypeOK
  <2>. QED
    BY <2>1, <2>2, <2>3 DEF KeepInv, WatchedRun, GraceOnlyWhenEmpty, KeysRun
<1>4. CASE phase[m] \in Pumping /\ PumpDone(m)
  <2>1. CASE Drop({}, {m}) /\ Becomes(m, "ended")
    <3>1. \A n \in Muxes \ {m} : phase'[n] = phase[n]
      BY <2>1 DEF Becomes, TypeOK
    <3>. QED
      BY <2>1, <3>1, DropKeeps
  <2>2. CASE Becomes(m, "nap") /\ UNCHANGED <<subs, graceTimer, active>>
    BY <1>1, <2>2 DEF Running
  <2>. QED
    BY <1>4, <2>1, <2>2, PumpEnds
<1>5. CASE NapEnds(m)
  <2>1. CASE FailOver(m)
    <3>1. PICK s \in Streams :
            active' = [active EXCEPT ![stream[m]] = IF @ = m THEN None ELSE @, ![s] = m]
      BY <2>1 DEF FailOver, FirstRanked, Alternates, Sources
    <3>2. \A t \in Streams : active'[t] \in {active[t], None, m}
      BY <3>1 DEF TypeOK
    <3>. QED
      BY <2>1, <3>2, <1>1 DEF FailOver, Running, Pumping
  <2>2. CASE BackOff(m)
    BY <2>2, <1>1 DEF BackOff, Running, ringVars
  <2>3. CASE BudgetSpent(m)
    BY <2>3, GiveUpKeeps DEF BudgetSpent
  <2>. QED
    BY <1>5, <2>1, <2>2, <2>3 DEF NapEnds
<1>6. CASE BackoffEnds(m)
  <2>1. CASE Reconnect(m)
    BY <2>1, <1>1 DEF Reconnect, Running, Pumping, ringVars
  <2>. QED
    BY <1>6, <2>1, GiveUpKeeps DEF BackoffEnds
<1>. QED
  BY <1>2, <1>3, <1>4, <1>5, <1>6 DEF RunMoves, Flows

LEMMA BoardsKeep ==
  ASSUME TypeInv, KeepInv, DeadKeys = {}, NEW v \in Consumers, Boards(v)
  PROVE  KeepInv'
<1>. TypeOK /\ picked[v] \in Streams
  BY DEF TypeInv, Boards, DialsKnown
<1>0. \A s \in Streams : active[s] # None => active[s] \in Muxes /\ phase[active[s]] \in Running
  BY DEF KeysRun, KeepInv, TypeOK
\* The consumer boards a mux that runs, without a timer.
<1>1. ASSUME NEW m \in Muxes, phase'[m] \in Running, Attach(v, m),
             \A n \in Muxes \ {m} : phase'[n] = phase[n],
             \A s \in Streams : active'[s] \in {active[s], m}
      PROVE  KeepInv'
  <2>1. \A n \in Muxes \ {m} : subs'[n] = subs[n] /\ graceTimer'[n] = graceTimer[n]
    BY <1>1 DEF Attach, TimersAfterAttach, TypeOK
  <2>2. ~graceTimer'[m]
    BY <1>1 DEF Attach, TimersAfterAttach, TypeOK
  <2>3. KeysRun'
    <3>1. \A s \in Streams : active'[s] # None => active'[s] = m \/ active'[s] = active[s]
      BY <1>1
    <3>. QED
      BY <1>0, <1>1, <3>1 DEF KeysRun
  <2>. QED
    BY <1>1, <2>1, <2>2, <2>3 DEF KeepInv, WatchedRun, GraceOnlyWhenEmpty
<1>2. CASE JoinActive(v)
  <2>1. Existing(v) \in Muxes /\ phase[Existing(v)] \in Running
    BY <1>0, <1>2 DEF JoinActive, Existing
  <2>. QED
    BY <1>1, <1>2, <2>1 DEF JoinActive
<1>3. ASSUME NEW m \in Muxes, StartMux(v, m) PROVE KeepInv'
  <2>1. phase'[m] \in Running /\ \A n \in Muxes \ {m} : phase'[n] = phase[n]
    BY <1>3 DEF StartMux, Running, Pumping, TypeOK
  <2>2. \A s \in Streams : active'[s] \in {active[s], m}
    BY <1>3 DEF StartMux, Construct, TypeOK
  <2>. QED
    BY <1>1, <1>3, <2>1, <2>2 DEF StartMux
<1>. QED
  BY <1>2, <1>3 DEF Boards

LEMMA PlainKeeps ==
  ASSUME TypeInv, StoppedIsGone, KeepInv, PlainStep, DeadKeys = {}
  PROVE  KeepInv'
<1>. TypeOK
  BY DEF TypeInv
<1>1. \A s \in Streams : active[s] # None => active[s] \in Muxes /\ phase[active[s]] \in Running
  BY DEF KeysRun, KeepInv, TypeOK
<1>2. CASE UNCHANGED <<phase, subs, active>> /\ \A m \in Muxes : graceTimer'[m] => graceTimer[m]
  BY <1>1, <1>2 DEF KeepInv, WatchedRun, GraceOnlyWhenEmpty, KeysRun
<1>3. ASSUME NEW m \in Muxes, TimerSpares(m) PROVE KeepInv'
  BY <1>2, <1>3 DEF TimerSpares, TypeOK
<1>4. ASSUME NEW Q \in SUBSET Consumers, NEW D \in SUBSET Muxes, Detaches(Q, D) PROVE KeepInv'
  BY <1>4, DropKeeps DEF Detaches, Aborted
<1>. QED
  BY <1>2, <1>3, <1>4, RunMovesKeep, BoardsKeep DEF PlainStep, Calm, Rebudgets

LEMMA StepKeep ==
  ASSUME TypeInv, StoppedIsGone, KeepInv, DeadKeyStep
  PROVE  KeepInv'
<1>. TypeOK
  BY DEF TypeInv
<1>1. CASE UNCHANGED vars
  BY <1>1 DEF vars, muxVars, ringVars, openVars, KeepInv, WatchedRun, GraceOnlyWhenEmpty, KeysRun,
              DeadKeys
<1>2. ASSUME NEW v \in Consumers, UndoStart(v), DeadKeys = {picked[v]}, DeadKeys' = {}
      PROVE  KeepInv'
  <2>1. WatchedRun' /\ GraceOnlyWhenEmpty'
    BY <1>2 DEF UndoStart, muxVars, KeepInv, WatchedRun, GraceOnlyWhenEmpty
  <2>2. KeysRun'
    BY <1>2 DEF UndoStart, muxVars, KeepInv, KeysRun, TypeOK
  <2>. QED
    BY <2>1, <2>2 DEF KeepInv
<1>3. ASSUME NEW v \in Consumers, NEW m \in Muxes, opening[v] = "dial", StartFails(v, m),
             DeadKeys = {}, DeadKeys' = {picked[v]}
      PROVE  KeepInv'
  <2>0. /\ subs[m] = {} /\ ~Active(m) /\ phase'[m] = "idle"
        /\ UNCHANGED <<subs, graceTimer>>
        /\ \A n \in Muxes \ {m} : phase'[n] = phase[n]
    BY <1>3 DEF StartFails, Reusable, TypeOK
  <2>1. WatchedRun' /\ GraceOnlyWhenEmpty'
    BY <2>0 DEF KeepInv, WatchedRun, GraceOnlyWhenEmpty
  <2>2. picked[v] \in Streams
    BY <1>3 DEF TypeInv, DialsKnown
  <2>3. KeysRun'
    <3>1. \A s \in Streams \ {picked[v]} : active'[s] = active[s] /\ active[s] # m
      BY <1>3, <2>0 DEF StartFails, Construct, Active, TypeOK
    <3>2. active'[picked[v]] = m
      BY <1>3, <2>2 DEF StartFails, Construct, TypeOK
    <3>3. \A s \in Streams : active[s] # None => active[s] \in Muxes /\ phase[active[s]] \in Running
      BY <1>3 DEF KeysRun, KeepInv, TypeOK
    <3>. QED
      BY <1>3, <2>0, <3>1, <3>2, <3>3 DEF KeysRun
  <2>. QED
    BY <2>1, <2>3 DEF KeepInv
<1>. QED
  BY <1>1, <1>2, <1>3, PlainKeeps DEF DeadKeyStep

LEMMA InitKeep == Init => OneOpen /\ KeepInv
<1>1. Init => OneOpen /\ WatchedRun /\ GraceOnlyWhenEmpty
  BY DEF Init, OneOpen, WatchedRun, GraceOnlyWhenEmpty
<1>2. Init => KeysRun
  BY DEF Init, KeysRun
<1>. QED
  BY <1>1, <1>2 DEF KeepInv

\* When opens do not overlap: an attached viewer has a mux behind it that runs, was
\* not told to stop and has no timer armed to end it, however failovers, backoffs,
\* lost dials, evictions and other viewers follow each other.
THEOREM ViewersAreKept ==
  ASSUME ~OpensOverlap, NothingEndsNaps \/ OneSourceEach
  PROVE  Spec => []ViewersKeepTheirMux
<1>. DEFINE Inv == StayInv /\ OneOpen /\ KeepInv
<1>1. Init => Inv
  BY InitStay, InitKeep
<1>2. Inv /\ [Next]_vars => Inv'
  BY StepStay, StepOneOpen, StepDeadKeys, StepKeep DEF StayInv
<1>3. Inv => ViewersKeepTheirMux
  BY DEF StayInv, StoppedIsGone, KeepInv, WatchedRun, Running, ViewersKeepTheirMux,
         NobodyStranded
<1>. QED
  BY <1>1, <1>2, <1>3, PTL DEF Spec

-----------------------------------------------------------------------------
(* One upstream per source.  The live set, the keys and the muxes agree: a *)
(* stream is live exactly while the mux under its key pulls it or sleeps   *)
(* before a failover.  A mux in its backoff keeps its key, not its mark.   *)

RunsUnderKey ==
  \A m \in Muxes : phase[m] \in Sourced => stream[m] \in liveStreamIds /\ active[stream[m]] = m
WaitsUnderKey ==
  \A m \in Muxes : phase[m] = "backoff" /\ ~stopping[m] => active[stream[m]] = m
KeyIsOwn == \A s \in Streams : active[s] # None => stream[active[s]] = s
LiveRuns ==
  \A s \in Streams : s \in liveStreamIds => active[s] # None /\ phase[active[s]] \in Sourced
DeadKeysIdle == \A s \in DeadKeys : active[s] # None /\ phase[active[s]] = "idle"

ShareInv == StartedRuns /\ RunsUnderKey /\ WaitsUnderKey /\ KeyIsOwn /\ LiveRuns

\* What the induction may use of the invariants proved above.
Known == TypeInv /\ StoppedIsGone /\ RunnersHold

\* The muxes D give up their sources: whoever else runs keeps everything.
LEMMA ShareWithout ==
  ASSUME Known, ShareInv, NEW D \in SUBSET Muxes,
         liveStreamIds' = liveStreamIds \ {stream[m] : m \in {n \in D : started[n]}},
         active' = KeysWithout(D), UNCHANGED stream,
         \A m \in Muxes \ D : /\ phase'[m] \in Sourced <=> phase[m] \in Sourced
                              /\ phase'[m] = "backoff" <=> phase[m] = "backoff"
                              /\ stopping'[m] <=> stopping[m]
                              /\ started'[m] <=> started[m],
         \A m \in D : /\ ~started'[m] /\ phase'[m] \notin Sourced
                      /\ phase'[m] = "backoff" => stopping'[m]
  PROVE  ShareInv'
<1>. TypeOK
  BY DEF Known, TypeInv
<1>0. \A m \in Muxes : stream'[m] = stream[m]
  OBVIOUS
<1>1. \A s \in Streams : active'[s] # None => active'[s] = active[s] /\ active[s] \in Muxes \ D
  BY DEF KeysWithout, TypeOK
<1>2. \A m \in Muxes \ D, s \in Streams : active[s] = m => active'[s] = m
  BY DEF KeysWithout, TypeOK
<1>3. \A m \in Muxes : phase[m] \in Sourced => stream[m] \in Streams
  BY DEF Known, TypeInv, SourceKnown, Sourced, Pumping
<1>4. StartedRuns'
  BY DEF ShareInv, StartedRuns
<1>5. RunsUnderKey'
  <2>. SUFFICES ASSUME NEW m \in Muxes, phase'[m] \in Sourced
                PROVE  stream[m] \in liveStreamIds' /\ active'[stream[m]] = m
    BY <1>0 DEF RunsUnderKey
  <2>1. m \notin D /\ phase[m] \in Sourced /\ stream[m] \in Streams
    BY <1>3
  <2>2. stream[m] \in liveStreamIds /\ active[stream[m]] = m
    BY <2>1 DEF ShareInv, RunsUnderKey
  <2>3. ASSUME NEW n \in D, started[n], stream[n] = stream[m] PROVE FALSE
    <3>1. active[stream[n]] = n
      BY <2>3 DEF ShareInv, StartedRuns, RunsUnderKey
    <3>. QED
      BY <2>1, <2>2, <2>3, <3>1
  <2>. QED
    BY <1>2, <2>1, <2>2, <2>3
<1>6. WaitsUnderKey'
  <2>. SUFFICES ASSUME NEW m \in Muxes, phase'[m] = "backoff", ~stopping'[m]
                PROVE  active'[stream[m]] = m
    BY <1>0 DEF WaitsUnderKey
  <2>1. m \notin D /\ active[stream[m]] = m
    BY DEF ShareInv, WaitsUnderKey
  <2>2. stream[m] \in Streams
    BY <2>1 DEF Known, TypeInv, SourceKnown
  <2>. QED
    BY <1>2, <2>1, <2>2
<1>7. KeyIsOwn'
  BY <1>0, <1>1 DEF ShareInv, KeyIsOwn
<1>8. LiveRuns'
  <2>. SUFFICES ASSUME NEW s \in Streams, s \in liveStreamIds'
                PROVE  active'[s] # None /\ phase'[active'[s]] \in Sourced
    BY DEF LiveRuns
  <2>1. active[s] \in Muxes /\ phase[active[s]] \in Sourced /\ stream[active[s]] = s
    BY MuxerAssumption DEF ShareInv, LiveRuns, KeyIsOwn, TypeOK, MuxerAssumption
  <2>2. started[active[s]]
    BY <2>1 DEF Known, RunnersHold, Sourced
  <2>3. active[s] \notin D
    BY <2>1, <2>2
  <2>. QED
    BY <1>2, <2>1, <2>3, MuxerAssumption DEF MuxerAssumption
<1>. QED
  BY <1>4, <1>5, <1>6, <1>7, <1>8 DEF ShareInv

\* Nobody gives anything up.
LEMMA ShareUntouched ==
  ASSUME Known, ShareInv, UNCHANGED <<liveStreamIds, active, stream, started, stopping>>,
         \A m \in Muxes : /\ phase'[m] \in Sourced <=> phase[m] \in Sourced
                          /\ phase'[m] = "backoff" <=> phase[m] = "backoff"
  PROVE  ShareInv'
<1>1. active' = KeysWithout({})
  BY DEF KeysWithout, Known, TypeInv, TypeOK
<1>2. liveStreamIds' = liveStreamIds \ {stream[m] : m \in {n \in {} : started[n]}}
  OBVIOUS
<1>. QED
  BY <1>1, <1>2, ShareWithout

LEMMA GiveUpShares ==
  ASSUME Known, ShareInv, NEW m \in Muxes, NEW u,
         \/ started[m] /\ GiveUp(m, u, LiveAfterFailure(m))
         \/ ~started[m] /\ GiveUp(m, u, liveStreamIds)
  PROVE  ShareInv'
<1>. TypeOK
  BY DEF Known, TypeInv
<1>1. liveStreamIds' = liveStreamIds \ {stream[n] : n \in {k \in {m} : started[k]}}
  BY DEF GiveUp, LiveAfterFailure
<1>2. /\ active' = KeysWithout({m}) /\ UNCHANGED stream
      /\ ~started'[m] /\ phase'[m] = "ended"
      /\ \A n \in Muxes \ {m} : /\ phase'[n] = phase[n] /\ stopping'[n] = stopping[n]
                                /\ started'[n] = started[n]
  BY DEF GiveUp, Becomes, TypeOK
<1>. QED
  BY <1>1, <1>2, ShareWithout DEF Sourced, Pumping

LEMMA RunMovesShare ==
  ASSUME OneSourceEach, Known, ShareInv, NEW m \in Muxes, RunMoves(m)
  PROVE  ShareInv'
<1>. TypeOK
  BY DEF Known, TypeInv
<1>0. phase[m] \in Sourced \cup {"backoff"} => stream[m] \in Streams
  BY DEF Known, TypeInv, SourceKnown, Sourced, Pumping
<1>1. CASE Flows(m)
  <2>1. \A n \in Muxes : /\ phase'[n] \in Sourced <=> phase[n] \in Sourced
                         /\ phase'[n] = "backoff" <=> phase[n] = "backoff"
    BY <1>1 DEF Flows, Becomes, Sourced, Pumping, TypeOK
  <2>. QED
    BY <1>1, <2>1, ShareUntouched DEF Flows
<1>2. CASE phase[m] \in Pumping /\ PumpDone(m)
  <2>1. CASE Drop({}, {m}) /\ Becomes(m, "ended")
    <3>1. /\ ~started'[m] /\ phase'[m] = "ended"
          /\ \A n \in Muxes \ {m} : /\ phase'[n] = phase[n]
                                    /\ stopping'[n] <=> stopping[n]
                                    /\ started'[n] <=> started[n]
      BY <2>1 DEF Drop, Becomes, TypeOK
    <3>2. UNCHANGED stream
      BY <1>2 DEF PumpDone
    <3>3. /\ active' = KeysWithout({m})
          /\ liveStreamIds' = liveStreamIds \ {stream[n] : n \in {k \in {m} : started[k]}}
      BY <2>1 DEF Drop
    <3>. QED
      BY <3>1, <3>2, <3>3, ShareWithout DEF Sourced, Pumping
  <2>2. CASE /\ Becomes(m, "nap")
             /\ UNCHANGED <<used, liveStreamIds, subs, started, stopping, graceTimer, active>>
    <3>1. \A n \in Muxes : /\ phase'[n] \in Sourced <=> phase[n] \in Sourced
                           /\ phase'[n] = "backoff" <=> phase[n] = "backoff"
      BY <1>2, <2>2 DEF Becomes, Sourced, Pumping, TypeOK
    <3>. QED
      BY <1>2, <2>2, <3>1, ShareUntouched DEF PumpDone
  <2>. QED
    BY <1>2, <2>1, <2>2, PumpEnds DEF Known
<1>3. CASE NapEnds(m)
  <2>0. /\ started[m] /\ stream[m] \in Streams /\ phase[m] = "nap" /\ active[stream[m]] = m
        /\ Alternates(m) = {}
    BY <1>0, <1>3, OneSourceNoAlternate
       DEF NapEnds, Known, RunnersHold, Sourced, ShareInv, RunsUnderKey
  <2>1. CASE BackOff(m)
    <3>1. /\ phase' = [phase EXCEPT ![m] = "backoff"]
          /\ started' = [started EXCEPT ![m] = FALSE]
          /\ liveStreamIds' = liveStreamIds \ {stream[m]}
          /\ UNCHANGED <<active, stream, stopping>>
      BY <2>1 DEF BackOff, Becomes, LiveAfterFailure, ringVars
    <3>2. StartedRuns' /\ RunsUnderKey' /\ WaitsUnderKey' /\ KeyIsOwn'
      BY <2>0, <3>1
         DEF ShareInv, StartedRuns, RunsUnderKey, WaitsUnderKey, KeyIsOwn, Sourced, Pumping, TypeOK
    <3>3. LiveRuns'
      <4>1. \A s \in Streams \ {stream[m]} : active[s] # None => active[s] \in Muxes \ {m}
        BY DEF ShareInv, KeyIsOwn, TypeOK
      <4>. QED
        BY <2>0, <3>1, <4>1 DEF ShareInv, LiveRuns, TypeOK
    <3>. QED
      BY <3>2, <3>3 DEF ShareInv
  <2>2. CASE BudgetSpent(m)
    BY <2>0, <2>2, GiveUpShares DEF BudgetSpent
  <2>3. ~FailOver(m)
    BY <2>0 DEF FailOver, FirstRanked
  <2>. QED
    BY <1>3, <2>1, <2>2, <2>3 DEF NapEnds
<1>4. CASE BackoffEnds(m)
  <2>0. ~started[m] /\ stream[m] \in Streams /\ phase[m] = "backoff"
    BY <1>0, <1>4 DEF BackoffEnds, Known, TypeInv, SourceKnown
  <2>1. CASE Reconnect(m)
    <3>1. /\ phase' = [phase EXCEPT ![m] = "silent"]
          /\ started' = [started EXCEPT ![m] = TRUE]
          /\ liveStreamIds' = liveStreamIds \cup {stream[m]}
          /\ UNCHANGED <<active, stream, stopping>>
      BY <2>1 DEF Reconnect, Becomes, ringVars
    <3>2. active[stream[m]] = m
      BY <2>0, <2>1 DEF Reconnect, CanReconnect, ShareInv, WaitsUnderKey
    <3>3. StartedRuns' /\ RunsUnderKey' /\ WaitsUnderKey' /\ KeyIsOwn'
      BY <2>0, <3>1, <3>2
         DEF ShareInv, StartedRuns, RunsUnderKey, WaitsUnderKey, KeyIsOwn, Sourced, Pumping, TypeOK
    <3>4. LiveRuns'
      BY <2>0, <3>1, <3>2, MuxerAssumption
         DEF ShareInv, LiveRuns, Sourced, Pumping, TypeOK, MuxerAssumption
    <3>. QED
      BY <3>3, <3>4 DEF ShareInv
  <2>2. CASE GiveUp(m, used, liveStreamIds)
    BY <2>0, <2>2, GiveUpShares
  <2>. QED
    BY <1>4, <2>1, <2>2 DEF BackoffEnds
<1>. QED
  BY <1>1, <1>2, <1>3, <1>4 DEF RunMoves

\* A mux that nothing refers to gets a key, and starts unless it lost its slot.
LEMMA ConstructShares ==
  ASSUME Known, ShareInv, NEW m \in Muxes, NEW s \in Streams, NEW starts \in BOOLEAN,
         Reusable(m), active[s] = None, Construct(m, s),
         started' = [started EXCEPT ![m] = starts],
         phase' = [phase EXCEPT ![m] = IF starts THEN "silent" ELSE "idle"],
         liveStreamIds' = IF starts THEN liveStreamIds \cup {s} ELSE liveStreamIds
  PROVE  ShareInv'
<1>. TypeOK
  BY DEF Known, TypeInv
<1>1. /\ active'[s] = m /\ stream'[m] = s /\ ~stopping'[m]
      /\ \A t \in Streams \ {s} : active'[t] = active[t] /\ active[t] # m
      /\ \A n \in Muxes \ {m} : /\ stream'[n] = stream[n] /\ stopping'[n] = stopping[n]
                                /\ phase'[n] = phase[n] /\ started'[n] = started[n]
  BY DEF Construct, Reusable, Active, TypeOK
<1>2. \A n \in Muxes \ {m} : phase[n] \in Sourced \cup {"backoff"} => stream[n] \in Streams
  BY DEF Known, TypeInv, SourceKnown, Sourced, Pumping
<1>3. m # None
  BY MuxerAssumption DEF MuxerAssumption
<1>4. StartedRuns'
  BY <1>1 DEF ShareInv, StartedRuns, Sourced, Pumping, TypeOK
<1>5. RunsUnderKey'
  <2>1. ASSUME NEW n \in Muxes \ {m}, phase'[n] \in Sourced
        PROVE  stream'[n] \in liveStreamIds' /\ active'[stream'[n]] = n
    <3>1. stream[n] \in Streams /\ stream[n] \in liveStreamIds /\ active[stream[n]] = n
      BY <1>1, <1>2, <2>1 DEF ShareInv, RunsUnderKey
    <3>2. stream[n] # s
      BY <3>1, MuxerAssumption DEF MuxerAssumption
    <3>. QED
      BY <1>1, <3>1, <3>2
  <2>2. phase'[m] \in Sourced => s \in liveStreamIds'
    BY DEF Sourced, Pumping, TypeOK
  <2>. QED
    BY <1>1, <2>1, <2>2 DEF RunsUnderKey
<1>6. WaitsUnderKey'
  <2>1. ASSUME NEW n \in Muxes \ {m}, phase'[n] = "backoff", ~stopping'[n]
        PROVE  active'[stream'[n]] = n
    <3>1. stream[n] \in Streams /\ active[stream[n]] = n
      BY <1>1, <1>2, <2>1 DEF ShareInv, WaitsUnderKey
    <3>2. stream[n] # s
      BY <3>1, MuxerAssumption DEF MuxerAssumption
    <3>. QED
      BY <1>1, <3>1, <3>2
  <2>. QED
    BY <1>1, <2>1 DEF WaitsUnderKey
<1>7. KeyIsOwn'
  BY <1>1 DEF ShareInv, KeyIsOwn, TypeOK
<1>8. LiveRuns'
  <2>1. ASSUME NEW t \in Streams \ {s}, t \in liveStreamIds'
        PROVE  active'[t] # None /\ phase'[active'[t]] \in Sourced
    BY <1>1, <2>1 DEF ShareInv, LiveRuns, TypeOK
  <2>2. s \notin liveStreamIds
    BY DEF ShareInv, LiveRuns
  <2>3. s \in liveStreamIds' => phase'[m] \in Sourced
    BY <2>2 DEF Sourced, Pumping, TypeOK
  <2>. QED
    BY <1>1, <1>3, <2>1, <2>3 DEF LiveRuns
<1>. QED
  BY <1>4, <1>5, <1>6, <1>7, <1>8 DEF ShareInv

LEMMA PlainShares ==
  ASSUME OneSourceEach, Known, RunnersHold', ShareInv, PlainStep
  PROVE  ShareInv'
<1>. TypeOK
  BY DEF Known, TypeInv
<1>1. CASE UNCHANGED <<liveStreamIds, active, stream, started, stopping, phase>>
  BY <1>1, ShareUntouched
<1>2. ASSUME NEW Q \in SUBSET Consumers, NEW D \in SUBSET Muxes, Detaches(Q, D) PROVE ShareInv'
  <2>1. \A m \in Muxes : /\ started'[m] <=> started[m] /\ m \notin D
                         /\ stopping'[m] <=> stopping[m] \/ m \in D
                         /\ m \notin D => phase'[m] = phase[m]
    BY <1>2 DEF Detaches, Drop, Aborted
  <2>2. \A m \in D : phase'[m] \notin Sourced
    BY <2>1 DEF RunnersHold, Sourced
  <2>. QED
    BY <1>2, <2>1, <2>2, ShareWithout DEF Detaches, Drop
<1>3. ASSUME NEW v \in Consumers, Boards(v) PROVE ShareInv'
  <2>. picked[v] \in Streams
    BY <1>3 DEF Boards, Known, TypeInv, DialsKnown
  <2>1. ASSUME NEW m \in Muxes, StartMux(v, m) PROVE ShareInv'
    BY <2>1, ConstructShares DEF StartMux, Existing
  <2>. QED
    BY <1>1, <1>3, <2>1 DEF Boards, JoinActive, selectorVars
<1>. QED
  BY <1>1, <1>2, <1>3, RunMovesShare DEF PlainStep, Calm, Rebudgets, TimerSpares

\* Two opens never undo the same key: the second one finds the mux of the first.
UndosApart == \A v, w \in Consumers : /\ opening[v] = "undo" /\ opening[w] = "undo"
                                      /\ picked[v] = picked[w]
                                      => v = w

DeadKeysInv == UndosApart /\ DeadKeysIdle

\* v comes to stand at another await, and no key of a dead mux is touched.
LEMMA OpenMovesOn ==
  ASSUME TypeOK, DeadKeysInv, NEW v \in Consumers, NEW at, at # "undo", opening[v] # "undo",
         opening' = [opening EXCEPT ![v] = at],
         \A w \in Consumers \ {v} : picked'[w] = picked[w],
         \A s \in DeadKeys : active'[s] = active[s] /\ phase'[active[s]] = phase[active[s]]
  PROVE  DeadKeysInv'
<1>1. \A w \in Consumers : /\ opening'[w] = "undo" <=> opening[w] = "undo"
                           /\ opening[w] = "undo" => picked'[w] = picked[w]
  BY DEF TypeOK
<1>2. DeadKeys' = DeadKeys
  BY <1>1 DEF DeadKeys
<1>3. UndosApart'
  BY <1>1 DEF DeadKeysInv, UndosApart
<1>4. DeadKeysIdle'
  BY <1>2 DEF DeadKeysInv, DeadKeysIdle
<1>. QED
  BY <1>3, <1>4 DEF DeadKeysInv

LEMMA UndoBrings ==
  ASSUME TypeInv, DeadKeysInv, NEW v \in Consumers, UndoStart(v)
  PROVE  DeadKeysInv'
<1>. TypeOK
  BY DEF TypeInv
<1>1. PICK at \in {"select", "off"} : opening' = [opening EXCEPT ![v] = at]
  BY DEF UndoStart, OpenReturns
<1>2. \A w \in Consumers \ {v} : opening'[w] = opening[w] /\ picked'[w] = picked[w]
  BY <1>1 DEF UndoStart, OpenReturns, TypeOK
<1>3. opening'[v] # "undo" /\ opening[v] = "undo"
  BY <1>1 DEF UndoStart, TypeOK
<1>4. UndosApart'
  BY <1>2, <1>3 DEF DeadKeysInv, UndosApart
<1>5. ASSUME NEW s \in DeadKeys' PROVE s \in DeadKeys /\ s # picked[v]
  <2>1. PICK w \in Consumers : opening'[w] = "undo" /\ picked'[w] = s
    BY <1>5 DEF DeadKeys
  <2>. QED
    BY <2>1, <1>2, <1>3 DEF DeadKeys, DeadKeysInv, UndosApart
<1>6. phase' = phase /\ \A s : s # picked[v] => active'[s] = active[s]
  BY DEF UndoStart, muxVars, TypeOK
<1>7. DeadKeysIdle'
  BY <1>5, <1>6 DEF DeadKeysInv, DeadKeysIdle
<1>. QED
  BY <1>4, <1>7 DEF DeadKeysInv

LEMMA LostDialLeaves ==
  ASSUME TypeInv, DeadKeysInv, NEW v \in Consumers, NEW m \in Muxes, opening[v] = "dial",
         StartFails(v, m)
  PROVE  DeadKeysInv'
<1>. TypeOK /\ picked[v] \in Streams
  BY DEF TypeInv, DialsKnown
<1>0. m # None
  BY MuxerAssumption DEF MuxerAssumption
<1>1. /\ picked' = picked /\ opening'[v] = "undo"
      /\ \A w \in Consumers \ {v} : opening'[w] = opening[w]
  BY DEF StartFails, TypeOK
<1>2. picked[v] \notin DeadKeys
  BY DEF StartFails, Existing, DeadKeysInv, DeadKeysIdle
<1>3. DeadKeys' = DeadKeys \cup {picked[v]}
  BY <1>1 DEF DeadKeys
<1>4. UndosApart'
  BY <1>1, <1>2 DEF DeadKeysInv, UndosApart, DeadKeys
<1>5. active'[picked[v]] = m /\ phase'[m] = "idle"
  BY DEF StartFails, Construct, TypeOK
<1>6. ASSUME NEW s \in DeadKeys PROVE active'[s] # None /\ phase'[active'[s]] = "idle"
  <2>1. active[s] # None /\ phase[active[s]] = "idle" /\ s # picked[v]
    BY <1>2 DEF DeadKeysInv, DeadKeysIdle
  <2>2. active'[s] = active[s]
    BY <2>1 DEF StartFails, Construct, TypeOK
  <2>3. active[s] # m => phase'[active[s]] = phase[active[s]]
    BY DEF StartFails, TypeOK
  <2>. QED
    BY <1>5, <2>1, <2>2, <2>3
<1>7. DeadKeysIdle'
  BY <1>0, <1>3, <1>5, <1>6 DEF DeadKeysIdle
<1>. QED
  BY <1>4, <1>7 DEF DeadKeysInv

\* A key of a dead mux stays as it is until the open that put it there takes it away.
LEMMA StepDeadKeysInv ==
  ASSUME TypeInv, NoHolds, DeadKeysInv, [Next]_vars
  PROVE  DeadKeysInv'
<1>. TypeOK
  BY DEF TypeInv
<1>1. CASE UNCHANGED <<opening, picked, active, phase>>
  BY <1>1 DEF DeadKeysInv, UndosApart, DeadKeysIdle, DeadKeys
<1>2. ASSUME Settled, UNCHANGED <<opening, picked>> PROVE DeadKeysInv'
  BY <1>2 DEF Settled, DeadKeysInv, UndosApart, DeadKeysIdle, DeadKeys
<1>3. ASSUME NEW v \in Consumers, NEW c, OpenBegins(v, c) PROVE DeadKeysInv'
  BY <1>3, OpenMovesOn DEF OpenBegins, ringVars, muxVars
<1>4. ASSUME NEW v \in Consumers, OpenStep(v) PROVE DeadKeysInv'
  <2>1. CASE PickSource(v) /\ opening[v] # "undo"
    <3>1. /\ opening' = [opening EXCEPT ![v] = "dial"]
          /\ \A w \in Consumers \ {v} : picked'[w] = picked[w]
          /\ UNCHANGED <<active, phase>>
      BY <2>1 DEF PickSource, ringVars, muxVars, TypeOK
    <3>. QED
      BY <2>1, <3>1, OpenMovesOn
  <2>2. ASSUME OpenReturns(v), UNCHANGED <<active, phase>>, opening[v] # "undo"
        PROVE  DeadKeysInv'
    <3>1. /\ opening' = [opening EXCEPT ![v] = "off"]
          /\ \A w \in Consumers \ {v} : picked'[w] = picked[w]
      BY <2>2 DEF OpenReturns, TypeOK
    <3>. QED
      BY <2>2, <3>1, OpenMovesOn
  <2>3. CASE Evict(v) /\ opening[v] # "undo"
    <3>0. Drop({}, {}) /\ phase' = Aborted({})
      BY <2>3, EvictsNobody
    <3>1. UNCHANGED <<active, phase>>
      BY <3>0 DEF Drop, KeysWithout, Aborted, TypeOK
    <3>2. CASE opening' = [opening EXCEPT ![v] = "reselect"] /\ UNCHANGED picked
      <4>1. /\ \A w \in Consumers \ {v} : picked'[w] = picked[w]
            /\ \A s \in DeadKeys : active'[s] = active[s] /\ phase'[active[s]] = phase[active[s]]
        BY <3>1, <3>2
      <4>. QED
        BY <2>3, <3>2, <4>1, OpenMovesOn
    <3>. QED
      BY <2>2, <2>3, <3>1, <3>2 DEF Evict
  <2>4. CASE Select(v)
    BY <2>1, <2>3, <2>4 DEF Select
  <2>5. CASE Reselect(v)
    BY <2>1, <2>2, <2>5 DEF Reselect, ringVars, muxVars
  <2>6. CASE opening[v] = "dial" /\ JoinActive(v)
    BY <2>2, <2>6 DEF JoinActive, Attach
  <2>7. ASSUME NEW m \in Muxes, opening[v] = "dial", StartMux(v, m) PROVE DeadKeysInv'
    <3>. picked[v] \in Streams
      BY <2>7 DEF TypeInv, DialsKnown
    <3>1. /\ opening' = [opening EXCEPT ![v] = "off"]
          /\ \A w \in Consumers \ {v} : picked'[w] = picked[w]
      BY <2>7 DEF StartMux, Attach, OpenReturns, TypeOK
    <3>2. picked[v] \notin DeadKeys
      BY <2>7 DEF StartMux, Existing, DeadKeysInv, DeadKeysIdle
    <3>3. DeadKeys \subseteq Streams
      BY DEF TypeInv, DialsKnown, DeadKeys
    <3>4. \A s \in DeadKeys : active'[s] = active[s] /\ active[s] # m
      BY <2>7, <3>2, <3>3 DEF StartMux, Construct, Reusable, Active, TypeOK
    <3>5. \A n : n # m => phase'[n] = phase[n]
      BY <2>7 DEF StartMux, TypeOK
    <3>. QED
      BY <2>7, <3>1, <3>4, <3>5, OpenMovesOn
  <2>. QED
    BY <1>4, <2>4, <2>5, <2>6, <2>7, UndoBrings, LostDialLeaves DEF OpenStep, Dial
<1>5. ASSUME NEW m \in Muxes, RunStep(m) PROVE Settled /\ UNCHANGED <<opening, picked>>
  BY <1>5 DEF RunStep, TimerStep, BytesArrive, SourceStalls, SourceEnds, WatchdogAborts,
              PumpUnwinds, PumpDone, TimePasses, NapEnds, FailOver, BackOff, BudgetSpent,
              GiveUp, BackoffEnds, Reconnect, GraceExpires, openVars
<1>. QED
  BY <1>1, <1>2, <1>3, <1>4, <1>5
     DEF Next, Tune, Warm, Consumers, ViewerLeaves, HoldReleased, CooldownExpires,
         HealthChanges, BudgetChanges, vars, openVars, muxVars, ringVars

LEMMA StepShares ==
  ASSUME OneSourceEach, Known, RunnersHold', ShareInv, DeadKeysIdle, Kind
  PROVE  ShareInv'
<1>. TypeOK
  BY DEF Known, TypeInv
<1>1. ASSUME NEW v \in Consumers, UndoStart(v) PROVE ShareInv'
  <2>0. picked[v] \in DeadKeys
    BY <1>1 DEF UndoStart, DeadKeys
  <2>1. /\ active' = [active EXCEPT ![picked[v]] = None]
        /\ UNCHANGED <<liveStreamIds, stream, started, stopping, phase>>
    BY <1>1 DEF UndoStart, selectorVars, muxVars
  <2>2. picked[v] \in Streams /\ active[picked[v]] \in Muxes /\ phase[active[picked[v]]] = "idle"
    BY <1>1, <2>0 DEF UndoStart, Known, TypeInv, DialsKnown, DeadKeysIdle, TypeOK
  <2>3. StartedRuns'
    BY <2>1 DEF ShareInv, StartedRuns
  <2>4. RunsUnderKey' /\ WaitsUnderKey'
    <3>1. \A m \in Muxes : /\ phase[m] \in Sourced => stream[m] # picked[v]
                           /\ phase[m] = "backoff" /\ ~stopping[m] => stream[m] # picked[v]
      BY <2>2 DEF ShareInv, RunsUnderKey, WaitsUnderKey, Sourced, Pumping
    <3>2. \A s : s # picked[v] => active'[s] = active[s]
      BY <2>1 DEF TypeOK
    <3>. QED
      BY <2>1, <3>1, <3>2 DEF ShareInv, RunsUnderKey, WaitsUnderKey
  <2>5. KeyIsOwn'
    BY <2>1 DEF ShareInv, KeyIsOwn, TypeOK
  <2>6. LiveRuns'
    <3>1. picked[v] \notin liveStreamIds
      BY <2>2 DEF ShareInv, LiveRuns, Sourced, Pumping
    <3>. QED
      BY <2>1, <3>1 DEF ShareInv, LiveRuns, TypeOK
  <2>. QED
    BY <2>3, <2>4, <2>5, <2>6 DEF ShareInv
<1>2. ASSUME NEW v \in Consumers, NEW m \in Muxes, opening[v] = "dial", StartFails(v, m)
      PROVE  ShareInv'
  <2>. picked[v] \in Streams
    BY <1>2 DEF Known, TypeInv, DialsKnown
  <2>. QED
    BY <1>2, ConstructShares DEF StartFails, Existing, selectorVars
<1>. QED
  BY <1>1, <1>2, PlainShares DEF Kind

LEMMA InitShare == Init => ShareInv /\ DeadKeysInv
<1>1. Init => StartedRuns /\ RunsUnderKey /\ WaitsUnderKey
  BY DEF Init, StartedRuns, RunsUnderKey, WaitsUnderKey, Sourced, Pumping
<1>2. Init => KeyIsOwn /\ LiveRuns /\ DeadKeysInv
  BY DEF Init, KeyIsOwn, LiveRuns, DeadKeysInv, UndosApart, DeadKeysIdle, DeadKeys
<1>. QED
  BY <1>1, <1>2 DEF ShareInv

\* "One upstream connection per live source, fanned out to N local viewers": with the
\* ring off, keep-warm longer than a failover sleeps and one source per channel, two
\* muxes never pull one source, and every live source has its mux under its key,
\* running and not told to stop, for the next viewer to join; also when opens overlap.
THEOREM SourcesAreShared ==
  ASSUME KeepWarmOutlastsNap, MAX_WARM = 0, OneSourceEach
  PROVE  Spec => []UpstreamsAreShared
<1>. NothingEndsNaps
  BY DEF NothingEndsNaps
<1>. DEFINE Inv == StayInv /\ ShareInv /\ DeadKeysInv
<1>1. Init => Inv
  BY InitStay, InitShare
<1>2. Inv /\ [Next]_vars => Inv'
  <2>. SUFFICES ASSUME Inv, [Next]_vars PROVE Inv'
    OBVIOUS
  <2>1. StayInv'
    BY StepStay
  <2>2. Known /\ RunnersHold' /\ NoHolds
    BY <2>1 DEF StayInv, ExactInv, Known
  <2>3. DeadKeysInv'
    BY <2>2, StepDeadKeysInv DEF Known
  <2>4. Kind
    BY <2>2, StepKind DEF Known, TypeInv
  <2>. QED
    BY <2>1, <2>2, <2>3, <2>4, StepShares DEF DeadKeysInv
<1>3. Inv => UpstreamsAreShared
  <2>. SUFFICES ASSUME Inv PROVE UpstreamsAreShared
    OBVIOUS
  <2>1. OneUpstreamPerSource /\ UpstreamIsShared
    BY DEF ShareInv, RunsUnderKey, Sourced, OneUpstreamPerSource, UpstreamIsShared
  <2>2. LiveIsJoinable
    <3>1. \A s \in liveStreamIds : active[s] # None /\ stream[active[s]] = s /\ active[s] \in Muxes
      BY DEF ShareInv, LiveRuns, KeyIsOwn, StayInv, TypeInv, TypeOK, SelectorTypeOK
    <3>2. \A s \in liveStreamIds : Active(active[s])
      BY <3>1 DEF Active, StayInv, TypeInv, TypeOK, SelectorTypeOK
    <3>. QED
      BY <3>1, <3>2 DEF LiveIsJoinable, StayInv, StoppedIsGone
  <2>. QED
    BY <2>1, <2>2 DEF UpstreamsAreShared
<1>. QED
  BY <1>1, <1>2, <1>3, PTL DEF Spec
=============================================================================
