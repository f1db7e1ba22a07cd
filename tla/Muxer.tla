------------------------------- MODULE Muxer --------------------------------
(***************************************************************************)
(* The multiplexing proxy (src/proxy/muxer.ts) with everything that shares *)
(* the provider slots with it in one process: the slot pool, the selector, *)
(* the reconnect policy, the channel cooldown and the prewarm ring.        *)
(*                                                                         *)
(* A mux pulls one upstream and fans it out.  Its run() loop is a process  *)
(* of its own that sleeps and waits for the network; between two of its    *)
(* steps viewers come and go, timers fire and warm holds are evicted.      *)
(* Database reads resolve within the macrotask that issued them, so an     *)
(* open() is not interleaved with timers or sockets, only (OpensOverlap)   *)
(* with other opens of the same macrotask.                                 *)
(***************************************************************************)
EXTENDS Selector, SequencesExt

CONSTANTS Viewers,            \* clients that tune channels
          Muxes,              \* ChannelMux instances; a dead one is reused
          None,               \* no mux, no stream
          RECONNECT_MAX,      \* same-source reconnects per incident
          OPEN_ATTEMPTS,      \* turns of the loop in Muxer.open
          MAX_WARM, HEADROOM, \* the prewarm ring's limits
          KeepWarmOutlastsNap,\* keepWarmSeconds exceeds the failover's sleep
          OpensOverlap,       \* opens of one macrotask may interleave
          FlakyStreams, FlakyProviders, \* those whose health may change
          InitialMax, Budgets \* budget at start, budgets an admin may set

ASSUME MuxerAssumption ==
  /\ None \notin Streams \cup Muxes \cup Providers
  /\ RECONNECT_MAX \in Nat /\ OPEN_ATTEMPTS \in Nat
  /\ MAX_WARM \in Nat /\ HEADROOM \in Nat
  /\ KeepWarmOutlastsNap \in BOOLEAN /\ OpensOverlap \in BOOLEAN
  /\ InitialMax \in [Providers -> Nat] /\ Budgets \subseteq Nat
  /\ IsFiniteSet(Muxes)
  /\ Viewers \cap Channels = {}

\* A warm hold subscribes like a viewer; the channel it warms names it.
Consumers == Viewers \cup Channels

VARIABLES
  \* one ChannelMux per m \in Muxes
  phase,        \* where its run() is
  stream,       \* the source it pulls (kept when it is dead)
  subs,         \* its subscribers
  started,      \* it believes it holds a provider slot
  stopping,     \* teardown ran
  failed,       \* sources that failed this session
  reconnects,   \* same-source reconnects spent
  longRun,      \* sourceStartedAt is RECONNECT_HEALTHY_MS or more ago
  graceTimer,   \* the keep-warm timer is armed
  \* class Muxer, cooldown.ts, prewarm.ts
  active,       \* Map<streamId, mux>
  cooling,      \* channels whose cooldown has not run out
  holds,        \* warm holds, oldest first
  \* one Muxer.open call per consumer
  opening,      \* where it stands
  tuned,        \* the channel it opens
  picked,       \* selection.stream
  attempt       \* turn of its loop

muxVars  == <<phase, stream, subs, started, stopping, failed, reconnects,
              longRun, graceTimer>>
openVars == <<opening, tuned, picked, attempt>>
ringVars == <<active, cooling, holds>>
vars     == <<poolVars, selectorVars, muxVars, openVars, ringVars>>

\* A pump is silent from its dial to its first byte and whenever bytes stop.
Pumping == {"silent", "pulling"}
Phases  == {"idle", "closing", "nap", "backoff", "ended"} \cup Pumping
Opening == {"off", "select", "reselect", "dial", "undo"}

TypeOK == /\ SelectorTypeOK
          /\ phase \in [Muxes -> Phases]
          /\ stream \in [Muxes -> Streams \cup {None}]
          /\ subs \in [Muxes -> SUBSET Consumers]
          /\ started \in [Muxes -> BOOLEAN]
          /\ stopping \in [Muxes -> BOOLEAN]
          /\ failed \in [Muxes -> SUBSET Streams]
          /\ reconnects \in [Muxes -> 0 .. RECONNECT_MAX]
          /\ longRun \in [Muxes -> BOOLEAN]
          /\ graceTimer \in [Muxes -> BOOLEAN]
          /\ active \in [Streams -> Muxes \cup {None}]
          /\ cooling \subseteq Channels
          /\ holds \in Seq(Channels)
          /\ opening \in [Consumers -> Opening]
          /\ tuned \in [Consumers -> Channels \cup {None}]
          /\ picked \in [Consumers -> Streams \cup {None}]
          /\ attempt \in [Consumers -> 0 .. OPEN_ATTEMPTS]

-----------------------------------------------------------------------------
Provider(m)  == ProviderOf[stream[m]]
ChannelMux(m, c) == stream[m] # None /\ ChannelOf[stream[m]] = c
Active(m)    == \E s \in Streams : active[s] = m
HasChannel(c) == \E m \in Muxes : Active(m) /\ ChannelMux(m, c)
Attached(v)  == \E m \in Muxes : v \in subs[m]

\* muxer.viewers: everybody on the channel, its warm hold included.
ViewersOn(c) == UNION {subs[m] : m \in {n \in Muxes : Active(n) /\ ChannelMux(n, c)}}

\* No open is between two awaits: the event loop may run something else.
Settled == \A v \in Consumers : opening[v] = "off"

\* An object nothing refers to any more stands for the next ChannelMux; the
\* model bounds how many are in use at once, and no open begins without one.
Reusable(m) == /\ phase[m] \in {"idle", "ended"} /\ ~started[m]
               /\ subs[m] = {} /\ ~graceTimer[m] /\ ~Active(m)
MuxToSpare  == Cardinality({m \in Muxes : Reusable(m)})
                 > Cardinality({v \in Consumers : opening[v] # "off"})

Init == /\ used = [p \in Providers |-> 0]
        /\ max = InitialMax
        /\ liveStreamIds = {}
        /\ health = [s \in Streams |-> "alive"]
        /\ verdict = [p \in Providers |-> "healthy"]
        /\ phase = [m \in Muxes |-> "idle"]
        /\ stream = [m \in Muxes |-> None]
        /\ subs = [m \in Muxes |-> {}]
        /\ started = [m \in Muxes |-> FALSE]
        /\ stopping = [m \in Muxes |-> FALSE]
        /\ failed = [m \in Muxes |-> {}]
        /\ reconnects = [m \in Muxes |-> 0]
        /\ longRun = [m \in Muxes |-> FALSE]
        /\ graceTimer = [m \in Muxes |-> FALSE]
        /\ active = [s \in Streams |-> None]
        /\ cooling = {}
        /\ holds = <<>>
        /\ opening = [v \in Consumers |-> "off"]
        /\ tuned = [v \in Consumers |-> None]
        /\ picked = [v \in Consumers |-> None]
        /\ attempt = [v \in Consumers |-> 0]

-----------------------------------------------------------------------------
(* Detaching and tearing down.                                             *)

\* Mutant: a sleeping run() is trusted to give back its slot itself.
HeldBy_PumpingOnly(D, p) == {m \in D : started[m] /\ Provider(m) = p /\ phase[m] \in Pumping}
\* The muxes of D that believe they hold a slot of p.
HeldBy(D, p) == {m \in D : started[m] /\ Provider(m) = p}

\* Mutant: the keep-warm timer is not armed.
TimersAfterDrop_None(Q, D) == [m \in Muxes |-> m \notin D /\ graceTimer[m]]

\* The last subscriber out arms the keep-warm timer, a teardown clears it.
TimersAfterDrop(Q, D) ==
  [m \in Muxes |-> m \notin D /\ (graceTimer[m] \/ (subs[m] # {} /\ subs[m] \subseteq Q))]

\* Mutant: a mux that holds no slot keeps its key.
KeysWithout_StartedOnly(D) ==
  [s \in Streams |-> IF active[s] \in D /\ started[active[s]] THEN None ELSE active[s]]

\* onTeardown: `active` without every key of the muxes D.
KeysWithout(D) == [s \in Streams |-> IF active[s] \in D THEN None ELSE active[s]]

\* The consumers Q detach and the muxes D are torn down: subscribers closed, and
\* the slot given back if the mux still believes it has one.
Drop(Q, D) ==
  /\ subs' = [m \in Muxes |-> IF m \in D THEN {} ELSE subs[m] \ Q]
  /\ graceTimer' = TimersAfterDrop(Q, D)
  /\ stopping' = [m \in Muxes |-> stopping[m] \/ m \in D]
  /\ started' = [m \in Muxes |-> started[m] /\ m \notin D]
  /\ used' = [p \in Providers |-> LessSlots(used[p], Cardinality(HeldBy(D, p)))]
  /\ liveStreamIds' = liveStreamIds \ {stream[m] : m \in {n \in D : started[n]}}
  /\ active' = KeysWithout(D)

\* What aborting the upstreams of D makes of their run() loops: a pump unwinds,
\* a sleeping loop sleeps on.
Aborted(D) == [m \in Muxes |-> IF m \in D /\ phase[m] \in Pumping
                                 THEN "closing" ELSE phase[m]]

\* A viewer goes away: its request is aborted, its stream cancelled, or a push
\* to it fails.
ViewerLeaves(v) ==
  /\ Settled /\ Attached(v)
  /\ Drop({v}, {})
  /\ UNCHANGED <<max, health, verdict, phase, stream, failed, reconnects,
                 longRun, openVars, cooling, holds>>

\* The keep-warm timer fires: teardown(), which spares a mux with viewers.
GraceExpires(m) ==
  /\ Settled /\ graceTimer[m]
  /\ KeepWarmOutlastsNap => phase[m] # "nap"
  /\ IF subs[m] = {}
       THEN Drop({}, {m}) /\ phase' = Aborted({m})
       ELSE /\ graceTimer' = [graceTimer EXCEPT ![m] = FALSE]
            /\ UNCHANGED <<used, liveStreamIds, phase, subs, started, stopping, active>>
  /\ UNCHANGED <<max, health, verdict, stream, failed, reconnects, longRun,
                 openVars, cooling, holds>>

-----------------------------------------------------------------------------
(* Warm holds.                                                             *)

\* release(channelId) for the holds of the channels C: their readers are
\* cancelled and dropIdle stops the muxes of C left without viewers.
ReleaseHolds(C) ==
  LET idle == {m \in Muxes : /\ Active(m)
                             /\ \E c \in C : ChannelMux(m, c)
                             /\ subs[m] \subseteq C}
  IN  Drop(C, idle) /\ phase' = Aborted(idle)

\* The hold's own timer fires, or the ring has moved on after a tune.
HoldReleased(i) ==
  /\ Settled /\ i \in DOMAIN holds
  /\ ReleaseHolds({holds[i]})
  /\ holds' = RemoveAt(holds, i)
  /\ UNCHANGED <<max, health, verdict, stream, failed, reconnects, longRun,
                 openVars, cooling>>

\* evictionPlan: walk the holds oldest first up to the first nobody watches; the
\* first n holds are dropped, the others on the way being no longer warm.
IdleHolds == {i \in DOMAIN holds : Cardinality(ViewersOn(holds[i])) <= 1}
EvictionPlan(n) ==
  \/ n \in IdleHolds /\ \A i \in 1 .. n - 1 : i \notin IdleHolds
  \/ n = Len(holds) /\ IdleHolds = {}

-----------------------------------------------------------------------------
(* Muxer.open, one step per stretch between two awaits.                    *)

OpenReturns(v) == /\ opening' = [opening EXCEPT ![v] = "off"]
                  /\ tuned' = [tuned EXCEPT ![v] = None]
                  /\ picked' = [picked EXCEPT ![v] = None]
                  /\ attempt' = [attempt EXCEPT ![v] = 0]

OpenBegins(v, c) ==
  /\ OpensOverlap \/ Settled
  /\ opening[v] = "off" /\ ~Attached(v)
  /\ c \notin cooling
  /\ MuxToSpare
  /\ opening' = [opening EXCEPT ![v] = "select"]
  /\ tuned' = [tuned EXCEPT ![v] = c]
  /\ UNCHANGED <<poolVars, selectorVars, muxVars, picked, attempt, ringVars>>

\* A client tunes channel c.
Tune(v, c) == v \in Viewers /\ OpenBegins(v, c)

\* The ring warms channel c; one ring run opens one channel at a time.
Warm(c) ==
  /\ \A d \in Channels : opening[d] = "off"
  /\ c \notin {holds[i] : i \in DOMAIN holds} /\ ~HasChannel(c)
  /\ Len(holds) < MAX_WARM
  /\ TotalFree > HEADROOM
  /\ OpenBegins(c, c)

PickSource(v) == \E s \in Selections(tuned[v]) :
  /\ opening' = [opening EXCEPT ![v] = "dial"]
  /\ picked' = [picked EXCEPT ![v] = s]
  /\ UNCHANGED <<poolVars, selectorVars, muxVars, tuned, attempt, ringVars>>

\* selectStream found nothing: the evictor may free a warm hold's slot.
Evict(v) == \E n \in 0 .. Len(holds) :
  /\ Selections(tuned[v]) = {}
  /\ EvictionPlan(n)
  /\ ReleaseHolds({holds[i] : i \in 1 .. n})
  /\ holds' = SubSeq(holds, n + 1, Len(holds))
  /\ IF IdleHolds # {}
       THEN /\ opening' = [opening EXCEPT ![v] = "reselect"]
            /\ UNCHANGED <<tuned, picked, attempt>>
       ELSE OpenReturns(v)
  /\ UNCHANGED <<max, health, verdict, stream, failed, reconnects, longRun, cooling>>

Select(v) == opening[v] = "select" /\ (PickSource(v) \/ Evict(v))

Reselect(v) ==
  /\ opening[v] = "reselect"
  /\ \/ PickSource(v)
     \/ /\ Selections(tuned[v]) = {}
        /\ OpenReturns(v)
        /\ UNCHANGED <<poolVars, selectorVars, muxVars, ringVars>>

\* Mutant: attaching leaves the keep-warm timer running.
TimersAfterAttach_Kept(m) == graceTimer
TimersAfterAttach(m) == [graceTimer EXCEPT ![m] = FALSE]

\* The stream handed to the consumer attaches it; for the ring it is a hold.
Attach(v, m) ==
  /\ subs' = [subs EXCEPT ![m] = @ \cup {v}]
  /\ graceTimer' = TimersAfterAttach(m)
  /\ cooling' = cooling \ {tuned[v]}
  /\ holds' = IF v \in Channels THEN Append(holds, v) ELSE holds
  /\ OpenReturns(v)

\* new ChannelMux(s): m stands for the new object.
Construct(m, s) ==
  /\ stream' = [stream EXCEPT ![m] = s]
  /\ stopping' = [stopping EXCEPT ![m] = FALSE]
  /\ failed' = [failed EXCEPT ![m] = {}]
  /\ reconnects' = [reconnects EXCEPT ![m] = 0]
  /\ longRun' = [longRun EXCEPT ![m] = FALSE]
  /\ active' = [active EXCEPT ![s] = m]

\* Mutant: the lookup trusts the live set.
Existing_LiveOnly(v) == IF picked[v] \in liveStreamIds THEN active[picked[v]] ELSE None

\* active.get(selection.stream.id), whatever became of the stream since.
Existing(v) == active[picked[v]]

JoinActive(v) == LET m == Existing(v) IN
  /\ m # None
  /\ Attach(v, m)
  /\ UNCHANGED <<poolVars, selectorVars, phase, stream, started, stopping,
                 failed, reconnects, longRun, active>>

StartMux(v, m) == LET s == picked[v] IN
  /\ Existing(v) = None /\ Reusable(m)
  /\ Construct(m, s)
  /\ HasFreeSlot(ProviderOf[s])
  /\ used' = Acquired(used, ProviderOf[s])
  /\ started' = [started EXCEPT ![m] = TRUE]
  /\ liveStreamIds' = liveStreamIds \cup {s}
  /\ phase' = [phase EXCEPT ![m] = "silent"]
  /\ Attach(v, m)
  /\ UNCHANGED <<max, health, verdict>>

\* start() lost the slot: until the await resumes, the dead mux is in `active`.
StartFails(v, m) == LET s == picked[v] IN
  /\ Existing(v) = None /\ Reusable(m)
  /\ ~HasFreeSlot(ProviderOf[s])
  /\ Construct(m, s)
  /\ phase' = [phase EXCEPT ![m] = "idle"]
  /\ started' = [started EXCEPT ![m] = FALSE]
  /\ opening' = [opening EXCEPT ![v] = "undo"]
  /\ UNCHANGED <<poolVars, selectorVars, subs, graceTimer, tuned, picked,
                 attempt, cooling, holds>>

Dial(v) == /\ opening[v] = "dial"
           /\ \/ JoinActive(v)
              \/ \E m \in Muxes : StartMux(v, m) \/ StartFails(v, m)

\* Mutant: the first lost race ends the open.
TriesLeft_None(v) == FALSE
TriesLeft(v) == attempt[v] + 1 < OPEN_ATTEMPTS

UndoStart(v) ==
  /\ opening[v] = "undo"
  /\ active' = [active EXCEPT ![picked[v]] = None]
  /\ IF TriesLeft(v)
       THEN /\ attempt' = [attempt EXCEPT ![v] = @ + 1]
            /\ opening' = [opening EXCEPT ![v] = "select"]
            /\ picked' = [picked EXCEPT ![v] = None]
            /\ UNCHANGED tuned
       ELSE OpenReturns(v)
  /\ UNCHANGED <<poolVars, selectorVars, muxVars, cooling, holds>>

OpenStep(v) == Select(v) \/ Reselect(v) \/ Dial(v) \/ UndoStart(v)

-----------------------------------------------------------------------------
(* ChannelMux.run: pump, then fail over.                                   *)

Becomes(m, at) == phase' = [phase EXCEPT ![m] = at]

BytesArrive(m) ==
  /\ Settled /\ phase[m] = "silent"
  /\ Becomes(m, "pulling")
  /\ UNCHANGED <<poolVars, selectorVars, stream, subs, started, stopping, failed,
                 reconnects, longRun, graceTimer, openVars, ringVars>>

SourceStalls(m) ==
  /\ Settled /\ phase[m] = "pulling"
  /\ Becomes(m, "silent")
  /\ UNCHANGED <<poolVars, selectorVars, stream, subs, started, stopping, failed,
                 reconnects, longRun, graceTimer, openVars, ringVars>>

\* RECONNECT_HEALTHY_MS pass since pump() began; the nap's 200 ms count too.
TimePasses(m) ==
  /\ Settled /\ phase[m] \in Pumping \cup {"nap"} /\ ~longRun[m]
  /\ longRun' = [longRun EXCEPT ![m] = TRUE]
  /\ UNCHANGED <<poolVars, selectorVars, phase, stream, subs, started, stopping,
                 failed, reconnects, graceTimer, openVars, ringVars>>

\* pump() returned or threw: what run() does before its sleep.
PumpDone(m) ==
  /\ IF ~stopping[m] /\ subs[m] = {}
       THEN Drop({}, {m}) /\ Becomes(m, "ended")
       ELSE /\ Becomes(m, IF stopping[m] THEN "ended" ELSE "nap")
            /\ UNCHANGED <<used, liveStreamIds, subs, started, stopping,
                           graceTimer, active>>
  /\ UNCHANGED <<max, health, verdict, stream, failed, reconnects, longRun,
                 openVars, cooling, holds>>

\* The upstream closes, errors, or could not be opened.
SourceEnds(m) == Settled /\ phase[m] \in Pumping /\ PumpDone(m)

\* Mutant: a reconnect does not get a watchdog.
WatchdogDue_FirstDialOnly(m) == /\ phase[m] = "silent" /\ longRun[m]
                                /\ subs[m] # {} /\ ~stopping[m] /\ reconnects[m] = 0

\* 12 s without a byte while somebody watches; the timer dies with teardown.
WatchdogDue(m) == phase[m] = "silent" /\ longRun[m] /\ subs[m] # {} /\ ~stopping[m]

WatchdogAborts(m) == Settled /\ WatchdogDue(m) /\ PumpDone(m)

\* A torn-down mux's reader closes.
PumpUnwinds(m) ==
  /\ Settled /\ phase[m] = "closing"
  /\ Becomes(m, "ended")
  /\ UNCHANGED <<poolVars, selectorVars, stream, subs, started, stopping, failed,
                 reconnects, longRun, graceTimer, openVars, ringVars>>

\* reconnectPlan: a source that ran long enough starts a fresh incident.
Attempts(m) == IF longRun[m] THEN 0 ELSE reconnects[m]

\* Mutants: one reconnect too many, one too few.
BudgetLeft_OneMore(m) == Attempts(m) <= RECONNECT_MAX
BudgetLeft_OneLess(m) == Attempts(m) + 1 < RECONNECT_MAX
BudgetLeft(m) == Attempts(m) < RECONNECT_MAX

\* Mutant: the old slot is kept while the next source is looked for.
SlotsAfterFailure_Kept(m) == used

\* nextSource's release of the old slot, whoever holds it by now, and its
\* markDead of the old source.
SlotsAfterFailure(m) == Released(used, Provider(m))

\* Mutant: the source stays marked live.
LiveAfterFailure_Kept(m) == liveStreamIds
LiveAfterFailure(m) == liveStreamIds \ {stream[m]}

Alternates(m) == {s \in Sources(ChannelOf[stream[m]]) :
                    /\ s \notin failed[m] \cup {stream[m]}
                    /\ SlotsAfterFailure(m)[ProviderOf[s]] < max[ProviderOf[s]]}

\* The best alternate with a free slot takes over in place.
FailOver(m) == \E s \in FirstRanked(Alternates(m)) :
  /\ used' = Acquired(SlotsAfterFailure(m), ProviderOf[s])
  /\ liveStreamIds' = LiveAfterFailure(m) \cup {s}
  /\ started' = [started EXCEPT ![m] = TRUE]
  /\ failed' = [failed EXCEPT ![m] = @ \cup {stream[m]}]
  /\ stream' = [stream EXCEPT ![m] = s]
  /\ reconnects' = [reconnects EXCEPT ![m] = 0]
  /\ longRun' = [longRun EXCEPT ![m] = FALSE]
  /\ Becomes(m, "silent")
  /\ active' = [active EXCEPT ![stream[m]] = IF @ = m THEN None ELSE @, ![s] = m]
  /\ UNCHANGED <<max, health, verdict, subs, stopping, graceTimer, openVars,
                 cooling, holds>>

\* No alternate: the slot and the live mark are gone, reconnectSame waits.
BackOff(m) ==
  /\ Alternates(m) = {} /\ BudgetLeft(m)
  /\ reconnects' = [reconnects EXCEPT ![m] = Attempts(m) + 1]
  /\ used' = SlotsAfterFailure(m)
  /\ liveStreamIds' = LiveAfterFailure(m)
  /\ started' = [started EXCEPT ![m] = FALSE]
  /\ failed' = [failed EXCEPT ![m] = @ \cup {stream[m]}]
  /\ Becomes(m, "backoff")
  /\ UNCHANGED <<max, health, verdict, stream, subs, stopping, longRun,
                 graceTimer, openVars, ringVars>>

\* run() gives up on a mux that holds no slot: cooldown, EOF to the viewers.
\* u and live are the pool and the live set it leaves.
GiveUp(m, u, live) ==
  /\ cooling' = cooling \cup {ChannelOf[stream[m]]}
  /\ used' = u /\ liveStreamIds' = live
  /\ subs' = [subs EXCEPT ![m] = {}]
  /\ graceTimer' = [graceTimer EXCEPT ![m] = FALSE]
  /\ stopping' = [stopping EXCEPT ![m] = TRUE]
  /\ started' = [started EXCEPT ![m] = FALSE]
  /\ active' = KeysWithout({m})
  /\ Becomes(m, "ended")
  /\ UNCHANGED <<max, health, verdict, stream, reconnects, longRun, openVars, holds>>

BudgetSpent(m) ==
  /\ Alternates(m) = {} /\ ~BudgetLeft(m)
  /\ GiveUp(m, SlotsAfterFailure(m), LiveAfterFailure(m))
  /\ failed' = [failed EXCEPT ![m] = @ \cup {stream[m]}]

NapEnds(m) == /\ Settled /\ phase[m] = "nap"
              /\ FailOver(m) \/ BackOff(m) \/ BudgetSpent(m)

\* Mutants: the reconnect does not look whether it is still wanted; it counts on
\* the slot it had.
CanReconnect_Unwanted(m) == HasFreeSlot(Provider(m))
CanReconnect_SlotKept(m) == ~stopping[m] /\ subs[m] # {}

\* The backoff is over: retry the same source, if anybody still wants it and
\* its provider still has a slot.
CanReconnect(m) == ~stopping[m] /\ subs[m] # {} /\ HasFreeSlot(Provider(m))

Reconnect(m) ==
  /\ CanReconnect(m)
  /\ used' = Acquired(used, Provider(m))
  /\ liveStreamIds' = liveStreamIds \cup {stream[m]}
  /\ started' = [started EXCEPT ![m] = TRUE]
  /\ failed' = [failed EXCEPT ![m] = @ \ {stream[m]}]
  /\ longRun' = [longRun EXCEPT ![m] = FALSE]
  /\ Becomes(m, "silent")
  /\ UNCHANGED <<max, health, verdict, stream, subs, stopping, reconnects,
                 graceTimer, openVars, ringVars>>

BackoffEnds(m) == /\ Settled /\ phase[m] = "backoff"
                  /\ \/ Reconnect(m)
                     \/ /\ ~CanReconnect(m)
                        /\ GiveUp(m, used, liveStreamIds)
                        /\ UNCHANGED failed

\* What a mux does by itself: its timers and the end of an aborted pump.
TimerStep(m) == \/ TimePasses(m) \/ WatchdogAborts(m) \/ PumpUnwinds(m)
                \/ NapEnds(m) \/ BackoffEnds(m) \/ GraceExpires(m)

RunStep(m) == \/ BytesArrive(m) \/ SourceStalls(m) \/ SourceEnds(m)
              \/ TimerStep(m)

-----------------------------------------------------------------------------
(* What the rest of the process does to the shared state.                  *)

CooldownExpires(c) ==
  /\ Settled /\ c \in cooling
  /\ cooling' = cooling \ {c}
  /\ UNCHANGED <<poolVars, selectorVars, muxVars, openVars, active, holds>>

\* A probe records a stream's health, a verdict on a provider changes.
HealthChanges ==
  /\ Settled
  /\ \/ \E s \in FlakyStreams, h \in Healths : health' = [health EXCEPT ![s] = h]
        /\ UNCHANGED verdict
     \/ \E p \in FlakyProviders, d \in Verdicts : verdict' = [verdict EXCEPT ![p] = d]
        /\ UNCHANGED health
  /\ UNCHANGED <<poolVars, liveStreamIds, muxVars, openVars, ringVars>>

\* An admin edits a provider, or a sync reads its budget again.
BudgetChanges ==
  /\ Settled
  /\ \E p \in Providers, n \in Budgets : SetBudget(p, n)
  /\ UNCHANGED <<selectorVars, muxVars, openVars, ringVars>>

Next == \/ \E v \in Viewers, c \in Channels : Tune(v, c)
        \/ \E c \in Channels : Warm(c)
        \/ \E v \in Consumers : OpenStep(v)
        \/ \E v \in Viewers : ViewerLeaves(v)
        \/ \E i \in DOMAIN holds : HoldReleased(i)
        \/ \E m \in Muxes : RunStep(m)
        \/ \E c \in Channels : CooldownExpires(c)
        \/ HealthChanges
        \/ BudgetChanges

Spec == Init /\ [][Next]_vars

\* However busy the process is, a started open goes on and a mux with a step
\* due again and again takes one.  Nothing is assumed of the upstreams, of the
\* viewers or of the ring.
Fairness == /\ WF_vars(\E v \in Consumers : OpenStep(v))
            /\ \A m \in Muxes : SF_vars(TimerStep(m))

FairSpec == Spec /\ Fairness

-----------------------------------------------------------------------------
(* Properties.                                                             *)

\* A mux gives back the slot it believes it holds as long as its run() goes on.
SlotHolders(p) == {m \in Muxes : /\ started[m] /\ Provider(m) = p
                                 /\ phase[m] \notin {"idle", "ended"}}

Upstreams(p) == {m \in Muxes : phase[m] \in Pumping /\ Provider(m) = p}

\* Every slot counted as used is held by a mux whose run() still goes on and will
\* give it back: failing over, reconnecting, evicting and tearing down leak no slot
\* ("all tuners busy" with idle providers).  True where a channel has one source, or
\* nothing tears down a mux that naps.  A warm hold evicted in its nap whose channel
\* has an alternate breaks it: nextSource fails over and takes a slot, run() then
\* finds `stopping` and ends without giving it back (muxer.ts:157, 292).
NoSlotLeak == \A p \in Providers : used[p] <= Cardinality(SlotHolders(p))

\* The pool's count is exact: NoSlotLeak and its converse, so nobody gives back a
\* slot that another mux holds.  True while nothing tears down a mux that naps.
SlotsMatchMuxes == \A p \in Providers : used[p] = Cardinality(SlotHolders(p))

\* "The pool tracks usage in memory and enforces budgets" (pool.ts): the
\* provider never sees more open upstreams than its budget.
ProviderWithinBudget == \A p \in Providers : Cardinality(Upstreams(p)) <= max[p]

\* "One upstream connection per live source": two muxes never pull one stream.
OneUpstreamPerSource ==
  \A m, n \in Muxes : m # n /\ phase[m] \in Pumping /\ phase[n] \in Pumping
                        => stream[m] # stream[n]

\* An attached consumer has a running supervisor behind it: run() is pulling,
\* failing over or about to reconnect for it and has not been told to stop.
\* Nobody is left attached to a dead mux, on a silent socket for ever.
NobodyStranded ==
  \A m \in Muxes : subs[m] # {} => /\ phase[m] \in Pumping \cup {"nap", "backoff"}
                                   /\ ~stopping[m]

\* A stream marked live has a mux under its key in `active`: the selector's
\* multiplex hit always finds an upstream to join, it never dials a second one.
LiveIsJoinable ==
  Settled => \A s \in liveStreamIds :
               active[s] # None /\ stream[active[s]] = s /\ ~stopping[active[s]]

\* Every pulled upstream can be found and joined by the next viewer.
UpstreamIsShared ==
  \A m \in Muxes : phase[m] \in Pumping => stream[m] \in liveStreamIds /\ active[stream[m]] = m

\* The keep-warm timer is armed only while nobody watches: a viewer who comes
\* back during the grace period is never cut off by the timer it outlived.
GraceOnlyWhenEmpty == \A m \in Muxes : graceTimer[m] => subs[m] = {}

\* teardown sets `stopping` for the run() loop to see.  Where a channel has one
\* source, or nothing tears down a mux that naps, a mux that was torn down never
\* dials again: reconnectSame looks at `stopping` after its backoff.  nextSource
\* does not look after the nap (muxer.ts:166-200): with an alternate, a mux evicted
\* in its nap dials it, and is back under a key of `active`.
StoppedNeverDials ==
  [][\A m \in Muxes : stopping[m] /\ stopping'[m] /\ phase[m] \notin Pumping
                         => phase'[m] \notin Pumping]_vars

\* A budget may shrink below the slots in use; from then on connections only
\* drain: no upstream of the provider is opened, not even to fail over or to
\* reconnect, until it is below the new budget.
OverBudgetOnlyDrains ==
  [][\A p \in Providers : Cardinality(Upstreams(p)') > max'[p]
                            => Upstreams(p)' \subseteq Upstreams(p)]_vars

\* The next open of channel c finds the upstreams of its live sources.
Joinable(c) == \A s \in Sources(c) \cap liveStreamIds :
                 active[s] # None /\ phase[active[s]] \in Pumping \cup {"nap"}

\* "Without this, a viewer gets `all tuners busy` while another provider still
\* had capacity" (Muxer.open): with the live sources of its channel in order, an
\* open is refused only when none is live and none has a free slot right then.
RefusedOnlyWhenFull ==
  [][\A v \in Viewers :
       LET c == tuned[v] IN
       /\ opening[v] # "off" /\ opening'[v] = "off"
       /\ \A m \in Muxes : v \notin subs'[m]
       /\ Joinable(c)
       => \A s \in Sources(c) : s \notin liveStreamIds /\ ~HasFreeSlot(ProviderOf[s])]_vars

\* Viewers that run() drops although they did not leave.
CutOff(m) == phase[m] \in {"nap", "backoff"} /\ phase'[m] = "ended" /\ subs[m] # {}

\* A warm hold never costs a real viewer (prewarm.ts): run() does not drop a
\* viewer while a hold nobody watches occupies a slot of a provider that
\* carries the viewer's channel.  It fails: a backoff leaves its slot to the ring.
HoldCostsNoViewer ==
  [][\A m \in Muxes, i \in DOMAIN holds :
       CutOff(m) /\ subs[m] \cap Viewers # {} =>
         ~ \E n \in Muxes \ {m} :
             /\ started[n] /\ subs[n] = {holds[i]}
             /\ \E s \in Sources(ChannelOf[stream[m]]) : ProviderOf[s] = Provider(n)]_vars

\* run() drops its viewers only with the reconnect budget spent or with the
\* provider's slots taken by others.
DropsOnlyWhenSpent ==
  [][\A m \in Muxes : CutOff(m) =>
       \/ Attempts(m) >= RECONNECT_MAX
       \/ phase[m] = "backoff" /\ ~HasFreeSlot(Provider(m))]_vars

\* An upstream nobody watches gives its slot back: the keep-warm timer, the end
\* of the source or the failover loop see to it, whatever races with them.  With an
\* alternate, the slot that a mux evicted in its nap takes is never given back.
IdleIsReleased ==
  \A m \in Muxes : started[m] /\ subs[m] = {} ~> ~started[m] \/ subs[m] # {}

\* A watched source that stays silent is given up: its viewers get another
\* source, a fresh connection or an end of file.
SilenceEnds ==
  \A m \in Muxes : subs[m] # {} /\ phase[m] = "silent"
                     ~> subs[m] = {} \/ phase[m] # "silent"

\* "One upstream connection per live source, fanned out to N local viewers" (muxer.ts):
\* two muxes never pull one source, and whoever tunes next finds every live upstream
\* and joins it, whatever failovers re-keyed meanwhile.
UpstreamsAreShared == OneUpstreamPerSource /\ UpstreamIsShared /\ LiveIsJoinable

\* An attached viewer has a running mux behind it, and no timer armed to end it.  Like
\* StoppedNeverDials, true where a channel has one source or nothing ends a nap.
ViewersKeepTheirMux == NobodyStranded /\ GraceOnlyWhenEmpty

\* Who keeps an upstream and who loses one is decided by slots and the retry budget
\* alone: over budget, connections only drain; viewers are dropped only when their
\* reconnects are spent or their slot went to others.
SlotsDecideWhoStays == OverBudgetOnlyDrains /\ DropsOnlyWhenSpent

\* What nobody watches gives its slot back, what is watched and silent is given up.
UpstreamsEnd == IdleIsReleased /\ SilenceEnds

\* The pool keeps the ledger's promise: a connection is a mux.
Ledger == INSTANCE SlotLedger WITH
            Connections <- Muxes,
            held <- [m \in Muxes |-> IF started[m] THEN Provider(m) ELSE None],
            budget <- max
KeepsLedger == Ledger!LedgerSpec
=============================================================================
