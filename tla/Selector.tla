------------------------------ MODULE Selector ------------------------------
(***************************************************************************)
(* Source selection (src/scheduler/selector.ts): which upstream stream     *)
(* serves a channel, from the probed health of the streams, the verdicts   *)
(* on the providers, the streams already being pulled and the free slots.  *)
(***************************************************************************)
EXTENDS SlotPool

CONSTANTS Channels, Streams,
          ChannelOf,        \* stream -> the channel it is a source of
          ProviderOf,       \* stream -> the provider that carries it
          Quality           \* stream -> qualityScore

CONSTANT DEGRADED_PENALTY   \* score a degraded provider costs its streams

ASSUME StreamsAssumption == /\ ChannelOf \in [Streams -> Channels]
                            /\ ProviderOf \in [Streams -> Providers]
                            /\ Quality \in [Streams -> Nat]
                            /\ DEGRADED_PENALTY \in Nat

VARIABLES liveStreamIds,    \* streams marked live: an upstream pulls them
          health,           \* streams.health, as far as ranking reads it
          verdict           \* providerVerdict

selectorVars == <<liveStreamIds, health, verdict>>

Healths  == {"alive", "dead"}
Verdicts == {"healthy", "degraded", "down"}

SelectorTypeOK == /\ PoolTypeOK
                  /\ liveStreamIds \subseteq Streams
                  /\ health \in [Streams -> Healths]
                  /\ verdict \in [Providers -> Verdicts]

Sources(c) == {s \in Streams : ChannelOf[s] = c}

LastResort(s) == health[s] = "dead" \/ verdict[ProviderOf[s]] = "down"

\* Both scores are raised by the penalty, which keeps them natural numbers.
EffectiveScore(s) == IF verdict[ProviderOf[s]] = "degraded"
                       THEN Quality[s]
                       ELSE Quality[s] + DEGRADED_PENALTY

\* s sorts before t; the sort is stable on rows already ordered by quality.
RankedBefore(s, t) ==
  IF LastResort(s) # LastResort(t)
    THEN LastResort(t)
    ELSE \/ EffectiveScore(s) > EffectiveScore(t)
         \/ EffectiveScore(s) = EffectiveScore(t) /\ Quality[s] > Quality[t]

\* The first of S in ranking order (rows of equal rank come in any order).
FirstRanked(S) == {s \in S : \A t \in S : ~RankedBefore(t, s)}

\* What selectStream may answer: a live source to multiplex onto, else the
\* best source with a free slot, last-resort ones only when no other has one.
\* The empty set is the code's null.
Selections(c) ==
  LET live == Sources(c) \cap liveStreamIds
      free == {s \in Sources(c) : HasFreeSlot(ProviderOf[s])}
      good == {s \in free : ~LastResort(s)}
  IN  CASE live # {}               -> FirstRanked(live)
        [] live = {} /\ good # {}  -> FirstRanked(good)
        [] OTHER                   -> FirstRanked(free)
=============================================================================
