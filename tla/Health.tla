------------------------------- MODULE Health --------------------------------
(***************************************************************************)
(* The health probe (src/health/probe.ts) as a tenant of the slot pool,    *)
(* with the per-provider circuit breaker (breaker.ts) and the watchdog     *)
(* that restarts a wedged loop (watchdog.ts).                              *)
(*                                                                         *)
(* A loop iteration picks the stalest streams and probes them at the same  *)
(* time; it goes on when all are done.  A sample is cut off after seconds, *)
(* but nothing bounds the ffprobe that classifies it: a probe may hang,    *)
(* keep its slot and answer much later, when the watchdog has long put     *)
(* another loop in place.  Everything before a probe's first await and     *)
(* everything after its last one runs without interruption.                *)
(***************************************************************************)
EXTENDS SlotPool, SequencesExt

CONSTANTS Streams, ProviderOf,
          Loops,               \* probe loops; one that ended is used again
          Budget,              \* maxConnections of each provider
          HEADROOM_SLOTS,      \* slots a probe leaves free for viewers
          CONCURRENCY,         \* streams of one iteration
          BREAKER_TRIP_STREAK, \* dead probes in a row that trip the breaker
          MAX_STRIKES,         \* restarts of a loop before the process exits
          MAX_WINDOWS          \* bound: windows after which the history starts again

ASSUME HealthAssumption ==
  /\ IsFiniteSet(Streams) /\ ProviderOf \in [Streams -> Providers]
  /\ IsFiniteSet(Loops) /\ Loops # {}
  /\ Budget \in [Providers -> Nat]
  /\ HEADROOM_SLOTS \in Nat /\ CONCURRENCY \in Nat
  /\ BREAKER_TRIP_STREAK \in Nat \ {0} /\ MAX_STRIKES \in Nat /\ MAX_WINDOWS \in Nat

VARIABLES
  viewing,    \* slots of a provider that viewers hold
  blocked,    \* providers whose VPN is down
  order,      \* the streams, the longest unprobed first
  due,        \* how many of them are due
  streak,     \* dead probes in a row, up to the trip
  breaker,    \* closed, open, or open with its cooldown elapsed
  current,    \* the loop of this generation
  at,         \* where a loop is
  probes,     \* streams a loop is probing
  hung,       \* those whose ffprobe does not come to an end
  strikes,    \* the watchdog's, for this loop
  \* history
  condemned,  \* streams written dead since the breaker last took a sign of life
  windows,    \* cooldowns that ended, and restarts, since then
  wedges      \* restarts since a loop last completed an iteration

breakerVars == <<streak, breaker, condemned, windows>>
loopVars    == <<current, at, probes, hung, strikes, wedges>>
dueVars     == <<order, due>>
vars        == <<poolVars, viewing, blocked, dueVars, breakerVars, loopVars>>

Places == {"none", "boot", "awake", "probing"}

\* Slots of p that probes may ever hold together.
Capacity(p) == LessSlots(Budget[p], HEADROOM_SLOTS)

TypeOK == /\ PoolTypeOK
          /\ viewing \in [Providers -> Nat]
          /\ blocked \subseteq Providers
          /\ order \in Seq(Streams) /\ due \in 0 .. Len(order)
          /\ streak \in [Providers -> 0 .. BREAKER_TRIP_STREAK]
          /\ breaker \in [Providers -> {"closed", "open", "elapsed"}]
          /\ current \in Loops
          /\ at \in [Loops -> Places]
          /\ probes \in [Loops -> SUBSET Streams]
          /\ hung \in [Loops -> SUBSET Streams]
          /\ strikes \in 0 .. MAX_STRIKES
          /\ condemned \in [Providers -> Nat]
          /\ windows \in [Providers -> 0 .. MAX_WINDOWS]
          /\ wedges \in 0 .. MAX_STRIKES + 1

\* What a process starts with.
Booted(u, v, s, b, l, a, pr, hu, st, w) ==
  /\ u = [p \in Providers |-> 0] /\ v = [p \in Providers |-> 0]
  /\ s = [p \in Providers |-> 0] /\ b = [p \in Providers |-> "closed"]
  /\ l \in Loops /\ a = [m \in Loops |-> IF m = l THEN "boot" ELSE "none"]
  /\ pr = [m \in Loops |-> {}] /\ hu = [m \in Loops |-> {}]
  /\ st = 0 /\ w = 0

Init == /\ Booted(used, viewing, streak, breaker, current, at, probes, hung, strikes, wedges)
        /\ condemned = [p \in Providers |-> 0] /\ windows = [p \in Providers |-> 0]
        /\ max = Budget
        /\ blocked = {}
        /\ order \in SetToSeqs(Streams) /\ due = Len(order)

\* The breaker of these providers believes verdicts again without a sign of life: another
\* window of the outage begins.
WindowEnds(ps) ==
  LET full(p) == p \in ps /\ windows[p] = MAX_WINDOWS
  IN  /\ condemned' = [p \in Providers |-> IF full(p) THEN 0 ELSE condemned[p]]
      /\ windows' = [p \in Providers |-> IF full(p) THEN 0
                                         ELSE windows[p] + (IF p \in ps THEN 1 ELSE 0)]

-----------------------------------------------------------------------------
(* One iteration of the loop.                                              *)

\* dueStreams: the stalest first.
Batch == 1 .. (IF due < CONCURRENCY THEN due ELSE CONCURRENCY)
ProviderAt(i) == ProviderOf[order[i]]

\* Mutant: the breaker is asked only when a probe has ended.
Gagged_Never(p) == FALSE

\* breakerOpen; an elapsed one closes on being asked.
Gagged(p) == breaker[p] = "open"

\* Mutant: two probes of one batch look at the pool before either takes its slot.
Ahead_None(i) == 0

\* Probes of the same provider that this batch has started before.
Ahead(i) == Cardinality({j \in 1 .. i - 1 : ProviderAt(j) = ProviderAt(i)})

\* probeOne as far as its slot.
Admitted(i) == LET p == ProviderAt(i) IN
  /\ p \notin blocked /\ ~Gagged(p)
  /\ used[p] + Ahead(i) + HEADROOM_SLOTS < max[p]

\* Mutant: a loop does not notice that it was superseded.
Stale_Never(l) == FALSE
Stale(l) == l # current

\* The iteration is over; a loop that was superseded meanwhile ends.
Continues(l) == /\ at' = [at EXCEPT ![l] = IF Stale(l) THEN "none" ELSE "awake"]
                /\ wedges' = IF Stale(l) THEN wedges ELSE 0

Boots(l) == /\ at[l] = "boot"
            /\ at' = [at EXCEPT ![l] = IF Stale(l) THEN "none" ELSE "awake"]
            /\ UNCHANGED <<poolVars, viewing, blocked, dueVars, breakerVars, current,
                           probes, hung, strikes, wedges>>

\* The heartbeat of an iteration clears the strikes before its work is done.
Iterate(l) ==
  LET batch   == {i \in Batch : Admitted(i)}
      asked   == {ProviderAt(i) : i \in Batch} \ blocked
      closing == {p \in asked : breaker[p] = "elapsed"}
  IN  /\ at[l] = "awake" /\ ~Stale(l)
      /\ strikes' = 0
      /\ used' = [p \in Providers |->
                    used[p] + Cardinality({i \in batch : ProviderAt(i) = p})]
      /\ breaker' = [p \in Providers |-> IF p \in closing THEN "closed" ELSE breaker[p]]
      /\ streak' = [p \in Providers |-> IF p \in closing THEN 0 ELSE streak[p]]
      /\ WindowEnds(closing)
      /\ probes' = [probes EXCEPT ![l] = {order[i] : i \in batch}]
      /\ IF batch = {} THEN Continues(l)
                       ELSE at' = [at EXCEPT ![l] = "probing"] /\ UNCHANGED wedges
      /\ UNCHANGED <<max, viewing, blocked, dueVars, current, hung>>

\* features.healthProbe is off, or the iteration threw: the loop sleeps.
Idles(l) == /\ at[l] = "awake" /\ ~Stale(l)
            /\ strikes' = 0
            /\ Continues(l)
            /\ UNCHANGED <<poolVars, viewing, blocked, dueVars, breakerVars, current,
                           probes, hung>>

-----------------------------------------------------------------------------
(* The end of a probe.                                                     *)

\* Mutant: a probe that threw keeps its slot.
AfterProbe_Leak(p, threw) == IF threw THEN used ELSE Released(used, p)
AfterProbe(p, threw) == Released(used, p)

\* The slot is given back and, when it was the last, the iteration goes on.
ProbeDone(l, s, threw) ==
  /\ used' = AfterProbe(ProviderOf[s], threw)
  /\ probes' = [probes EXCEPT ![l] = @ \ {s}]
  /\ hung' = [hung EXCEPT ![l] = @ \ {s}]
  /\ IF probes[l] = {s} THEN Continues(l) ELSE UNCHANGED <<at, wedges>>
  /\ UNCHANGED <<max, viewing, blocked, current, strikes>>

\* lastProbedAt is now.
Probed(s) == LET i == CHOOSE j \in DOMAIN order : order[j] = s IN
  /\ order' = Append(RemoveAt(order, i), s)
  /\ due' = IF i <= due THEN due - 1 ELSE due

\* recordProbe: bytes flowed.  While the breaker is open nothing is counted.
FoundAlive(l, s) == LET p == ProviderOf[s] IN
  /\ Probed(s)
  /\ streak' = IF Gagged(p) THEN streak ELSE [streak EXCEPT ![p] = 0]
  /\ condemned' = IF Gagged(p) THEN condemned ELSE [condemned EXCEPT ![p] = 0]
  /\ windows' = IF Gagged(p) THEN windows ELSE [windows EXCEPT ![p] = 0]
  /\ UNCHANGED breaker
  /\ ProbeDone(l, s, FALSE)

\* Mutant: the breaker trips one failure late.
Trips_Late(p) == streak[p] + 1 > BREAKER_TRIP_STREAK
Trips(p) == streak[p] + 1 >= BREAKER_TRIP_STREAK

\* recordProbe, and the breakerOpen that follows a dead verdict.  Too small a
\* sample is dead without an ffprobe, so a probe that hangs never ends this way.
FoundDead(l, s) == LET p == ProviderOf[s] IN
  /\ s \notin hung[l]
  /\ Probed(s)
  /\ condemned' = [condemned EXCEPT ![p] = @ + 1] /\ UNCHANGED windows
  /\ IF Gagged(p) THEN UNCHANGED <<streak, breaker>>
     ELSE /\ streak' = [streak EXCEPT ![p] = @ + 1]
          /\ breaker' = IF Trips(p) THEN [breaker EXCEPT ![p] = "open"] ELSE breaker
  /\ ProbeDone(l, s, FALSE)

\* The write failed; an error carries no verdict.
ProbeThrows(l, s) == ProbeDone(l, s, TRUE) /\ UNCHANGED <<dueVars, breakerVars>>

ProbeEnds(l, s) == /\ s \in probes[l]
                   /\ FoundAlive(l, s) \/ FoundDead(l, s) \/ ProbeThrows(l, s)

\* ffprobe does not come to an end, for now or for ever.
ProbeHangs(l, s) ==
  /\ s \in probes[l] \ hung[l]
  /\ hung' = [hung EXCEPT ![l] = @ \cup {s}]
  /\ UNCHANGED <<poolVars, viewing, blocked, dueVars, breakerVars, current, at, probes,
                 strikes, wedges>>

-----------------------------------------------------------------------------
(* The watchdog.                                                           *)

\* Three intervals without a heartbeat: only a hung probe takes that long.
Wedged == at[current] = "probing" /\ probes[current] = hung[current]

\* Mutant: the restart finds the loop marked as started and leaves it.
Replaced_Never(l) == current' = current /\ at' = at

\* A new loop of a new generation; the old one is left where it is.
Replaced(l) == /\ current' = l
               /\ at' = [at EXCEPT ![l] = "boot"]

\* With MAX_STRIKES strikes the process exits instead (Reboot).
Restart(l) ==
  /\ Wedged /\ strikes < MAX_STRIKES
  /\ at[l] = "none"
  /\ strikes' = strikes + 1
  /\ wedges' = IF wedges > MAX_STRIKES THEN wedges ELSE wedges + 1
  /\ Replaced(l)
  /\ UNCHANGED <<poolVars, viewing, blocked, dueVars, breakerVars, probes, hung>>

Watchdog == \E l \in Loops : Restart(l)

-----------------------------------------------------------------------------
(* What goes on around the probe.                                          *)

\* The process ends, by the watchdog or otherwise, and the container starts it
\* again: sqlite is what is left.
Reboot == /\ Booted(used', viewing', streak', breaker', current', at', probes', hung',
                    strikes', wedges')
          /\ WindowEnds(Providers)
          /\ UNCHANGED <<max, blocked, dueVars>>

ViewerTunes(p) == /\ HasFreeSlot(p)
                  /\ used' = Acquired(used, p)
                  /\ viewing' = [viewing EXCEPT ![p] = @ + 1]
                  /\ UNCHANGED <<max, blocked, dueVars, breakerVars, loopVars>>

ViewerGoes(p) == /\ viewing[p] > 0
                 /\ used' = Released(used, p)
                 /\ viewing' = [viewing EXCEPT ![p] = @ - 1]
                 /\ UNCHANGED <<max, blocked, dueVars, breakerVars, loopVars>>

VpnChanges(p) == /\ blocked' = IF p \in blocked THEN blocked \ {p} ELSE blocked \cup {p}
                 /\ UNCHANGED <<poolVars, viewing, dueVars, breakerVars, loopVars>>

\* The cooldown is far longer than a sample takes: what is still under way hangs.
CooldownElapses(p) == /\ breaker[p] = "open"
                      /\ \A l \in Loops : \A s \in probes[l] \ hung[l] : ProviderOf[s] # p
                      /\ breaker' = [breaker EXCEPT ![p] = "elapsed"]
                      /\ UNCHANGED <<poolVars, viewing, blocked, dueVars, streak, condemned,
                                     windows, loopVars>>

\* REPROBE_MS have passed for one stream more.
BecomesDue == /\ due < Len(order) /\ due' = due + 1
              /\ UNCHANGED <<poolVars, viewing, blocked, order, breakerVars, loopVars>>

LoopStep(l) == Boots(l) \/ Iterate(l) \/ Idles(l)

Next == \/ \E l \in Loops : LoopStep(l)
        \/ \E l \in Loops, s \in Streams : ProbeEnds(l, s) \/ ProbeHangs(l, s)
        \/ Watchdog
        \/ Reboot
        \/ \E p \in Providers : ViewerTunes(p) \/ ViewerGoes(p)
        \/ \E p \in Providers : VpnChanges(p) \/ CooldownElapses(p)
        \/ BecomesDue

Spec == Init /\ [][Next]_vars

\* Timers fire and a probe that does not hang ends: nothing is assumed of a hung one.
FairSpec ==
  /\ Spec
  /\ WF_vars(Watchdog)
  /\ \A l \in Loops : WF_vars(LoopStep(l))
  /\ \A l \in Loops, s \in Streams : WF_vars(s \notin hung[l] /\ ProbeEnds(l, s))

-----------------------------------------------------------------------------
(* Properties.                                                             *)

Probing(p) == UNION {{<<l, s>> : s \in {t \in probes[l] : ProviderOf[t] = p}} : l \in Loops}

\* A probe gives its slot back however it ends, hangs and restarts included, and
\* never one of a viewer's: the pool counts exactly the viewers and the probes.
SlotsAreAccounted == \A p \in Providers : used[p] = viewing[p] + Cardinality(Probing(p))

\* "A POLITE background tenant": the probes of all loops together, the hung ones
\* of loops the watchdog gave up included, never hold a provider's last
\* HEADROOM_SLOTS slots.
ProbesLeaveHeadroom == \A p \in Providers : Cardinality(Probing(p)) <= Capacity(p)

\* Probes are tenants of the pool: however they end, hang or are superseded, their slots
\* are counted once and the headroom is left to viewers.
ProbesArePolite == SlotsAreAccounted /\ ProbesLeaveHeadroom

\* What a provider may lose until its breaker closes the next time: the dead verdicts
\* that trip it and those of the other probes that were under way when it tripped.
Window(p) == BREAKER_TRIP_STREAK + LessSlots(Capacity(p), 1)

\* "A provider outage cannot condemn the whole catalogue": from one sign of life that the
\* breaker takes to the next, no more of a provider's streams are written dead than one
\* window's worth, and as many again for every cooldown that ended and every restart of the
\* process in between.  So it is the rate that is contained: nothing adds up over windows.
OutageIsContained == \A p \in Providers : condemned[p] <= (windows[p] + 1) * Window(p)

\* It fails without the windows: a provider that stays down loses a window's worth again
\* each time its breaker closes.
OutageIsContainedOnce == \A p \in Providers : condemned[p] <= Window(p)

\* The epoch guard: a loop that was superseded starts no probe when it comes back.
OnlyCurrentProbes ==
  [][\A l \in Loops : ~(probes'[l] \subseteq probes[l]) => l = current]_vars

\* The watchdog "escalates to process exit after 2 failed restarts of the same
\* loop": no third restart of a loop that never completes an iteration.  It fails:
\* the first heartbeat of the new loop clears the strikes.
WedgeEscalates == wedges <= MAX_STRIKES

\* Whatever hangs, there is always a loop that gets to its next iteration, unless
\* the process itself keeps dying.
ProbingGoesOn == <>[][~Reboot]_vars => []<>(at[current] = "awake")

\* One loop probes: a superseded one starts nothing more, and there is always one that
\* gets on.
OneLoopGoesOn == OnlyCurrentProbes /\ ProbingGoesOn

-----------------------------------------------------------------------------
(* An instance for TLC: one provider with room for two probes at a time.   *)

OneProviderOf == [s \in Streams |-> CHOOSE p \in Providers : TRUE]
OneBudget     == [p \in Providers |-> 3]
=============================================================================
