----------------------------- MODULE Reconciler -----------------------------
(***************************************************************************)
(* The five-minute loop that looks after the Emby links                    *)
(* (sync/reconciler.ts): per server three checks, a nudge of the           *)
(* convergence ladder (which Converge models; here only what a nudge can   *)
(* change) and an alert.  One await that never returns wedges the pass,    *)
(* which the watchdog must notice although ticks go on.                    *)
(***************************************************************************)
EXTENDS Naturals, Sequences

CONSTANTS Servers,    \* sequence of the enabled servers, in the order of the setting
          Troubled,   \* bound: servers anything happens to
          STALE       \* passes after which a server that never converges is stuck

States == {"converged", "converging", "benign", "drifted"}  \* benign: a routine skip
Ids    == {Servers[i] : i \in DOMAIN Servers}

VARIABLES
  up,         \* up[s]: the server answers
  tuner,      \* tuner[s]: it has our tuner host
  state,      \* state[s]: what the ladder recorded last
  attention,  \* attention[s]: its breaker has tripped
  owed,       \* owed[s]: a host was deleted and has to be added again (pendingReadd)
  at,         \* place of the server the pass is at, 0: no pass (`running` is false)
  step,       \* the await it is in
  alert,      \* the check found something to alert about
  stuck,      \* stuck[s]: passes since it was first seen not converged
  told,       \* history: the last check of the server ended in an alert
  wedged,     \* an await of this pass never returns
  stale,      \* no beat for three intervals
  strikes     \* restarts by the watchdog since the last beat

ladder == <<tuner, state, attention, owed>>
pass   == <<at, step, alert, stuck, told>>
dog    == <<wedged, stale, strikes>>
vars   == <<up, ladder, pass, dog>>

TypeOK ==
  /\ up \in [Ids -> BOOLEAN] /\ tuner \in [Ids -> BOOLEAN] /\ state \in [Ids -> States]
  /\ attention \in [Ids -> BOOLEAN] /\ owed \in [Ids -> BOOLEAN]
  /\ at \in 0..Len(Servers) /\ step \in {"users", "hosts", "converge", "alert"}
  /\ alert \in BOOLEAN /\ stuck \in [Ids -> 0..STALE + 1] /\ told \in [Ids -> BOOLEAN]
  /\ wedged \in BOOLEAN /\ stale \in BOOLEAN /\ strikes \in 0..2

Init ==
  /\ up = [s \in Ids |-> TRUE] /\ tuner = [s \in Ids |-> TRUE]
  /\ state = [s \in Ids |-> "converged"] /\ attention = [s \in Ids |-> FALSE]
  /\ owed = [s \in Ids |-> FALSE] /\ at = 0 /\ step = "users" /\ alert = FALSE
  /\ stuck = [s \in Ids |-> 0] /\ told = [s \in Ids |-> FALSE]
  /\ wedged = FALSE /\ stale = FALSE /\ strikes = 0

-----------------------------------------------------------------------------
\* A tick starts a pass; one that finds a pass running returns, and does not beat.
Tick == /\ at = 0 /\ Servers # <<>>
        /\ at' = 1 /\ step' = "users" /\ alert' = FALSE
        /\ UNCHANGED <<up, ladder, stuck, told, dog>>

\* Mutant: a tick that finds a run under way beats for it.
Skipped_Beats == stale' = FALSE /\ strikes' = 0

Skipped == UNCHANGED <<stale, strikes>>
TickAgain == at # 0 /\ Skipped /\ UNCHANGED <<up, ladder, pass, wedged>>

\* The pass goes on with the next server, unless its two minutes are over (late); a
\* pass that ends beats.
Onward(late) ==
  /\ step' = "users" /\ alert' = FALSE
  /\ IF at = Len(Servers) \/ late
       THEN at' = 0 /\ stale' = FALSE /\ strikes' = 0 /\ UNCHANGED wedged
       ELSE at' = at + 1 /\ UNCHANGED dog

\* listUsers: a server that does not answer is alerted about and left alone; the time
\* it is away is not time without convergence.
Unreachable(s, late) ==
  /\ at # 0 /\ Servers[at] = s /\ step = "users" /\ ~wedged /\ ~up[s]
  /\ stuck' = [stuck EXCEPT ![s] = 0]
  /\ told' = [told EXCEPT ![s] = TRUE]
  /\ Onward(late)
  /\ UNCHANGED <<up, ladder>>

Reachable(s) ==
  /\ at # 0 /\ Servers[at] = s /\ step = "users" /\ ~wedged /\ up[s]
  /\ step' = "hosts"
  /\ UNCHANGED <<up, ladder, at, alert, stuck, told, dog>>

\* Mutant: a tripped breaker blocks every nudge.
Nudges_NeverTripped(s, tunerOk) ==
  (~tunerOk \/ state[s] # "converged" \/ attention[s]) /\ ~attention[s]

\* The breaker keeps the ladder from being nudged, except for a re-add it owes.
Nudges(s, tunerOk) ==
  /\ ~tunerOk \/ state[s] # "converged" \/ attention[s]
  /\ attention[s] => owed[s]

\* Mutant: time without convergence starts anew with a repair.
Tracked_Restarted(s) == IF state[s] = "converged" /\ ~attention[s] THEN 0
                        ELSE IF state[s] = "converging" THEN 1
                        ELSE IF stuck[s] > STALE THEN stuck[s] ELSE stuck[s] + 1

\* Time without convergence is counted from pass to pass.
Tracked(s) == IF state[s] = "converged" /\ ~attention[s] THEN 0
              ELSE IF stuck[s] > STALE THEN stuck[s] ELSE stuck[s] + 1

\* listTunerHosts has answered (or failed); what the ladder recorded is read at once.
Checks(s) ==
  /\ at # 0 /\ Servers[at] = s /\ step = "hosts" /\ ~wedged
  /\ LET tunerOk == up[s] /\ tuner[s]
     IN /\ stuck' = [stuck EXCEPT ![s] = Tracked(s)]
        /\ alert' = (~tunerOk \/ attention[s] \/ state[s] = "drifted" \/ Tracked(s) > STALE)
        /\ step' = IF Nudges(s, tunerOk) THEN "converge" ELSE "alert"
  /\ UNCHANGED <<up, ladder, at, told, dog>>

\* convergeServer with noEscalate returns: an owed re-add is done, or failed once more;
\* else the ladder has refreshed, verified and recorded what it found.  It deletes nothing.
Nudged(s, ok) ==
  /\ at # 0 /\ Servers[at] = s /\ step = "converge" /\ ~wedged
  /\ \/ /\ owed[s] /\ ok /\ up[s]
        /\ owed' = [owed EXCEPT ![s] = FALSE] /\ tuner' = [tuner EXCEPT ![s] = TRUE]
        /\ state' = [state EXCEPT ![s] = "converging"] /\ UNCHANGED attention
     \/ /\ owed[s] /\ ~ok
        /\ attention' = [attention EXCEPT ![s] = TRUE] /\ UNCHANGED <<owed, tuner, state>>
     \/ /\ ~owed[s] /\ ok
        /\ \E st \in States : state' = [state EXCEPT ![s] = st]
        /\ UNCHANGED <<owed, tuner, attention>>
     \/ ~up[s] /\ ok /\ UNCHANGED ladder
  /\ step' = "alert"
  /\ UNCHANGED <<up, at, alert, stuck, told, dog>>

\* The alert, if any, is sent.
Alerted(s, late) ==
  /\ at # 0 /\ Servers[at] = s /\ step = "alert" /\ ~wedged
  /\ told' = [told EXCEPT ![s] = alert]
  /\ Onward(late)
  /\ UNCHANGED <<up, ladder, stuck>>

\* An await never returns.  The watchdog restarts the loop, whose tick finds the pass
\* still running; at the third time the process exits and starts anew.
Wedge == /\ at # 0 /\ Servers[at] \in Troubled /\ ~wedged /\ wedged' = TRUE
         /\ UNCHANGED <<up, ladder, pass, stale, strikes>>
Stale == /\ wedged /\ ~stale /\ stale' = TRUE
         /\ UNCHANGED <<up, ladder, pass, wedged, strikes>>
Strike ==
  /\ stale
  /\ IF strikes < 2
       THEN strikes' = strikes + 1 /\ stale' = FALSE /\ UNCHANGED <<pass, wedged>>
       ELSE /\ strikes' = 0 /\ stale' = FALSE /\ wedged' = FALSE
            /\ at' = 0 /\ step' = "users" /\ alert' = FALSE
            /\ stuck' = [s \in Ids |-> 0] /\ UNCHANGED told
  /\ UNCHANGED <<up, ladder>>

-----------------------------------------------------------------------------
\* What happens to a server meanwhile: it goes and comes; someone deletes our host; the
\* scheduled pass of the ladder rebuilds, and may fail to add the host again; it records
\* another state; the operator resets the breaker.
Outage(s)  == up' = [up EXCEPT ![s] = ~@] /\ UNCHANGED <<ladder, pass, dog>>
Rebuild(s) == /\ ~owed[s] /\ ~attention[s]
              /\ owed' = [owed EXCEPT ![s] = TRUE] /\ tuner' = [tuner EXCEPT ![s] = FALSE]
              /\ \E b \in BOOLEAN : attention' = [attention EXCEPT ![s] = b]
              /\ state' = [state EXCEPT ![s] = "drifted"]
              /\ UNCHANGED <<up, pass, dog>>
Drift(s)   == /\ \E st \in States \ {state[s]} : state' = [state EXCEPT ![s] = st]
              /\ UNCHANGED <<up, tuner, attention, owed, pass, dog>>
Operator(s) == /\ attention[s] /\ attention' = [attention EXCEPT ![s] = FALSE]
               /\ UNCHANGED <<up, tuner, state, owed, pass, dog>>

Next == \/ Tick \/ TickAgain \/ Wedge \/ Stale \/ Strike
        \/ \E s \in Ids : \/ Reachable(s) \/ Checks(s)
                          \/ \E b \in BOOLEAN : Unreachable(s, b) \/ Nudged(s, b) \/ Alerted(s, b)
        \/ \E s \in Troubled : Outage(s) \/ Rebuild(s) \/ Drift(s) \/ Operator(s)

\* The interval and the watchdog fire; requests end, by their time limits, unless the
\* pass is wedged; a re-add that is tried again and again succeeds in the end.
Steps(s) == Reachable(s) \/ Checks(s)
            \/ \E b \in BOOLEAN : Unreachable(s, b) \/ Nudged(s, b) \/ Alerted(s, b)
Fairness ==
  /\ WF_vars(Tick) /\ WF_vars(Stale) /\ WF_vars(Strike)
  /\ \A s \in Ids : WF_vars(Steps(s)) /\ SF_vars(owed[s] /\ Nudged(s, TRUE))
Spec == Init /\ [][Next]_vars /\ Fairness

-----------------------------------------------------------------------------
\* A host that was deleted and not added again is added again as soon as the server
\* answers for good, most of all when the breaker has tripped (reconciler.ts:330-338),
\* unless passes wedge again and again.
OwedIsAdded == \A s \in {Servers[1]} :
  <>[]up[s] /\ <>[]~wedged => []<>~owed[s]

\* Trouble that stays is told: a server that is away, has lost the host, has its breaker
\* tripped, or never gets to converge (reconciler.ts:73-83).
Away(s)  == ~up[s]
Broken(s) == up[s] /\ ~tuner[s]
Tripped(s) == up[s] /\ attention[s]
Astray(s) == up[s] /\ state[s] # "converged"
TroubleIsTold == \A s \in {Servers[1]} :
  /\ <>[]~wedged
  /\ <>[]Away(s) \/ <>[]Broken(s) \/ <>[]Tripped(s) \/ <>[]Astray(s)
  => <>[]told[s]

\* A wedged pass ends with the process, although ticks go on and find it running
\* (reconciler.ts:172-181).
WedgeIsEnded == []<>~wedged

\* "deferring the remaining server(s) to the next run" (reconciler.ts:399): every server
\* is looked at again and again.  It fails: the next run starts with the first server again,
\* and one that is always rebuilt keeps the others from being looked at.
EveryServerIsChecked == \A i \in DOMAIN Servers : <>[]~wedged => []<>(at = i)
=============================================================================
