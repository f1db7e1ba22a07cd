------------------------------ MODULE Converge ------------------------------
(***************************************************************************)
(* The convergence ladder (src/sync/converge.ts) for one Emby server: it   *)
(* keeps the server's copy of our lineup in step with ours and, as a last  *)
(* resort, deletes our tuner hosts and adds them again.                    *)
(*                                                                         *)
(* Two callers climb it, the scheduled pass and the five-minute reconciler.*)
(* Each await is a point where the operator, the clock, the other caller   *)
(* or a crash may come in between; what a pass read before it is `row`.    *)
(***************************************************************************)
EXTENDS Naturals, FiniteSets

CONSTANTS Hosts,              \* our playlists, a tuner host in Emby for each
          Groups,             \* those that serve a tuner group
          Callers, Reconciler,\* who climbs the ladder; the one that may not escalate
          MAX_READD_FAILURES, MIN_SCOPE_FAILURES,
          MaxLineup,          \* bound: editions our lineup goes through
          Hash               \* fingerprint of each edition, a hash of what it holds

ASSUME ConvergeAssumption ==
  /\ Groups \subseteq Hosts /\ Reconciler \in Callers
  /\ MAX_READD_FAILURES \in Nat \ {0} /\ MIN_SCOPE_FAILURES \in Nat \ {0}
  /\ MaxLineup \in Nat \ {0}
  /\ Hash \in [0 .. MaxLineup -> Nat]
  /\ \A v \in 1 .. MaxLineup : Hash[v] # Hash[0]     \* 0: no lineup, nothing banked

\* Editions that go back and forth between two contents, and so between two fingerprints.
Reverts == [v \in 0 .. MaxLineup |-> IF v = 0 THEN 0 ELSE 1 + (v % 2)]

VARIABLES
  saved,      \* the server's row of sync_state (and its cached copy)
  at,         \* the await a caller's pass stands at
  row,        \* the pass's own copy of the row
  seen,       \* the edition its fingerprint was computed from
  todo,       \* hosts it still has to work on
  rebuilt,    \* finishReadd was called by rebuildTuners
  \* Emby and the people around it
  registered, \* hosts the admin entered
  hosts,      \* hosts Emby lists
  guide,      \* edition of our lineup its guide last loaded
  lineup,     \* edition of our lineup
  watching,   \* a live TV session is open
  \* history: what the properties compare the row with
  failing,    \* verifies in a row that found the host's playlist drifted
  rebuilds    \* rebuilds since a verify passed or the operator reset

passVars == <<at, row, seen, todo, rebuilt>>
embyVars == <<registered, hosts, guide, lineup, watching>>
pastVars == <<failing, rebuilds>>
vars     == <<saved, passVars, embyVars, pastVars>>

Ages == {"none", "fresh", "due"}    \* refreshedAt against VERIFY_DELAY_MS
Rows == [fp        : 0 .. MaxLineup,   \* edition whose fingerprint is banked
         refreshed : Ages,
         recent    : BOOLEAN,       \* readdAt is less than READD_COOLDOWN_MS ago
         pending   : SUBSET Hosts,  \* pendingReadd, the captured hosts
         failures  : 0 .. MAX_READD_FAILURES,
         streak    : [Hosts -> 0 .. MIN_SCOPE_FAILURES]]   \* counts up to the threshold
Awaits == {"off", "refresh", "verify", "session", "capture", "delete", "add",
           "list", "readd", "confirm", "reguide"}

NoStreak == [h \in Hosts |-> 0]
NewRow   == [fp |-> 0, refreshed |-> "none", recent |-> FALSE, pending |-> {},
             failures |-> 0, streak |-> NoStreak]

TypeOK == /\ saved \in Rows
          /\ at \in [Callers -> Awaits]
          /\ row \in [Callers -> Rows]
          /\ seen \in [Callers -> 0 .. MaxLineup]
          /\ todo \in [Callers -> SUBSET Hosts]
          /\ rebuilt \in [Callers -> BOOLEAN]
          /\ registered \subseteq Hosts /\ hosts \subseteq registered
          /\ guide \in 0 .. MaxLineup /\ lineup \in 0 .. MaxLineup
          /\ watching \in BOOLEAN
          /\ failing \in [Hosts -> 0 .. MIN_SCOPE_FAILURES]
          /\ rebuilds \in 0 .. MAX_READD_FAILURES + 1

Init == /\ saved = NewRow
        /\ at = [c \in Callers |-> "off"]
        /\ row = [c \in Callers |-> NewRow]
        /\ seen = [c \in Callers |-> 0]
        /\ todo = [c \in Callers |-> {}]
        /\ rebuilt = [c \in Callers |-> FALSE]
        /\ registered \in SUBSET Hosts /\ hosts = registered
        /\ guide = 0 /\ lineup = 1
        /\ watching = FALSE
        /\ failing = NoStreak
        /\ rebuilds = 0

UpTo(n, bound) == IF n < bound THEN n ELSE bound

\* Mutant: the breaker trips one failure too late.
Tripped_Late(r) == r.failures > MAX_READD_FAILURES
Tripped(r)      == r.failures >= MAX_READD_FAILURES

-----------------------------------------------------------------------------
(* A pass of the ladder, one action per stretch between two awaits.        *)

Goes(c, await) == at' = [at EXCEPT ![c] = await]

\* The pass is over; its locals are gone.
Returns(c) == /\ Goes(c, "off")
              /\ row' = [row EXCEPT ![c] = NewRow]
              /\ seen' = [seen EXCEPT ![c] = 0]
              /\ todo' = [todo EXCEPT ![c] = {}]
              /\ rebuilt' = [rebuilt EXCEPT ![c] = FALSE]

\* An Emby call threw: convergeServer's catch notes it on the row as it is now.
Throws(c) == Returns(c) /\ UNCHANGED saved

\* Mutant: passes are not serialized.
InFlight_Never == FALSE
InFlight == \E c \in Callers : at[c] # "off"

\* Mutant: a tripped breaker keeps the reconciler away altogether.
NudgeBlocked_Tripped == Tripped(saved)

\* The reconciler leaves a tripped server alone, unless a re-add is owed.
NudgeBlocked == Tripped(saved) /\ saved.pending = {}

\* convergeServer is called and the ladder reaches its first await.  The fingerprint
\* was read when the caller's pass over the servers began; a lineup that went back to
\* what it was has the fingerprint it had.
Begin(c) == \E v \in 1 .. lineup :
  /\ at[c] = "off" /\ ~InFlight
  /\ c = Reconciler => ~NudgeBlocked
  /\ \/ saved.pending # {} /\ Goes(c, "list")
     \/ saved.pending = {} /\ Hash[saved.fp] # Hash[v] /\ Goes(c, "refresh")
     \/ saved.pending = {} /\ Hash[saved.fp] = Hash[v] /\ saved.refreshed = "due"
        /\ Goes(c, "verify")
  /\ row' = [row EXCEPT ![c] = saved]
  /\ seen' = [seen EXCEPT ![c] = v]
  /\ UNCHANGED <<saved, todo, rebuilt, embyVars, pastVars>>

\* Mutant: the fingerprint is banked although the refresh failed.
AfterFailedRefresh_Banked(c) == [row[c] EXCEPT !.fp = seen[c]]
AfterFailedRefresh(c) == row[c]

\* Rung 2.  The refresh is not banked when it failed.
Refresh(c) ==
  /\ at[c] = "refresh"
  /\ \/ /\ guide' = lineup
        /\ saved' = [saved EXCEPT !.fp = seen[c], !.refreshed = "fresh"]
     \/ /\ saved' = AfterFailedRefresh(c)
        /\ UNCHANGED guide
  /\ Returns(c)
  /\ UNCHANGED <<registered, hosts, lineup, watching, pastVars>>

\* The verify threw or found no host of ours, or our base URL is unknown.
Inconclusive(c) == saved' = row[c] /\ Returns(c) /\ UNCHANGED pastVars

\* Every playlist was there.  With a group that has no host the refresh stays
\* unverified.
Verified(c) ==
  /\ saved' = [row[c] EXCEPT !.failures = 0, !.streak = NoStreak,
                             !.refreshed = IF Groups \subseteq hosts THEN "none" ELSE @]
  /\ failing' = NoStreak /\ rebuilds' = 0
  /\ Returns(c)

\* The playlists F drifted.
StreakAfter(c, F) == [h \in Hosts |->
  IF h \in F THEN UpTo(row[c].streak[h] + 1, MIN_SCOPE_FAILURES) ELSE 0]

\* Guards of rung 4.  Each notes its reason on the row as the pass first read it.
HeldBack(c) == saved' = row[c] /\ Returns(c)

Drifted(c, F) ==
  LET streak    == StreakAfter(c, F)
      banked    == [row[c] EXCEPT !.streak = streak]
      confirmed == {h \in F : streak[h] >= MIN_SCOPE_FAILURES}
      guarded   == Tripped(row[c]) \/ row[c].recent
  IN  /\ failing' = [h \in Hosts |-> IF h \in F THEN UpTo(failing[h] + 1, MIN_SCOPE_FAILURES)
                                                ELSE IF h \in hosts THEN 0 ELSE failing[h]]
      /\ UNCHANGED rebuilds
      /\ \/ /\ confirmed = {} \/ c = Reconciler
            /\ saved' = banked /\ Returns(c)
         \/ /\ confirmed # {} /\ c # Reconciler /\ guarded
            /\ HeldBack(c)
         \/ /\ confirmed # {} /\ c # Reconciler /\ ~guarded
            /\ saved' = banked
            /\ Goes(c, "session") /\ todo' = [todo EXCEPT ![c] = confirmed]
            /\ UNCHANGED <<row, seen, rebuilt>>

\* Rung 3: compare what Emby lists with what our playlists emit.
Verify(c) ==
  /\ at[c] = "verify"
  /\ \/ Inconclusive(c)
     \/ hosts # {} /\ Verified(c)
     \/ \E F \in (SUBSET hosts) \ {{}} : Drifted(c, F)
  /\ UNCHANGED embyVars

\* hasLiveSession.
CheckSession(c) ==
  /\ at[c] = "session"
  /\ \/ Throws(c)
     \/ watching /\ HeldBack(c)
     \/ /\ ~watching
        /\ Goes(c, "capture") /\ row' = [row EXCEPT ![c] = saved]
        /\ UNCHANGED <<saved, seen, todo, rebuilt>>
  /\ UNCHANGED <<embyVars, pastVars>>

-----------------------------------------------------------------------------
(* Rung 4 and rung 0.                                                      *)

\* Mutant: the failure is counted when the re-add fails, not before the delete.
Captured_Uncounted(c, owned) ==
  [row[c] EXCEPT !.recent = TRUE, !.pending = owned, !.streak = NoStreak]

\* Intent, rate limit, presumed failure and spent streaks go to disk together,
\* before the first delete.
Captured(c, owned) ==
  [row[c] EXCEPT !.recent = TRUE, !.pending = owned, !.failures = @ + 1, !.streak = NoStreak]

\* rebuildTuners lists the hosts; those of the drifted playlists are captured.
Capture(c) == LET owned == todo[c] \cap hosts IN
  /\ at[c] = "capture"
  /\ \/ Throws(c) /\ UNCHANGED pastVars
     \/ owned = {} /\ HeldBack(c) /\ UNCHANGED pastVars
     \/ /\ owned # {}
        /\ saved' = Captured(c, owned)
        /\ rebuilds' = UpTo(rebuilds + 1, MAX_READD_FAILURES + 1)
        /\ Goes(c, "delete") /\ todo' = [todo EXCEPT ![c] = owned]
        /\ UNCHANGED <<row, seen, rebuilt, failing>>
  /\ UNCHANGED embyVars

\* Delete, add, next host.  A call that threw may still have taken effect.
Delete(c) == \E h \in todo[c] :
  /\ at[c] = "delete"
  /\ \/ hosts' = hosts \ {h} /\ Goes(c, "add") /\ UNCHANGED <<saved, row, seen, todo, rebuilt>>
     \/ hosts' \in {hosts, hosts \ {h}} /\ Throws(c)
  /\ UNCHANGED <<registered, guide, lineup, watching, pastVars>>

\* addWithRetry returned, which does not mean Emby kept the host, or gave up.
AddReturns(c, h) == /\ hosts' \in {hosts, hosts \cup {h}}
                    /\ todo' = [todo EXCEPT ![c] = @ \ {h}]

\* Emby refuses the host: the breaker trips, what is owed stays on record.
AddFails(c, h, r) == /\ hosts' \in {hosts, hosts \cup {h}}
                     /\ saved' = [r EXCEPT !.failures = MAX_READD_FAILURES]
                     /\ Returns(c)

\* The deleted host is the one of `todo` Emby does not list.
Add(c) == \E h \in todo[c] \ hosts :
  /\ at[c] = "add"
  /\ \/ /\ AddReturns(c, h)
        /\ IF todo[c] = {h}
             THEN /\ Goes(c, "list")
                  /\ row' = [row EXCEPT ![c] = saved]
                  /\ rebuilt' = [rebuilt EXCEPT ![c] = TRUE]
             ELSE Goes(c, "delete") /\ UNCHANGED <<row, rebuilt>>
        /\ UNCHANGED <<saved, seen>>
     \/ AddFails(c, h, saved)
  /\ UNCHANGED <<registered, guide, lineup, watching, pastVars>>

\* finishReadd asks Emby which captured hosts it is missing.
List(c) == LET missing == row[c].pending \ hosts IN
  /\ at[c] = "list"
  /\ \/ Throws(c)
     \/ /\ missing = {} /\ ~rebuilt[c]
        /\ saved' = [row[c] EXCEPT !.pending = {}]
        /\ Returns(c)
     \/ /\ missing = {} => rebuilt[c]
        /\ Goes(c, IF missing = {} THEN "reguide" ELSE "readd")
        /\ todo' = [todo EXCEPT ![c] = missing]
        /\ UNCHANGED <<saved, row, seen, rebuilt>>
  /\ UNCHANGED <<embyVars, pastVars>>

Readd(c) == \E h \in todo[c] :
  /\ at[c] = "readd"
  /\ \/ /\ AddReturns(c, h)
        /\ Goes(c, IF todo[c] = {h} THEN "confirm" ELSE "readd")
        /\ UNCHANGED <<saved, row, seen, rebuilt>>
     \/ AddFails(c, h, row[c])
  /\ UNCHANGED <<registered, guide, lineup, watching, pastVars>>

\* Mutant: Emby's answer to the add is believed.
AllBack_Assumed(c) == TRUE
AllBack(c) == row[c].pending \subseteq hosts

\* Emby's own list is trusted, not its answer to the add.
Confirm(c) ==
  /\ at[c] = "confirm"
  /\ \/ Throws(c)
     \/ AllBack(c) /\ Goes(c, "reguide") /\ UNCHANGED <<saved, row, seen, todo, rebuilt>>
     \/ ~AllBack(c) /\ saved' = [row[c] EXCEPT !.failures = MAX_READD_FAILURES] /\ Returns(c)
  /\ UNCHANGED <<embyVars, pastVars>>

\* The hosts are back; the repair is done whether the guide refresh works or not.
Reguide(c) ==
  /\ at[c] = "reguide"
  /\ guide' \in {guide, lineup}
  /\ saved' = [row[c] EXCEPT !.refreshed = "fresh", !.recent = TRUE, !.pending = {}]
  /\ Returns(c)
  /\ UNCHANGED <<registered, hosts, lineup, watching, pastVars>>

PassStep(c) == \/ Refresh(c) \/ Verify(c) \/ CheckSession(c) \/ Capture(c) \/ Delete(c)
               \/ Add(c) \/ List(c) \/ Readd(c) \/ Confirm(c) \/ Reguide(c)

-----------------------------------------------------------------------------
(* What comes in between.                                                  *)

\* The operator re-arms the last rung, tripped or not, on the row as it is now.
ResetAttention ==
  /\ saved' = [saved EXCEPT !.failures = 0, !.streak = NoStreak]
  /\ rebuilds' = 0
  /\ UNCHANGED <<passVars, embyVars, failing>>

\* The process dies and starts again: sync_state is what is left.
Crash == /\ InFlight
         /\ at' = [c \in Callers |-> "off"]
         /\ row' = [c \in Callers |-> NewRow]
         /\ seen' = [c \in Callers |-> 0]
         /\ todo' = [c \in Callers |-> {}]
         /\ rebuilt' = [c \in Callers |-> FALSE]
         /\ UNCHANGED <<saved, embyVars, pastVars>>

\* Ten minutes, an hour pass: every copy of the timestamp grows older.
VerifyWindowPasses ==
  LET Aged(r) == IF r.refreshed = "fresh" THEN [r EXCEPT !.refreshed = "due"] ELSE r IN
  /\ saved.refreshed = "fresh"
  /\ saved' = Aged(saved) /\ row' = [c \in Callers |-> Aged(row[c])]
  /\ UNCHANGED <<at, seen, todo, rebuilt, embyVars, pastVars>>

CooldownPasses ==
  /\ saved.recent
  /\ saved' = [saved EXCEPT !.recent = FALSE]
  /\ row' = [c \in Callers |-> [row[c] EXCEPT !.recent = FALSE]]
  /\ UNCHANGED <<at, seen, todo, rebuilt, embyVars, pastVars>>

LineupChanges == /\ lineup < MaxLineup /\ lineup' = lineup + 1
                 /\ UNCHANGED <<saved, passVars, registered, hosts, guide, watching, pastVars>>

AdminRegisters(h) == /\ h \notin registered
                     /\ registered' = registered \cup {h} /\ hosts' = hosts \cup {h}
                     /\ UNCHANGED <<saved, passVars, guide, lineup, watching, pastVars>>

SessionsChange == /\ watching' = ~watching
                  /\ UNCHANGED <<saved, passVars, registered, hosts, guide, lineup, pastVars>>

Next == \/ \E c \in Callers : Begin(c) \/ PassStep(c)
        \/ ResetAttention \/ Crash \/ VerifyWindowPasses \/ CooldownPasses
        \/ LineupChanges \/ SessionsChange
        \/ \E h \in Hosts : AdminRegisters(h)

Spec == Init /\ [][Next]_vars

\* The reconciler ticks every five minutes for as long as a re-add is owed; a call
\* of Emby that comes again and again works in the end.
ReconcilerTicks == SF_vars(saved.pending # {} /\ Begin(Reconciler))
EmbyAnswers(c)  == /\ SF_vars(List(c) /\ (at'[c] # "off" \/ saved'.pending = {}))
                   /\ \A h \in Hosts : SF_vars(Readd(c) /\ h \in hosts' \ hosts /\ at'[c] # "off")
                   /\ WF_vars(PassStep(c))
FairSpec == Spec /\ ReconcilerTicks /\ \A c \in Callers : EmbyAnswers(c)

\* No action reads the history of verifies: states that differ only there are one.
PresentView == <<saved, passVars, embyVars, rebuilds>>

-----------------------------------------------------------------------------
(* Properties.                                                             *)

\* "pending_readd holds the captured host objects before the first delete and is
\* cleared only once every host is confirmed back": whatever crashes, lost
\* answers and overlapping calls do, a host Emby lost to a rebuild is on record.
OwedIsRecorded == registered \ hosts \subseteq saved.pending

\* The circuit breaker: no more than MAX_READD_FAILURES rebuilds run without a
\* verified lineup, crashes in between included.
BreakerHolds == rebuilds <= MAX_READD_FAILURES

\* A fingerprint is banked only once Emby has pulled the lineup it was computed from or
\* a later one: a failed, late or crashed refresh is never taken for done.
BankedIsPulled == guide >= saved.fp

\* What sync_state says of Emby is so: a host that a rebuild deleted is on record until it
\* is back, and since the lineup behind the banked fingerprint was read Emby has pulled
\* ours, whatever crashes, lost answers and overlapping calls do.
RecordIsTrue == OwedIsRecorded /\ BankedIsPulled

\* More than the code gives: a lineup that was changed while it was pulled and then
\* changed back has the banked fingerprint, and Emby shows the one in between.
BankedIsShown == Hash[saved.fp] = Hash[lineup] => Hash[guide] = Hash[lineup]

\* "Requiring the same scope to fail twice IN A ROW makes churn caught mid-flight
\* (fail, pass, fail - the streak resets on the pass) a no-op": a deleted host's
\* playlist failed the last MIN_SCOPE_FAILURES verifies.
RebuildIsConfirmed ==
  [][\A h \in hosts \ hosts' : failing[h] >= MIN_SCOPE_FAILURES]_vars

\* Operator "I've fixed it, try again": once reset, the breaker trips again only
\* by a new rebuild or a re-add that failed.  It fails: a pass under way saves the row
\* it read before the reset.
ResetSticks ==
  [][saved'.failures > saved.failures =>
       \E c \in Callers : at[c] \in {"capture", "add", "readd", "confirm"}]_vars

\* A host the ladder deleted comes back, the breaker tripped or not, as long as
\* Emby works again some day.
TunerComesBack == registered \ hosts # {} ~> registered \subseteq hosts
=============================================================================
