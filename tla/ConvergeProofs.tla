---------------------------- MODULE ConvergeProofs ----------------------------
(***************************************************************************)
(* Theorems about Converge for any playlists, groups and callers, any      *)
(* thresholds, any number of lineups and any fingerprints of theirs: they  *)
(* may return to what they were.                                           *)
(*                                                                         *)
(* What a pass saves is the row it read some awaits ago, so each invariant *)
(* of the saved row is also one of every row that a pass may still save.   *)
(***************************************************************************)
EXTENDS Converge, TLAPS

\* Passes are serialized: converge.ts chains the calls of one server.
OneInFlight == \A c, d \in Callers : at[c] # "off" /\ at[d] # "off" => c = d

\* Where a pass may still save the row it read.
Saves(c) == at[c] \notin {"off", "delete", "add"}

\* Everything on record or in the hands of a pass was entered by the admin.
HostsAreKnown == /\ saved.pending \subseteq registered
                 /\ \A c \in Callers : /\ todo[c] \subseteq registered
                                       /\ row[c].pending \subseteq registered

\* No copy of the row claims a lineup that Emby has not pulled since it was read.
Pulled(r) == r.fp <= guide
CopiesArePulled == /\ lineup > 0 /\ guide <= lineup
                   /\ Pulled(saved)
                   /\ \A c \in Callers : Pulled(row[c]) /\ seen[c] <= lineup

\* The presumed failures of a row count the rebuilds, and a pass that is about to
\* rebuild has found the breaker closed.
RebuildsAreCounted ==
  /\ rebuilds <= saved.failures
  /\ \A c \in Callers :
       /\ Saves(c) => rebuilds <= row[c].failures
       /\ at[c] \in {"session", "capture"} => ~Tripped(saved) /\ ~Tripped(row[c])

\* What Emby lost is on every row that may be saved.  Nothing is owed on the way to a
\* rebuild, and when the hosts are found back.
CopiesAreOwed ==
  /\ OwedIsRecorded
  /\ \A c \in Callers :
       /\ Saves(c) => registered \ hosts \subseteq row[c].pending
       /\ at[c] \in {"refresh", "verify", "session", "capture"}
            => saved.pending = {} /\ row[c].pending = {}
       /\ at[c] \in {"delete", "add"} => todo[c] \subseteq saved.pending
       /\ at[c] = "reguide" => registered \subseteq hosts

IInv == /\ TypeOK /\ OneInFlight /\ HostsAreKnown /\ CopiesArePulled
        /\ RebuildsAreCounted /\ CopiesAreOwed

-----------------------------------------------------------------------------
(* Lemmas about rows and about the end of a pass.                          *)

LEMMA RowFields ==
  ASSUME NEW r \in Rows
  PROVE  /\ r.fp \in 0 .. MaxLineup /\ r.refreshed \in Ages /\ r.recent \in BOOLEAN
         /\ r.pending \in SUBSET Hosts /\ r.failures \in 0 .. MAX_READD_FAILURES
         /\ r.streak \in [Hosts -> 0 .. MIN_SCOPE_FAILURES]
BY DEF Rows

\* A refresh of Emby's guide takes nothing back.
LEMMA GuideGrows ==
  ASSUME TypeOK, CopiesArePulled, lineup' = lineup, guide' \in {guide, lineup}
  PROVE  /\ guide' <= lineup' /\ guide' \in 0 .. MaxLineup
         /\ \A r \in Rows : Pulled(r) => r.fp <= guide'
<1>1. guide \in Nat /\ lineup \in Nat
  BY ConvergeAssumption DEF TypeOK, ConvergeAssumption
<1>2. \A r \in Rows : r.fp \in Nat
  BY RowFields, ConvergeAssumption DEF ConvergeAssumption
<1>. QED
  BY <1>1, <1>2 DEF TypeOK, CopiesArePulled, Pulled

\* What the assumptions say of the bounds.
LEMMA Bounds ==
  /\ 0 \in 0 .. MaxLineup /\ 0 \in 0 .. MAX_READD_FAILURES /\ 0 \in 0 .. MIN_SCOPE_FAILURES
  /\ MAX_READD_FAILURES \in 0 .. MAX_READD_FAILURES
  /\ 1 \in 0 .. MaxLineup
BY ConvergeAssumption DEF ConvergeAssumption

LEMMA NewRowType == NewRow \in Rows /\ NoStreak \in [Hosts -> 0 .. MIN_SCOPE_FAILURES]
<1>1. NoStreak \in [Hosts -> 0 .. MIN_SCOPE_FAILURES]
  BY Bounds DEF NoStreak
<1>. QED
  BY <1>1, Bounds DEF NewRow, Rows, Ages

\* Counting up to a bound stays within it.
LEMMA UpToType ==
  ASSUME NEW bound \in Nat, NEW n \in 0 .. bound
  PROVE  UpTo(n + 1, bound) \in 0 .. bound
BY DEF UpTo

LEMMA StreakType ==
  ASSUME TypeOK, NEW c \in Callers, NEW F
  PROVE  StreakAfter(c, F) \in [Hosts -> 0 .. MIN_SCOPE_FAILURES]
<1>1. row[c].streak \in [Hosts -> 0 .. MIN_SCOPE_FAILURES]
  BY RowFields DEF TypeOK
<1>2. \A h \in Hosts : UpTo(row[c].streak[h] + 1, MIN_SCOPE_FAILURES) \in 0 .. MIN_SCOPE_FAILURES
  BY <1>1, UpToType, ConvergeAssumption DEF ConvergeAssumption
<1>. QED
  BY <1>2, Bounds DEF StreakAfter

\* The locals of the passes.
PassTypes == /\ at \in [Callers -> Awaits]
             /\ row \in [Callers -> Rows]
             /\ seen \in [Callers -> 0 .. MaxLineup]
             /\ todo \in [Callers -> SUBSET Hosts]
             /\ rebuilt \in [Callers -> BOOLEAN]

\* A pass that returns was the only one: no pass is left, and no local.
LEMMA ReturnsLeavesNone ==
  ASSUME TypeOK, OneInFlight, NEW c \in Callers, at[c] # "off", Returns(c)
  PROVE  /\ PassTypes'
         /\ \A d \in Callers : at'[d] = "off"
         /\ \A d \in Callers : /\ row'[d] \in {row[d], NewRow}
                               /\ seen'[d] \in {seen[d], 0}
                               /\ todo'[d] \in {todo[d], {}}
<1>1. PassTypes'
  BY NewRowType, Bounds DEF TypeOK, PassTypes, Returns, Goes, Awaits
<1>2. \A d \in Callers : at'[d] = "off"
  BY DEF TypeOK, OneInFlight, Returns, Goes
<1>. QED
  BY <1>1, <1>2 DEF TypeOK, Returns

\* A pass that goes on is still the only one.
LEMMA GoesOnAlone ==
  ASSUME TypeOK, NEW c \in Callers, NEW await \in Awaits, Goes(c, await),
         \A d \in Callers : at[d] # "off" => d = c
  PROVE  /\ at' \in [Callers -> Awaits]
         /\ at'[c] = await
         /\ \A d \in Callers : d # c => at'[d] = "off"
         /\ OneInFlight'
BY DEF TypeOK, Goes, OneInFlight

\* After a return only the saved row speaks of the past.  What it must say is what is
\* left to show of a pass that ends.
SavedIsSound == /\ saved \in Rows
                /\ saved.pending \subseteq registered
                /\ Pulled(saved)
                /\ rebuilds <= saved.failures
                /\ OwedIsRecorded

\* Emby's side and the history keep their types.
WorldTypes == /\ registered \subseteq Hosts /\ hosts \subseteq registered
              /\ guide \in 0 .. MaxLineup /\ lineup \in 0 .. MaxLineup
              /\ watching \in BOOLEAN
              /\ failing \in [Hosts -> 0 .. MIN_SCOPE_FAILURES]
              /\ rebuilds \in 0 .. MAX_READD_FAILURES + 1

LEMMA ReturnKeepsInv ==
  ASSUME IInv, NEW c \in Callers, at[c] # "off", Returns(c),
         UNCHANGED <<registered, lineup>>, guide' \in {guide, lineup},
         SavedIsSound', WorldTypes'
  PROVE  IInv'
<1>. TypeOK /\ OneInFlight /\ HostsAreKnown /\ CopiesArePulled
  BY DEF IInv
<1>1. /\ PassTypes'
      /\ \A d \in Callers : at'[d] = "off"
      /\ \A d \in Callers : /\ row'[d] \in {row[d], NewRow}
                            /\ seen'[d] \in {seen[d], 0}
                            /\ todo'[d] \in {todo[d], {}}
  BY ReturnsLeavesNone
<1>2. NewRow.fp = 0 /\ NewRow.pending = {}
  BY DEF NewRow
<1>3. TypeOK'
  BY <1>1 DEF TypeOK, PassTypes, WorldTypes, SavedIsSound
<1>4. OneInFlight'
  BY <1>1 DEF OneInFlight
<1>5. HostsAreKnown'
  BY <1>1, <1>2 DEF HostsAreKnown, SavedIsSound
<1>6. CopiesArePulled'
  <2>1. lineup \in Nat /\ lineup > 0 /\ 0 <= guide' /\ guide' <= lineup'
    BY GuideGrows, ConvergeAssumption DEF TypeOK, CopiesArePulled, ConvergeAssumption
  <2>2. ASSUME NEW d \in Callers PROVE (Pulled(row[d]) /\ seen[d] <= lineup)'
    <3>1. Pulled(row[d]) /\ seen[d] <= lineup /\ row[d] \in Rows
      BY DEF TypeOK, CopiesArePulled
    <3>2. row[d].fp <= guide'
      BY <3>1, GuideGrows
    <3>. QED
      BY <1>1, <1>2, <2>1, <3>1, <3>2 DEF Pulled
  <2>. QED
    BY <2>1, <2>2 DEF CopiesArePulled, SavedIsSound
<1>7. RebuildsAreCounted'
  BY <1>1 DEF RebuildsAreCounted, Saves, SavedIsSound
<1>8. CopiesAreOwed'
  BY <1>1 DEF CopiesAreOwed, Saves, SavedIsSound
<1>. QED
  BY <1>3, <1>4, <1>5, <1>6, <1>7, <1>8 DEF IInv

\* The saved row as it is, and a copy that may still be saved, are sound.
LEMMA SavedSound ==
  ASSUME IInv
  PROVE  SavedIsSound /\ WorldTypes
BY DEF IInv, TypeOK, HostsAreKnown, CopiesArePulled, RebuildsAreCounted, CopiesAreOwed,
       SavedIsSound, WorldTypes

LEMMA CopySound ==
  ASSUME IInv, NEW c \in Callers, Saves(c)
  PROVE  /\ row[c] \in Rows
         /\ row[c].pending \subseteq registered
         /\ Pulled(row[c])
         /\ rebuilds <= row[c].failures
         /\ registered \ hosts \subseteq row[c].pending
BY DEF IInv, TypeOK, HostsAreKnown, CopiesArePulled, RebuildsAreCounted, CopiesAreOwed

-----------------------------------------------------------------------------
(* The steps of a pass.                                                    *)

LEMMA BeginKeepsInv ==
  ASSUME IInv, NEW c \in Callers, Begin(c)
  PROVE  IInv'
<1>. TypeOK /\ SavedIsSound /\ WorldTypes
  BY SavedSound DEF IInv
<1>1. PICK v \in 1 .. lineup, await \in {"list", "refresh", "verify"} :
        /\ at[c] = "off" /\ ~InFlight
        /\ Goes(c, await)
        /\ await # "list" => saved.pending = {}
        /\ row' = [row EXCEPT ![c] = saved]
        /\ seen' = [seen EXCEPT ![c] = v]
        /\ UNCHANGED <<saved, todo, rebuilt, embyVars, pastVars>>
  BY DEF Begin
<1>2. UNCHANGED <<saved, todo, rebuilt, registered, hosts, guide, lineup, watching, failing,
                  rebuilds>>
  BY <1>1 DEF embyVars, pastVars
<1>3. /\ at' \in [Callers -> Awaits] /\ at'[c] = await
      /\ \A d \in Callers : d # c => at'[d] = "off"
      /\ OneInFlight'
  BY <1>1, GoesOnAlone DEF InFlight, Awaits
<1>4. row'[c] = saved /\ \A d \in Callers : d # c => row'[d] = row[d] /\ seen'[d] = seen[d]
  BY <1>1 DEF TypeOK
<1>5. seen'[c] = v /\ v \in 0 .. MaxLineup /\ v <= lineup
  <2>1. lineup \in 0 .. MaxLineup /\ MaxLineup \in Nat
    BY ConvergeAssumption DEF TypeOK, ConvergeAssumption
  <2>. QED
    BY <1>1, <2>1 DEF TypeOK
<1>6. TypeOK'
  BY <1>1, <1>2, <1>3, <1>5 DEF TypeOK
<1>7. HostsAreKnown'
  BY <1>2, <1>4 DEF IInv, HostsAreKnown, SavedIsSound
<1>8. CopiesArePulled'
  BY <1>2, <1>4, <1>5 DEF IInv, CopiesArePulled, Pulled
<1>9. RebuildsAreCounted'
  BY <1>1, <1>2, <1>3, <1>4 DEF RebuildsAreCounted, Saves, SavedIsSound
<1>10. CopiesAreOwed'
  BY <1>1, <1>2, <1>3, <1>4 DEF CopiesAreOwed, OwedIsRecorded, Saves, SavedIsSound
<1>. QED
  BY <1>3, <1>6, <1>7, <1>8, <1>9, <1>10 DEF IInv

LEMMA RefreshKeepsInv ==
  ASSUME IInv, NEW c \in Callers, Refresh(c)
  PROVE  IInv'
<1>. SavedIsSound /\ WorldTypes
  BY SavedSound
<1>1. at[c] = "refresh" /\ Returns(c) /\ UNCHANGED <<registered, hosts, lineup, watching, pastVars>>
  BY DEF Refresh
<1>2. CASE /\ guide' = lineup
           /\ saved' = [saved EXCEPT !.fp = seen[c], !.refreshed = "fresh"]
  <2>1. seen[c] \in 0 .. MaxLineup /\ seen[c] <= lineup
    BY DEF IInv, TypeOK, CopiesArePulled
  <2>2. saved' \in Rows /\ saved'.fp = seen[c] /\ saved'.pending = saved.pending
        /\ saved'.failures = saved.failures
    BY <1>2, <2>1 DEF SavedIsSound, Rows, Ages
  <2>3. SavedIsSound' /\ WorldTypes'
    BY <1>1, <1>2, <2>1, <2>2 DEF SavedIsSound, Pulled, OwedIsRecorded, WorldTypes, pastVars
  <2>. QED
    BY <1>1, <1>2, <2>3, ReturnKeepsInv
<1>3. CASE saved' = row[c] /\ UNCHANGED guide
  <2>1. SavedIsSound' /\ WorldTypes'
    BY <1>1, <1>3, CopySound DEF SavedIsSound, Saves, Pulled, OwedIsRecorded, WorldTypes, pastVars
  <2>. QED
    BY <1>1, <1>3, <2>1, ReturnKeepsInv
<1>. QED
  BY <1>2, <1>3 DEF Refresh, AfterFailedRefresh

\* A pass that saves the row it read, with more or fewer failures counted, or no more
\* than what is still owed, and returns.
LEMMA SavingKeepsInv ==
  ASSUME IInv, NEW c \in Callers, Saves(c), Returns(c),
         UNCHANGED <<registered, lineup>>, guide' \in {guide, lineup}, WorldTypes',
         saved' \in Rows, saved'.fp = row[c].fp, saved'.pending \subseteq row[c].pending,
         registered \ hosts' \subseteq saved'.pending, rebuilds' <= saved'.failures
  PROVE  IInv'
<1>1. /\ row[c].pending \subseteq registered
      /\ row[c].fp <= guide'
  BY CopySound, GuideGrows DEF IInv
<1>2. SavedIsSound'
  BY <1>1 DEF SavedIsSound, Pulled, OwedIsRecorded
<1>. QED
  BY <1>2, ReturnKeepsInv DEF Saves

\* An Emby call throws and nothing is saved.
LEMMA ThrowKeepsInv ==
  ASSUME IInv, NEW c \in Callers, at[c] # "off", Throws(c),
         UNCHANGED <<registered, lineup, guide, pastVars>>, WorldTypes',
         registered \ hosts' \subseteq saved.pending
  PROVE  IInv'
<1>1. SavedIsSound'
  BY SavedSound DEF Throws, SavedIsSound, Pulled, OwedIsRecorded, pastVars
<1>. QED
  BY <1>1, ReturnKeepsInv DEF Throws

LEMMA VerifyKeepsInv ==
  ASSUME IInv, NEW c \in Callers, Verify(c)
  PROVE  IInv'
<1>. TypeOK /\ SavedIsSound /\ WorldTypes
  BY SavedSound DEF IInv
<1>1. /\ at[c] = "verify" /\ Saves(c) /\ at[c] # "off"
      /\ UNCHANGED <<registered, hosts, guide, lineup, watching>>
  BY DEF Verify, Saves, embyVars
<1>2. /\ row[c] \in Rows /\ rebuilds <= row[c].failures
      /\ registered \ hosts \subseteq row[c].pending
  BY <1>1, CopySound
<1>3. CASE Inconclusive(c)
  <2>1. WorldTypes'
    BY <1>1, <1>3 DEF Inconclusive, WorldTypes, pastVars
  <2>. QED
    BY <1>1, <1>2, <1>3, <2>1, SavingKeepsInv DEF Inconclusive, pastVars
<1>4. CASE Verified(c)
  <2>1. /\ saved' \in Rows /\ saved'.fp = row[c].fp /\ saved'.pending = row[c].pending
        /\ saved'.failures = 0
    BY <1>2, <1>4, Bounds, NewRowType DEF Verified, Rows, Ages
  <2>2. WorldTypes' /\ rebuilds' = 0
    BY <1>1, <1>4, NewRowType, ConvergeAssumption DEF Verified, WorldTypes, ConvergeAssumption
  <2>3. registered \ hosts' \subseteq saved'.pending /\ rebuilds' <= saved'.failures
    BY <1>1, <1>2, <2>1, <2>2
  <2>4. Returns(c) /\ guide' \in {guide, lineup} /\ saved'.pending \subseteq row[c].pending
    BY <1>1, <1>4, <2>1 DEF Verified
  <2>. QED
    BY <1>1, <2>1, <2>2, <2>3, <2>4, SavingKeepsInv
<1>5. ASSUME NEW F \in SUBSET hosts, Drifted(c, F) PROVE IInv'
  <2>. DEFINE banked == [row[c] EXCEPT !.streak = StreakAfter(c, F)]
              confirmed == {h \in F : StreakAfter(c, F)[h] >= MIN_SCOPE_FAILURES}
  <2>1. /\ banked \in Rows /\ banked.fp = row[c].fp /\ banked.pending = row[c].pending
        /\ banked.failures = row[c].failures
    BY <1>2, StreakType DEF Rows
  <2>2. WorldTypes' /\ rebuilds' = rebuilds
    <3>1. failing' \in [Hosts -> 0 .. MIN_SCOPE_FAILURES]
      <4>1. \A h \in Hosts : UpTo(failing[h] + 1, MIN_SCOPE_FAILURES) \in 0 .. MIN_SCOPE_FAILURES
        BY UpToType, ConvergeAssumption DEF WorldTypes, ConvergeAssumption
      <4>. QED
        BY <1>5, <4>1, Bounds DEF Drifted, WorldTypes
    <3>. QED
      BY <1>1, <1>5, <3>1 DEF Drifted, WorldTypes
  <2>3. CASE (saved' = banked \/ saved' = row[c]) /\ Returns(c)
    BY <1>1, <1>2, <2>1, <2>2, <2>3, SavingKeepsInv
  <2>4. CASE /\ ~Tripped(row[c]) /\ saved' = banked
             /\ Goes(c, "session") /\ todo' = [todo EXCEPT ![c] = confirmed]
             /\ UNCHANGED <<row, seen, rebuilt>>
    <3>1. /\ at' \in [Callers -> Awaits] /\ at'[c] = "session"
          /\ \A d \in Callers : d # c => at'[d] = "off"
          /\ OneInFlight'
      BY <1>1, <2>4, GoesOnAlone DEF IInv, OneInFlight, Awaits
    <3>2. confirmed \in SUBSET registered /\ confirmed \in SUBSET Hosts
      BY DEF TypeOK
    <3>3. \A d \in Callers : todo'[d] \in {todo[d], confirmed}
      BY <2>4 DEF TypeOK
    <3>4. TypeOK'
      BY <2>1, <2>2, <2>4, <3>1, <3>2 DEF TypeOK, WorldTypes
    <3>5. HostsAreKnown'
      BY <1>1, <2>1, <2>4, <3>2, <3>3 DEF IInv, HostsAreKnown
    <3>6. CopiesArePulled'
      BY <1>1, <2>1, <2>4 DEF IInv, CopiesArePulled, Pulled
    <3>7. RebuildsAreCounted'
      BY <1>2, <2>1, <2>2, <2>4, <3>1 DEF RebuildsAreCounted, Saves, Tripped
    <3>8. CopiesAreOwed'
      BY <1>1, <1>2, <2>1, <2>4, <3>1 DEF IInv, CopiesAreOwed, OwedIsRecorded, Saves
    <3>. QED
      BY <3>1, <3>4, <3>5, <3>6, <3>7, <3>8 DEF IInv
  <2>. QED
    BY <1>5, <2>3, <2>4 DEF Drifted, HeldBack
<1>. QED
  BY <1>3, <1>4, <1>5 DEF Verify

\* A step within a pass that saves nothing and leaves the row it read, its fingerprint
\* and the history alone: what is left to show is about the await it goes on to.
LEMMA GoingOnKeepsInv ==
  ASSUME IInv, NEW c \in Callers, NEW await \in Awaits \ {"off"}, at[c] # "off",
         Goes(c, await), UNCHANGED <<saved, row, seen, rebuilt, registered, guide, lineup,
                                     watching, pastVars>>,
         hosts' \subseteq registered, registered \ hosts' \subseteq saved.pending,
         NEW left \in SUBSET registered, todo' = [todo EXCEPT ![c] = left],
         await \in {"delete", "add"} => left \subseteq saved.pending,
         await \notin {"delete", "add"} =>
           Saves(c) /\ registered \ hosts' \subseteq row[c].pending,
         await \in {"refresh", "verify", "session", "capture"} => FALSE,
         await = "reguide" => registered \subseteq hosts'
  PROVE  IInv'
<1>. TypeOK /\ WorldTypes
  BY SavedSound DEF IInv
<1>1. UNCHANGED <<failing, rebuilds>>
  BY DEF pastVars
<1>2. /\ at' \in [Callers -> Awaits] /\ at'[c] = await
      /\ \A d \in Callers : d # c => at'[d] = "off"
      /\ OneInFlight'
  BY GoesOnAlone DEF IInv, OneInFlight
<1>3. \A d \in Callers : todo'[d] \in {todo[d], left}
  BY DEF TypeOK
<1>4. TypeOK'
  BY <1>1, <1>2 DEF TypeOK
<1>5. HostsAreKnown'
  BY <1>3 DEF IInv, HostsAreKnown
<1>6. CopiesArePulled'
  BY DEF IInv, CopiesArePulled, Pulled
<1>7. RebuildsAreCounted'
  BY <1>1, <1>2 DEF IInv, RebuildsAreCounted, Saves
<1>8. CopiesAreOwed'
  BY <1>2 DEF IInv, TypeOK, CopiesAreOwed, OwedIsRecorded, Saves
<1>. QED
  BY <1>2, <1>4, <1>5, <1>6, <1>7, <1>8 DEF IInv

LEMMA CheckSessionKeepsInv ==
  ASSUME IInv, NEW c \in Callers, CheckSession(c)
  PROVE  IInv'
<1>. TypeOK /\ SavedIsSound /\ WorldTypes
  BY SavedSound DEF IInv
<1>1. /\ at[c] = "session" /\ Saves(c) /\ at[c] # "off"
      /\ UNCHANGED <<registered, hosts, guide, lineup, watching, failing, rebuilds>>
  BY DEF CheckSession, Saves, embyVars, pastVars
<1>2. /\ row[c] \in Rows /\ rebuilds <= row[c].failures
      /\ registered \ hosts \subseteq row[c].pending
  BY <1>1, CopySound
<1>3. WorldTypes' /\ registered \ hosts' \subseteq saved.pending
  BY <1>1 DEF WorldTypes, SavedIsSound, OwedIsRecorded
<1>4. CASE Throws(c)
  BY <1>1, <1>3, <1>4, ThrowKeepsInv DEF pastVars
<1>5. CASE HeldBack(c)
  BY <1>1, <1>2, <1>3, <1>5, SavingKeepsInv DEF HeldBack
<1>6. CASE /\ Goes(c, "capture") /\ row' = [row EXCEPT ![c] = saved]
           /\ UNCHANGED <<saved, seen, todo, rebuilt>>
  <2>1. /\ at' \in [Callers -> Awaits] /\ at'[c] = "capture"
        /\ \A d \in Callers : d # c => at'[d] = "off"
        /\ OneInFlight'
    BY <1>1, <1>6, GoesOnAlone DEF IInv, OneInFlight, Awaits
  <2>2. row'[c] = saved /\ \A d \in Callers : d # c => row'[d] = row[d]
    BY <1>6 DEF TypeOK
  <2>3. ~Tripped(saved) /\ saved.pending = {}
    BY <1>1 DEF IInv, RebuildsAreCounted, CopiesAreOwed
  <2>4. TypeOK'
    BY <1>1, <1>6, <2>1 DEF TypeOK
  <2>5. HostsAreKnown'
    BY <1>1, <1>6, <2>2 DEF IInv, HostsAreKnown
  <2>6. CopiesArePulled'
    BY <1>1, <1>6, <2>2 DEF IInv, CopiesArePulled, Pulled
  <2>7. RebuildsAreCounted'
    BY <1>1, <1>6, <2>1, <2>2, <2>3 DEF IInv, RebuildsAreCounted, Saves, Tripped
  <2>8. CopiesAreOwed'
    BY <1>1, <1>6, <2>1, <2>2, <2>3 DEF IInv, CopiesAreOwed, OwedIsRecorded, Saves
  <2>. QED
    BY <2>1, <2>4, <2>5, <2>6, <2>7, <2>8 DEF IInv
<1>. QED
  BY <1>4, <1>5, <1>6 DEF CheckSession

LEMMA CaptureKeepsInv ==
  ASSUME IInv, NEW c \in Callers, Capture(c)
  PROVE  IInv'
<1>. DEFINE owned == todo[c] \cap hosts
<1>. TypeOK /\ SavedIsSound /\ WorldTypes
  BY SavedSound DEF IInv
<1>1. /\ at[c] = "capture" /\ Saves(c) /\ at[c] # "off"
      /\ UNCHANGED <<registered, hosts, guide, lineup, watching>>
  BY DEF Capture, Saves, embyVars
<1>2. /\ row[c] \in Rows /\ rebuilds <= row[c].failures
      /\ registered \ hosts \subseteq row[c].pending
  BY <1>1, CopySound
<1>3. CASE Throws(c) /\ UNCHANGED pastVars
  <2>1. WorldTypes' /\ registered \ hosts' \subseteq saved.pending
    BY <1>1, <1>3 DEF WorldTypes, SavedIsSound, OwedIsRecorded, pastVars
  <2>. QED
    BY <1>1, <1>3, <2>1, ThrowKeepsInv
<1>4. CASE HeldBack(c) /\ UNCHANGED pastVars
  <2>1. WorldTypes' /\ rebuilds' = rebuilds
    BY <1>1, <1>4 DEF WorldTypes, pastVars
  <2>. QED
    BY <1>1, <1>2, <1>4, <2>1, SavingKeepsInv DEF HeldBack
<1>5. CASE /\ saved' = Captured(c, owned)
           /\ rebuilds' = UpTo(rebuilds + 1, MAX_READD_FAILURES + 1)
           /\ Goes(c, "delete") /\ todo' = [todo EXCEPT ![c] = owned]
           /\ UNCHANGED <<row, seen, rebuilt, failing>>
  <2>1. /\ at' \in [Callers -> Awaits] /\ at'[c] = "delete"
        /\ \A d \in Callers : d # c => at'[d] = "off"
        /\ OneInFlight'
    BY <1>1, <1>5, GoesOnAlone DEF IInv, OneInFlight, Awaits
  <2>2. /\ row[c].failures \in 0 .. MAX_READD_FAILURES /\ row[c].failures < MAX_READD_FAILURES
        /\ row[c].pending = {}
    <3>1. ~Tripped(row[c]) /\ row[c].pending = {}
      BY <1>1 DEF IInv, RebuildsAreCounted, CopiesAreOwed
    <3>2. row[c].failures \in 0 .. MAX_READD_FAILURES
      BY <1>2, RowFields
    <3>. QED
      BY <3>1, <3>2, ConvergeAssumption DEF Tripped, ConvergeAssumption
  <2>3. owned \in SUBSET registered /\ owned \in SUBSET Hosts
    BY DEF TypeOK
  <2>4. /\ saved' \in Rows /\ saved'.fp = row[c].fp /\ saved'.pending = owned
        /\ saved'.failures = row[c].failures + 1
    <3>1. row[c].failures + 1 \in 0 .. MAX_READD_FAILURES
      BY <2>2, ConvergeAssumption DEF ConvergeAssumption
    <3>2. saved' = [row[c] EXCEPT !.recent = TRUE, !.pending = owned,
                                  !.failures = row[c].failures + 1, !.streak = NoStreak]
      BY <1>2, <1>5 DEF Captured, Rows
    <3>. HIDE DEF owned
    <3>. QED
      BY <1>2, <2>3, <3>1, <3>2, NewRowType DEF Rows
  <2>5. rebuilds' = rebuilds + 1 /\ rebuilds' \in 0 .. MAX_READD_FAILURES + 1
    BY <1>2, <1>5, <2>2, ConvergeAssumption DEF UpTo, TypeOK, ConvergeAssumption
  <2>6. \A d \in Callers : todo'[d] \in {todo[d], owned} /\ (d = c => todo'[d] = owned)
    BY <1>5 DEF TypeOK
  <2>7. TypeOK'
    BY <1>1, <1>5, <2>1, <2>3, <2>4, <2>5 DEF TypeOK
  <2>8. HostsAreKnown'
    BY <1>1, <1>5, <2>3, <2>4, <2>6 DEF IInv, HostsAreKnown
  <2>9. CopiesArePulled'
    BY <1>1, <1>5, <2>4 DEF IInv, CopiesArePulled, Pulled
  <2>10. RebuildsAreCounted'
    <3>1. rebuilds' <= saved'.failures
      BY <1>2, <2>2, <2>4, <2>5 DEF TypeOK
    <3>2. \A d \in Callers : ~Saves(d)' /\ at'[d] \notin {"session", "capture"}
      BY <2>1 DEF Saves
    <3>. QED
      BY <3>1, <3>2 DEF RebuildsAreCounted
  <2>11. CopiesAreOwed'
    BY <1>1, <1>2, <1>5, <2>1, <2>2, <2>4, <2>6 DEF CopiesAreOwed, OwedIsRecorded, Saves
  <2>. QED
    BY <2>1, <2>7, <2>8, <2>9, <2>10, <2>11 DEF IInv
<1>. QED
  BY <1>3, <1>4, <1>5 DEF Capture

LEMMA DeleteKeepsInv ==
  ASSUME IInv, NEW c \in Callers, Delete(c)
  PROVE  IInv'
<1>. TypeOK /\ SavedIsSound /\ WorldTypes
  BY SavedSound DEF IInv
<1>1. PICK h \in todo[c] :
        /\ at[c] = "delete"
        /\ \/ hosts' = hosts \ {h} /\ Goes(c, "add") /\ UNCHANGED <<saved, row, seen, todo, rebuilt>>
           \/ hosts' \in {hosts, hosts \ {h}} /\ Throws(c)
        /\ UNCHANGED <<registered, guide, lineup, watching, pastVars>>
  BY DEF Delete
<1>2. todo[c] \subseteq saved.pending /\ todo[c] \in SUBSET registered
  BY <1>1 DEF IInv, CopiesAreOwed, HostsAreKnown
<1>3. registered \ hosts' \subseteq saved.pending /\ hosts' \subseteq registered
  BY <1>1, <1>2 DEF SavedIsSound, OwedIsRecorded, WorldTypes
<1>4. WorldTypes'
  BY <1>1, <1>3 DEF WorldTypes, pastVars
<1>5. CASE Throws(c)
  BY <1>1, <1>3, <1>4, <1>5, ThrowKeepsInv
<1>6. CASE Goes(c, "add") /\ UNCHANGED <<saved, row, seen, todo, rebuilt>>
  <2>1. todo' = [todo EXCEPT ![c] = todo[c]]
    BY <1>6 DEF TypeOK
  <2>2. "add" \in Awaits \ {"off"} /\ "add" \notin {"refresh", "verify", "session", "capture", "reguide"}
    BY DEF Awaits
  <2>. QED
    BY <1>1, <1>2, <1>3, <1>6, <2>1, <2>2, GoingOnKeepsInv
<1>. QED
  BY <1>1, <1>5, <1>6

LEMMA AddKeepsInv ==
  ASSUME IInv, NEW c \in Callers, Add(c)
  PROVE  IInv'
<1>. TypeOK /\ SavedIsSound /\ WorldTypes
  BY SavedSound DEF IInv
<1>1. PICK h \in todo[c] \ hosts :
        /\ at[c] = "add"
        /\ \/ /\ AddReturns(c, h)
              /\ IF todo[c] = {h}
                   THEN /\ Goes(c, "list")
                        /\ row' = [row EXCEPT ![c] = saved]
                        /\ rebuilt' = [rebuilt EXCEPT ![c] = TRUE]
                   ELSE Goes(c, "delete") /\ UNCHANGED <<row, rebuilt>>
              /\ UNCHANGED <<saved, seen>>
           \/ AddFails(c, h, saved)
        /\ UNCHANGED <<registered, guide, lineup, watching, pastVars>>
  BY DEF Add
<1>2. todo[c] \subseteq saved.pending /\ todo[c] \in SUBSET registered
  BY <1>1 DEF IInv, CopiesAreOwed, HostsAreKnown
<1>3. hosts' \in {hosts, hosts \cup {h}}
  BY <1>1 DEF AddReturns, AddFails
<1>4. registered \ hosts' \subseteq saved.pending /\ hosts' \subseteq registered
  BY <1>1, <1>2, <1>3 DEF SavedIsSound, OwedIsRecorded, WorldTypes
<1>5. WorldTypes'
  BY <1>1, <1>4 DEF WorldTypes, pastVars
<1>6. CASE AddFails(c, h, saved)
  <2>1. /\ saved' \in Rows /\ saved'.fp = saved.fp /\ saved'.pending = saved.pending
        /\ saved'.failures = MAX_READD_FAILURES
    BY <1>6, Bounds DEF AddFails, SavedIsSound, Rows
  <2>2. rebuilds <= MAX_READD_FAILURES
    <3>1. saved.failures \in 0 .. MAX_READD_FAILURES
      BY RowFields DEF SavedIsSound
    <3>. QED
      BY <3>1, ConvergeAssumption DEF TypeOK, SavedIsSound, ConvergeAssumption
  <2>3. SavedIsSound'
    BY <1>1, <1>4, <2>1, <2>2 DEF SavedIsSound, Pulled, OwedIsRecorded, pastVars
  <2>. QED
    BY <1>1, <1>5, <1>6, <2>3, ReturnKeepsInv DEF AddFails
<1>7. CASE /\ AddReturns(c, h)
           /\ todo[c] = {h}
           /\ Goes(c, "list")
           /\ row' = [row EXCEPT ![c] = saved]
           /\ rebuilt' = [rebuilt EXCEPT ![c] = TRUE]
           /\ UNCHANGED <<saved, seen>>
  <2>1. /\ at' \in [Callers -> Awaits] /\ at'[c] = "list"
        /\ \A d \in Callers : d # c => at'[d] = "off"
        /\ OneInFlight'
    BY <1>1, <1>7, GoesOnAlone DEF IInv, OneInFlight, Awaits
  <2>2. row'[c] = saved /\ \A d \in Callers : d # c => row'[d] = row[d]
    BY <1>7 DEF TypeOK
  <2>3. \A d \in Callers : todo'[d] \subseteq todo[d]
    BY <1>7 DEF TypeOK, AddReturns
  <2>4. TypeOK'
    BY <1>1, <1>4, <1>7, <2>1 DEF TypeOK, AddReturns, pastVars
  <2>5. HostsAreKnown'
    BY <1>1, <1>7, <2>2, <2>3 DEF IInv, HostsAreKnown
  <2>6. CopiesArePulled'
    BY <1>1, <1>7, <2>2 DEF IInv, CopiesArePulled, Pulled
  <2>7. RebuildsAreCounted'
    BY <1>1, <1>7, <2>1, <2>2 DEF RebuildsAreCounted, Saves, SavedIsSound, pastVars
  <2>8. CopiesAreOwed'
    BY <1>1, <1>4, <1>7, <2>1, <2>2 DEF CopiesAreOwed, OwedIsRecorded, Saves
  <2>. QED
    BY <2>1, <2>4, <2>5, <2>6, <2>7, <2>8 DEF IInv
<1>8. CASE AddReturns(c, h) /\ Goes(c, "delete") /\ UNCHANGED <<row, rebuilt, saved, seen>>
  <2>1. todo' = [todo EXCEPT ![c] = todo[c] \ {h}]
    BY <1>8 DEF TypeOK, AddReturns
  <2>2. /\ "delete" \in Awaits \ {"off"}
        /\ "delete" \notin {"refresh", "verify", "session", "capture", "reguide"}
    BY DEF Awaits
  <2>3. todo[c] \ {h} \in SUBSET registered /\ todo[c] \ {h} \subseteq saved.pending
    BY <1>2
  <2>. QED
    BY <1>1, <1>4, <1>8, <2>1, <2>2, <2>3, GoingOnKeepsInv
<1>. QED
  BY <1>1, <1>6, <1>7, <1>8

LEMMA ListKeepsInv ==
  ASSUME IInv, NEW c \in Callers, List(c)
  PROVE  IInv'
<1>. DEFINE missing == row[c].pending \ hosts
<1>. TypeOK /\ SavedIsSound /\ WorldTypes
  BY SavedSound DEF IInv
<1>1. /\ at[c] = "list" /\ Saves(c) /\ at[c] # "off"
      /\ UNCHANGED <<registered, hosts, guide, lineup, watching, failing, rebuilds>>
  BY DEF List, Saves, embyVars, pastVars
<1>2. /\ row[c] \in Rows /\ rebuilds <= row[c].failures
      /\ row[c].pending \subseteq registered
      /\ registered \ hosts \subseteq row[c].pending
  BY <1>1, CopySound
<1>3. WorldTypes' /\ registered \ hosts' \subseteq saved.pending
  BY <1>1 DEF WorldTypes, SavedIsSound, OwedIsRecorded
<1>4. CASE Throws(c)
  BY <1>1, <1>3, <1>4, ThrowKeepsInv DEF pastVars
<1>5. CASE missing = {} /\ saved' = [row[c] EXCEPT !.pending = {}] /\ Returns(c)
  <2>1. /\ saved' \in Rows /\ saved'.fp = row[c].fp /\ saved'.pending = {}
        /\ saved'.failures = row[c].failures
    BY <1>2, <1>5 DEF Rows
  <2>2. registered \ hosts' \subseteq saved'.pending /\ rebuilds' <= saved'.failures
    BY <1>1, <1>2, <1>5, <2>1
  <2>. QED
    BY <1>1, <1>3, <1>5, <2>1, <2>2, SavingKeepsInv
<1>6. ASSUME NEW await \in {"reguide", "readd"}, Goes(c, await),
             await = "reguide" => missing = {},
             todo' = [todo EXCEPT ![c] = missing], UNCHANGED <<saved, row, seen, rebuilt>>
      PROVE  IInv'
  <2>1. missing \in SUBSET registered /\ hosts' \subseteq registered
    BY <1>1, <1>2 DEF WorldTypes
  <2>2. await = "reguide" => registered \subseteq hosts'
    BY <1>1, <1>2, <1>6
  <2>3. /\ await \in Awaits \ {"off"}
        /\ await \notin {"refresh", "verify", "session", "capture", "delete", "add"}
    BY DEF Awaits
  <2>4. UNCHANGED pastVars /\ registered \ hosts' \subseteq row[c].pending
    BY <1>1, <1>2 DEF pastVars
  <2>. HIDE DEF missing
  <2>. QED
    BY <1>1, <1>3, <1>6, <2>1, <2>2, <2>3, <2>4, GoingOnKeepsInv
<1>. QED
  BY <1>4, <1>5, <1>6 DEF List

\* The breaker trips on a re-add that failed; what is owed stays on the row.
LEMMA TrippingKeepsInv ==
  ASSUME IInv, NEW c \in Callers, Saves(c), Returns(c),
         UNCHANGED <<registered, guide, lineup, pastVars>>, WorldTypes',
         saved' = [row[c] EXCEPT !.failures = MAX_READD_FAILURES],
         registered \ hosts' \subseteq row[c].pending
  PROVE  IInv'
<1>1. row[c] \in Rows /\ rebuilds <= row[c].failures /\ rebuilds \in 0 .. MAX_READD_FAILURES + 1
  BY CopySound DEF IInv, TypeOK
<1>2. /\ saved' \in Rows /\ saved'.fp = row[c].fp /\ saved'.pending = row[c].pending
      /\ saved'.failures = MAX_READD_FAILURES
  BY <1>1, Bounds DEF Rows
<1>3. rebuilds' <= saved'.failures
  BY <1>1, <1>2, RowFields, ConvergeAssumption DEF ConvergeAssumption, pastVars
<1>. QED
  BY <1>2, <1>3, SavingKeepsInv

LEMMA ReaddKeepsInv ==
  ASSUME IInv, NEW c \in Callers, Readd(c)
  PROVE  IInv'
<1>. TypeOK /\ SavedIsSound /\ WorldTypes
  BY SavedSound DEF IInv
<1>1. PICK h \in todo[c] :
        /\ at[c] = "readd"
        /\ \/ /\ AddReturns(c, h)
              /\ Goes(c, IF todo[c] = {h} THEN "confirm" ELSE "readd")
              /\ UNCHANGED <<saved, row, seen, rebuilt>>
           \/ AddFails(c, h, row[c])
        /\ UNCHANGED <<registered, guide, lineup, watching, pastVars>>
  BY DEF Readd
<1>2. Saves(c) /\ at[c] # "off" /\ todo[c] \in SUBSET registered
  BY <1>1 DEF IInv, HostsAreKnown, Saves
<1>3. hosts' \in {hosts, hosts \cup {h}}
  BY <1>1 DEF AddReturns, AddFails
<1>4. /\ registered \ hosts' \subseteq saved.pending /\ registered \ hosts' \subseteq row[c].pending
      /\ hosts' \subseteq registered
  BY <1>1, <1>2, <1>3, CopySound DEF SavedIsSound, OwedIsRecorded, WorldTypes
<1>5. WorldTypes'
  BY <1>1, <1>4 DEF WorldTypes, pastVars
<1>6. CASE AddFails(c, h, row[c])
  BY <1>1, <1>2, <1>4, <1>5, <1>6, TrippingKeepsInv DEF AddFails
<1>7. ASSUME NEW await \in {"confirm", "readd"}, AddReturns(c, h), Goes(c, await),
             UNCHANGED <<saved, row, seen, rebuilt>>
      PROVE  IInv'
  <2>1. todo' = [todo EXCEPT ![c] = todo[c] \ {h}] /\ todo[c] \ {h} \in SUBSET registered
    BY <1>2, <1>7 DEF TypeOK, AddReturns
  <2>2. /\ await \in Awaits \ {"off"}
        /\ await \notin {"refresh", "verify", "session", "capture", "reguide", "delete", "add"}
    BY DEF Awaits
  <2>. QED
    BY <1>1, <1>2, <1>4, <1>7, <2>1, <2>2, GoingOnKeepsInv
<1>. QED
  BY <1>1, <1>6, <1>7

LEMMA ConfirmKeepsInv ==
  ASSUME IInv, NEW c \in Callers, Confirm(c)
  PROVE  IInv'
<1>. TypeOK /\ SavedIsSound /\ WorldTypes
  BY SavedSound DEF IInv
<1>1. /\ at[c] = "confirm" /\ Saves(c) /\ at[c] # "off"
      /\ UNCHANGED <<registered, hosts, guide, lineup, watching, pastVars>>
  BY DEF Confirm, Saves, embyVars
<1>2. registered \ hosts' \subseteq row[c].pending /\ registered \ hosts' \subseteq saved.pending
  BY <1>1, CopySound DEF SavedIsSound, OwedIsRecorded
<1>3. WorldTypes'
  BY <1>1 DEF WorldTypes, pastVars
<1>4. CASE Throws(c)
  BY <1>1, <1>2, <1>3, <1>4, ThrowKeepsInv
<1>5. CASE AllBack(c) /\ Goes(c, "reguide") /\ UNCHANGED <<saved, row, seen, todo, rebuilt>>
  <2>1. todo' = [todo EXCEPT ![c] = todo[c]] /\ todo[c] \in SUBSET registered
    BY <1>5 DEF IInv, TypeOK, HostsAreKnown
  <2>2. registered \subseteq hosts' /\ hosts' \subseteq registered
    BY <1>1, <1>2, <1>5 DEF AllBack, WorldTypes
  <2>3. "reguide" \in Awaits \ {"off"}
    BY DEF Awaits
  <2>. QED
    BY <1>1, <1>2, <1>5, <2>1, <2>2, <2>3, GoingOnKeepsInv
<1>6. CASE saved' = [row[c] EXCEPT !.failures = MAX_READD_FAILURES] /\ Returns(c)
  BY <1>1, <1>2, <1>3, <1>6, TrippingKeepsInv
<1>. QED
  BY <1>4, <1>5, <1>6 DEF Confirm

LEMMA ReguideKeepsInv ==
  ASSUME IInv, NEW c \in Callers, Reguide(c)
  PROVE  IInv'
<1>. TypeOK /\ SavedIsSound /\ WorldTypes
  BY SavedSound DEF IInv
<1>1. /\ at[c] = "reguide" /\ Saves(c) /\ Returns(c) /\ guide' \in {guide, lineup}
      /\ UNCHANGED <<registered, hosts, lineup, watching, failing, rebuilds>>
  BY DEF Reguide, Saves, pastVars
<1>2. row[c] \in Rows /\ rebuilds <= row[c].failures /\ registered \subseteq hosts
  BY <1>1, CopySound DEF IInv, CopiesAreOwed
<1>3. /\ saved' \in Rows /\ saved'.fp = row[c].fp /\ saved'.pending = {}
      /\ saved'.failures = row[c].failures
  BY <1>2 DEF Reguide, Rows, Ages
<1>4. WorldTypes'
  BY <1>1 DEF WorldTypes
<1>. QED
  BY <1>1, <1>2, <1>3, <1>4, SavingKeepsInv

-----------------------------------------------------------------------------
(* The steps that come in between.                                         *)

LEMMA ResetKeepsInv ==
  ASSUME IInv, ResetAttention
  PROVE  IInv'
<1>. TypeOK /\ SavedIsSound
  BY SavedSound DEF IInv
<1>1. /\ UNCHANGED <<at, row, seen, todo, rebuilt, registered, hosts, guide, lineup, watching,
                     failing>>
      /\ rebuilds' = 0
  BY DEF ResetAttention, passVars, embyVars
<1>2. /\ saved' \in Rows /\ saved'.fp = saved.fp /\ saved'.pending = saved.pending
      /\ saved'.failures = 0
  BY Bounds, NewRowType DEF ResetAttention, SavedIsSound, Rows
<1>3. \A d \in Callers : row[d].failures \in Nat
  BY RowFields, ConvergeAssumption DEF TypeOK, ConvergeAssumption
<1>4. TypeOK'
  BY <1>1, <1>2, ConvergeAssumption DEF TypeOK, ConvergeAssumption
<1>5. HostsAreKnown' /\ OneInFlight'
  BY <1>1, <1>2 DEF IInv, HostsAreKnown, OneInFlight
<1>6. CopiesArePulled'
  BY <1>1, <1>2 DEF IInv, CopiesArePulled, Pulled
<1>7. RebuildsAreCounted'
  BY <1>1, <1>2, <1>3, ConvergeAssumption
  DEF IInv, RebuildsAreCounted, Saves, Tripped, ConvergeAssumption
<1>8. CopiesAreOwed'
  BY <1>1, <1>2 DEF IInv, CopiesAreOwed, OwedIsRecorded, Saves
<1>. QED
  BY <1>4, <1>5, <1>6, <1>7, <1>8 DEF IInv

LEMMA CrashKeepsInv ==
  ASSUME IInv, Crash
  PROVE  IInv'
<1>. TypeOK /\ SavedIsSound
  BY SavedSound DEF IInv
<1>1. /\ UNCHANGED <<saved, registered, hosts, guide, lineup, watching, failing, rebuilds>>
      /\ at' = [c \in Callers |-> "off"] /\ row' = [c \in Callers |-> NewRow]
      /\ seen' = [c \in Callers |-> 0] /\ todo' = [c \in Callers |-> {}]
      /\ rebuilt' = [c \in Callers |-> FALSE]
  BY DEF Crash, embyVars, pastVars
<1>2. NewRow.fp = 0 /\ NewRow.pending = {}
  BY DEF NewRow
<1>3. TypeOK'
  BY <1>1, NewRowType, Bounds DEF TypeOK, Awaits
<1>4. HostsAreKnown' /\ OneInFlight'
  BY <1>1, <1>2 DEF IInv, HostsAreKnown, OneInFlight
<1>5. CopiesArePulled'
  <2>1. guide \in Nat /\ lineup \in Nat /\ lineup > 0 /\ Pulled(saved) /\ guide <= lineup
    BY ConvergeAssumption DEF IInv, TypeOK, CopiesArePulled, ConvergeAssumption
  <2>. QED
    BY <1>1, <1>2, <2>1 DEF CopiesArePulled, Pulled
<1>6. RebuildsAreCounted' /\ CopiesAreOwed'
  BY <1>1 DEF RebuildsAreCounted, CopiesAreOwed, OwedIsRecorded, SavedIsSound, Saves
<1>. QED
  BY <1>3, <1>4, <1>5, <1>6 DEF IInv

\* A timestamp that grows older changes nothing else of a row.
LEMMA AgeingKeepsInv ==
  ASSUME IInv,
         UNCHANGED <<at, seen, todo, rebuilt, embyVars, pastVars>>,
         saved' \in Rows, row' \in [Callers -> Rows],
         /\ saved'.fp = saved.fp /\ saved'.pending = saved.pending
         /\ saved'.failures = saved.failures,
         \A d \in Callers : /\ row'[d].fp = row[d].fp /\ row'[d].pending = row[d].pending
                            /\ row'[d].failures = row[d].failures
  PROVE  IInv'
<1>1. UNCHANGED <<registered, hosts, guide, lineup, watching, failing, rebuilds>>
  BY DEF embyVars, pastVars
<1>2. TypeOK'
  BY <1>1 DEF IInv, TypeOK
<1>3. HostsAreKnown' /\ OneInFlight'
  BY <1>1 DEF IInv, HostsAreKnown, OneInFlight
<1>4. CopiesArePulled'
  BY <1>1 DEF IInv, CopiesArePulled, Pulled
<1>5. RebuildsAreCounted'
  BY <1>1 DEF IInv, RebuildsAreCounted, Saves, Tripped
<1>6. CopiesAreOwed'
  BY <1>1 DEF IInv, CopiesAreOwed, OwedIsRecorded, Saves
<1>. QED
  BY <1>2, <1>3, <1>4, <1>5, <1>6 DEF IInv

LEMMA VerifyWindowKeepsInv ==
  ASSUME IInv, VerifyWindowPasses
  PROVE  IInv'
<1>. DEFINE Aged(r) == IF r.refreshed = "fresh" THEN [r EXCEPT !.refreshed = "due"] ELSE r
<1>1. \A r \in Rows : /\ Aged(r) \in Rows /\ Aged(r).fp = r.fp /\ Aged(r).pending = r.pending
                      /\ Aged(r).failures = r.failures
  BY DEF Rows, Ages
<1>2. saved \in Rows /\ row \in [Callers -> Rows]
  BY DEF IInv, TypeOK
<1>3. /\ saved' = Aged(saved) /\ row' = [c \in Callers |-> Aged(row[c])]
      /\ UNCHANGED <<at, seen, todo, rebuilt, embyVars, pastVars>>
  BY DEF VerifyWindowPasses
<1>. HIDE DEF Aged
<1>. QED
  BY <1>1, <1>2, <1>3, AgeingKeepsInv

LEMMA CooldownKeepsInv ==
  ASSUME IInv, CooldownPasses
  PROVE  IInv'
<1>. DEFINE Cooled(r) == [r EXCEPT !.recent = FALSE]
<1>1. \A r \in Rows : /\ Cooled(r) \in Rows /\ Cooled(r).fp = r.fp
                      /\ Cooled(r).pending = r.pending /\ Cooled(r).failures = r.failures
  BY DEF Rows
<1>2. saved \in Rows /\ row \in [Callers -> Rows]
  BY DEF IInv, TypeOK
<1>3. /\ saved' = Cooled(saved) /\ row' = [c \in Callers |-> Cooled(row[c])]
      /\ UNCHANGED <<at, seen, todo, rebuilt, embyVars, pastVars>>
  BY DEF CooldownPasses
<1>. HIDE DEF Cooled
<1>. QED
  BY <1>1, <1>2, <1>3, AgeingKeepsInv

\* A new edition takes nothing from what Emby has pulled.
LEMMA LineupChangesKeepsInv ==
  ASSUME IInv, LineupChanges
  PROVE  IInv'
<1>. TypeOK
  BY DEF IInv
<1>1. /\ UNCHANGED <<saved, at, row, seen, todo, rebuilt, registered, hosts, guide, watching,
                     failing, rebuilds>>
      /\ lineup' = lineup + 1 /\ lineup' \in 0 .. MaxLineup /\ lineup \in Nat
  BY ConvergeAssumption
  DEF TypeOK, LineupChanges, passVars, pastVars, ConvergeAssumption
<1>2. TypeOK'
  BY <1>1 DEF TypeOK
<1>3. HostsAreKnown' /\ OneInFlight' /\ RebuildsAreCounted' /\ CopiesAreOwed'
  BY <1>1 DEF IInv, HostsAreKnown, OneInFlight, RebuildsAreCounted, CopiesAreOwed,
              OwedIsRecorded, Saves
<1>4. CopiesArePulled'
  <2>1. guide \in Nat /\ \A d \in Callers : seen[d] \in Nat
    BY ConvergeAssumption DEF TypeOK, ConvergeAssumption
  <2>. QED
    BY <1>1, <2>1 DEF IInv, CopiesArePulled, Pulled
<1>. QED
  BY <1>2, <1>3, <1>4 DEF IInv

LEMMA AdminRegistersKeepsInv ==
  ASSUME IInv, NEW h \in Hosts, AdminRegisters(h)
  PROVE  IInv'
<1>1. /\ UNCHANGED <<saved, at, row, seen, todo, rebuilt, guide, lineup, watching, failing,
                     rebuilds>>
      /\ registered' = registered \cup {h} /\ hosts' = hosts \cup {h}
  BY DEF AdminRegisters, passVars, pastVars
<1>2. TypeOK'
  BY <1>1 DEF IInv, TypeOK
<1>3. HostsAreKnown'
  BY <1>1 DEF IInv, HostsAreKnown
<1>4. OneInFlight' /\ CopiesArePulled' /\ RebuildsAreCounted'
  BY <1>1 DEF IInv, OneInFlight, CopiesArePulled, Pulled, RebuildsAreCounted, Saves
<1>5. CopiesAreOwed'
  BY <1>1 DEF IInv, CopiesAreOwed, OwedIsRecorded, Saves
<1>. QED
  BY <1>2, <1>3, <1>4, <1>5 DEF IInv

-----------------------------------------------------------------------------
(* The invariant and what follows from it.                                 *)

LEMMA InitInv == Init => IInv
<1>. SUFFICES ASSUME Init PROVE IInv
  OBVIOUS
<1>1. NewRow.fp = 0 /\ NewRow.pending = {} /\ NewRow.failures = 0
  BY DEF NewRow
<1>2. TypeOK
  <2>1. PassTypes
    BY NewRowType, Bounds DEF Init, PassTypes, Awaits
  <2>2. WorldTypes
    <3>1. 0 \in 0 .. MAX_READD_FAILURES + 1
      BY ConvergeAssumption DEF ConvergeAssumption
    <3>2. registered \subseteq Hosts /\ hosts \subseteq registered
      BY DEF Init
    <3>. QED
      BY <3>1, <3>2, NewRowType, Bounds DEF Init, WorldTypes
  <2>. QED
    BY <2>1, <2>2, NewRowType DEF Init, TypeOK, PassTypes, WorldTypes
<1>3. OneInFlight /\ HostsAreKnown /\ CopiesArePulled /\ RebuildsAreCounted
  BY <1>1 DEF Init, OneInFlight, HostsAreKnown, CopiesArePulled, Pulled, RebuildsAreCounted,
              Saves
<1>4. CopiesAreOwed
  BY <1>1 DEF Init, CopiesAreOwed, OwedIsRecorded, Saves
<1>. QED
  BY <1>2, <1>3, <1>4 DEF IInv

LEMMA StepInv == IInv /\ [Next]_vars => IInv'
<1>. SUFFICES ASSUME IInv, [Next]_vars PROVE IInv'
  OBVIOUS
<1>1. ASSUME NEW c \in Callers, Begin(c) PROVE IInv'
  BY <1>1, BeginKeepsInv
<1>2. ASSUME NEW c \in Callers, PassStep(c) PROVE IInv'
  BY <1>2, RefreshKeepsInv, VerifyKeepsInv, CheckSessionKeepsInv, CaptureKeepsInv,
     DeleteKeepsInv, AddKeepsInv, ListKeepsInv, ReaddKeepsInv, ConfirmKeepsInv,
     ReguideKeepsInv DEF PassStep
<1>3. CASE ResetAttention
  BY <1>3, ResetKeepsInv
<1>4. CASE Crash
  BY <1>4, CrashKeepsInv
<1>5. CASE VerifyWindowPasses
  BY <1>5, VerifyWindowKeepsInv
<1>6. CASE CooldownPasses
  BY <1>6, CooldownKeepsInv
<1>7. CASE LineupChanges
  BY <1>7, LineupChangesKeepsInv
<1>8. CASE SessionsChange
  BY <1>8 DEF SessionsChange, passVars, pastVars, IInv, TypeOK, OneInFlight, HostsAreKnown,
     CopiesArePulled, Pulled, RebuildsAreCounted, CopiesAreOwed, OwedIsRecorded, Saves
<1>9. ASSUME NEW h \in Hosts, AdminRegisters(h) PROVE IInv'
  BY <1>9, AdminRegistersKeepsInv
<1>10. CASE UNCHANGED vars
  BY <1>10 DEF vars, passVars, embyVars, pastVars, IInv, TypeOK, OneInFlight, HostsAreKnown,
     CopiesArePulled, Pulled, RebuildsAreCounted, CopiesAreOwed, OwedIsRecorded, Saves
<1>. QED
  BY <1>1, <1>2, <1>3, <1>4, <1>5, <1>6, <1>7, <1>8, <1>9, <1>10 DEF Next

LEMMA Invariance == Spec => []IInv
BY InitInv, StepInv, PTL DEF Spec

\* The ladder's row, the locals of its passes and Emby's hosts keep their types.
THEOREM ConvergeTypes == Spec => []TypeOK
<1>1. IInv => TypeOK
  BY DEF IInv
<1>. QED
  BY Invariance, <1>1, PTL

\* sync_state is true of Emby at every moment: whatever a rebuild deleted is on record
\* until it is back, and Emby has pulled our lineup since the edition was read whose
\* fingerprint is banked, with crashes, lost answers and calls that half worked in
\* between.  Nothing is assumed of the fingerprints: any two editions may share one.
THEOREM RowIsTrue == Spec => []RecordIsTrue
<1>1. IInv => RecordIsTrue
  BY DEF IInv, CopiesAreOwed, CopiesArePulled, Pulled, RecordIsTrue, BankedIsPulled
<1>. QED
  BY Invariance, <1>1, PTL

\* No more than MAX_READD_FAILURES rebuilds run between two verified lineups, however
\* often the process dies in the middle of one.
THEOREM BreakerStops == Spec => []BreakerHolds
<1>1. IInv => BreakerHolds
  <2>. SUFFICES ASSUME IInv PROVE BreakerHolds
    OBVIOUS
  <2>1. saved.failures \in 0 .. MAX_READD_FAILURES /\ rebuilds \in 0 .. MAX_READD_FAILURES + 1
    BY RowFields DEF IInv, TypeOK
  <2>2. rebuilds <= saved.failures
    BY DEF IInv, RebuildsAreCounted
  <2>. QED
    BY <2>1, <2>2, ConvergeAssumption DEF BreakerHolds, ConvergeAssumption
<1>. QED
  BY Invariance, <1>1, PTL
=============================================================================
