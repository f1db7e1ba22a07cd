------------------------------ MODULE MCUpkeep -------------------------------
(***************************************************************************)
(* The loops that keep the catalogue, the guide, the media servers and the *)
(* process itself in order, for TLC.  They share no state: a run chooses   *)
(* the part that moves, the others rest where they begin.                  *)
(***************************************************************************)
EXTENDS Integers, Sequences, FiniteSets

CONSTANTS
  MAX_EDITS, MAX_FAULTS, None,
  Entries, Names,
  Runs,
  Titles, Rebuilds,
  Eps, Grabs, MAX_ATTEMPTS, MAX_NOW,
  Troubled, STALE,
  Channels, MAX_K, Versions, REVERTS,
  Procs, MAX_TIMERS,
  Slots, Feeds, Requests, ATTEMPTS, BEHIND,
  Hosts, Users, Passes,
  Logins, Broadcasts, Polls, Off, Silent,
  MIN_PROBED, MAX_PROBES, MAX_ROUNDS,
  Loops, MAX_EXITS,
  Movies, Shows, Syncs, BATCH

\* What the parts rely on: counts are numbers, what is taken in turn is numbered from 1,
\* and nothing is taken for the value that says there is none.
ASSUME UpkeepAssumption ==
  /\ {MAX_EDITS, MAX_FAULTS, STALE, MAX_K, MAX_TIMERS, BEHIND, MIN_PROBED, MAX_PROBES,
      MAX_ROUNDS, MAX_EXITS, MAX_ATTEMPTS} \subseteq Nat
  /\ {MAX_NOW, ATTEMPTS} \subseteq Nat \ {0}
  /\ Entries = {1, 2} /\ {1, 2} \subseteq Names
  /\ \A S \in {Names, Users, Logins} : IsFiniteSet(S) /\ S = 1..Cardinality(S)
  /\ None \notin Runs /\ None \notin {"epg", "lineup", "vod"}
  /\ 0 \notin Eps /\ 1 \in Eps /\ Grabs \subseteq {1}
  /\ Troubled \subseteq {"a", "b"}
  /\ 1 \in Versions /\ Versions \subseteq Nat /\ REVERTS \in BOOLEAN
  /\ None \notin Procs
  /\ Slots \subseteq Nat /\ 1 \in Feeds /\ Feeds \subseteq Nat \ {0}
  /\ 1 \in Hosts /\ Hosts \subseteq Nat \ {0}
  /\ 1 \in Logins /\ Broadcasts # {}
  /\ Off # Silent /\ {Off, Silent, None} \cap Broadcasts = {} /\ None # Off
  /\ Loops \subseteq Nat \ {0}

VARIABLES
  part,
  listing, fetched, stream, category, number, isHidden, hiddenReason, hiddenCategories,
  watched, byHand, patches,
  armed, onRun, due, job, doing, pred, chain,
  titles, real, reachable, files, rebuild, steady,
  aired, firstSeen, cacheAge, now, fetch, answer, strms, nzb, attempts, grabbing,
  up, tuner, state, attention, owed, at, step, alert, stuck, told, hung, stale, restarts,
  content, known, notFound, waiting, phase, pending, batch, exists, shown, indexed, indexFresh,
  row, autostart, booting, proc, status, stopping, bridge, timers, helper, listens, monitor, threw, faults,
  feeds, table, hour, queue, reading, attempt, unread, parsed, said, snap, cached, changes,
  lineup, starred, broken, rows, server, asked, got, kept, edits,
  air, live, customNow, login, found, answers, pushTimer, push, line, missed, was, airings,
  verdict, cleanRounds, rounds,
  wedged, overdue, strikes, leaving, sending, sent, failed, exits,
  matched, source, synced,
  offered, vodRows, vodSync, moves

\* A provider with two entries and two groups: "ev" is the scoped one and the second block.
NotListed == [name |-> 0, group |-> "none"]
Entry(n, g) == [name |-> n, group |-> g]
Offers == {<<NotListed, NotListed>>, <<Entry(2, "ev"), Entry(1, "live")>>,
           <<Entry(2, "ev"), NotListed>>}

\* "Sky Sport 1" and "Sky Sports 2", which may be one character apart from "Sky Sports 1",
\* and an entry of another name whose EPG id is the one of "Sky Sports 1".
Sky(rest) == <<"s", "k", "y", "s", "p", "o", "r", "t">> \o rest
Named == <<Sky(<<"1">>), Sky(<<"s", "2">>), Sky(<<"s", "1">>), <<"m", "a", "i", "n">>>>
Tagged == <<None, None, None, [slug |-> Named[3], country |-> "uk"]>>
Countries == [e \in 1..4 |-> "uk"]
AnyOrder(S) == {order \in [1..3 -> S] : \A i, k \in 1..3 : i # k => order[i] # order[k]}

Ing == INSTANCE Ingest WITH Categories <- {"live", "ev"}, Scope <- {"ev"},
         Block <- [live |-> 1, ev |-> 2], Listings <- Offers, edits <- patches, MAX_EDITS <- 2
Job == INSTANCE Jobs
Mir == INSTANCE Mirror WITH listed <- titles
Eps1 == INSTANCE Episodes WITH EpisodeOf <- <<1>>
Rec == INSTANCE Reconciler WITH Servers <- <<"a", "b">>, wedged <- hung, strikes <- restarts
Gp  == INSTANCE GuidePush
Tun == INSTANCE Tunnel
Epg == INSTANCE Guide WITH listed <- feeds, batch <- parsed, told <- said, edits <- changes
Fav == INSTANCE Favorites WITH Servers <- Hosts, at <- server
Liv == INSTANCE Liveness WITH Titles <- Broadcasts, at <- login, said <- answers,
         shown <- line, edits <- airings
Ver == INSTANCE Verdicts
Dog == INSTANCE Watchdog
Mat == INSTANCE Matcher WITH Listed <- 1..4, Slug <- Named, Country <- Countries,
         TvgId <- Tagged, Orders <- AnyOrder({1, 2, 3}) \cup AnyOrder({1, 2, 4}),
         channels <- matched, stream <- source, last <- synced

\* The names are chosen so that no EPG id belies the numbers in the name of its entry, as
\* far as an entry without one is near enough to be taken for the same channel.
ASSUME NamesAssumption ==
  /\ None \notin Mat!Ids
  /\ \A e, f \in 1..4 :
       /\ Tagged[e] # None /\ Tagged[f] = None /\ Mat!SimilarEnough(Named[f], Named[e])
       /\ Mat!DigitRuns(Named[e]) = Mat!DigitRuns(Named[f])
       => Mat!DigitRuns(Tagged[e].slug) = Mat!DigitRuns(Named[e])

Cat == INSTANCE Catalog WITH offer <- offered, table <- vodRows, sync <- vodSync,
         changes <- moves, MAX_CHANGES <- 1

ingestVars == <<listing, fetched, stream, category, number, isHidden, hiddenReason,
                hiddenCategories, watched, byHand, patches>>
jobVars == <<armed, onRun, due, job, doing, pred, chain>>
mirrorVars == <<titles, real, reachable, files, rebuild, steady>>
episodeVars == <<aired, firstSeen, cacheAge, now, fetch, answer, strms, nzb, attempts, grabbing>>
reconcilerVars == <<up, tuner, state, attention, owed, at, step, alert, stuck, told, hung,
                    stale, restarts>>
pushVars == <<content, known, notFound, waiting, phase, pending, batch, exists, shown, indexed,
              indexFresh>>
tunnelVars == <<row, autostart, booting, proc, status, stopping, bridge, timers, helper, listens,
                monitor, threw, faults>>
guideVars == <<feeds, table, hour, queue, reading, attempt, unread, parsed, said, snap, cached,
               changes>>
favoriteVars == <<lineup, starred, broken, rows, server, asked, got, kept, edits>>
livenessVars == <<air, live, customNow, login, found, answers, pushTimer, push, line, missed, was,
                  airings>>
verdictVars == <<verdict, cleanRounds, rounds>>
dogVars == <<wedged, overdue, strikes, leaving, sending, sent, failed, exits>>
matcherVars == <<matched, source, synced>>
catalogVars == <<offered, vodRows, vodSync, moves>>

allVars == <<part, ingestVars, jobVars, mirrorVars, episodeVars, reconcilerVars, pushVars,
             tunnelVars, guideVars, favoriteVars, livenessVars, verdictVars, dogVars,
             matcherVars, catalogVars>>

Parts == {"ingest", "jobs", "mirror", "episodes", "reconciler", "push", "tunnel", "guide",
          "favorites", "liveness", "verdicts", "watchdog", "matcher", "catalog"}

AllInit ==
  /\ part \in Parts
  /\ Ing!Init /\ Job!Init /\ Mir!Init /\ Eps1!Init /\ Rec!Init /\ Gp!Init /\ Tun!Init
  /\ Epg!Init /\ Fav!Init /\ Liv!Init /\ Ver!Init /\ Dog!Init
  /\ Mat!Init /\ Cat!Init
  /\ part # "ingest"    => listing = <<NotListed, NotListed>>
  /\ part # "tunnel"    => autostart
  /\ part # "favorites" => \A s \in Hosts : starred[s] = {}
  /\ part # "liveness"  => \A l \in Logins : air[l] = Off
  /\ part # "catalog"   => vodRows = offered

AllNext ==
  /\ UNCHANGED part
  /\ (part = "ingest" /\ Ing!Next) \/ (part # "ingest" /\ UNCHANGED ingestVars)
  /\ (part = "jobs" /\ Job!Next) \/ (part # "jobs" /\ UNCHANGED jobVars)
  /\ (part = "mirror" /\ Mir!Next) \/ (part # "mirror" /\ UNCHANGED mirrorVars)
  /\ (part = "episodes" /\ Eps1!Next) \/ (part # "episodes" /\ UNCHANGED episodeVars)
  /\ (part = "reconciler" /\ Rec!Next) \/ (part # "reconciler" /\ UNCHANGED reconcilerVars)
  /\ (part = "push" /\ Gp!Next) \/ (part # "push" /\ UNCHANGED pushVars)
  /\ (part = "tunnel" /\ Tun!Next) \/ (part # "tunnel" /\ UNCHANGED tunnelVars)
  /\ (part = "guide" /\ Epg!Next) \/ (part # "guide" /\ UNCHANGED guideVars)
  /\ (part = "favorites" /\ Fav!Next) \/ (part # "favorites" /\ UNCHANGED favoriteVars)
  /\ (part = "liveness" /\ Liv!Next) \/ (part # "liveness" /\ UNCHANGED livenessVars)
  /\ (part = "verdicts" /\ Ver!Next) \/ (part # "verdicts" /\ UNCHANGED verdictVars)
  /\ (part = "watchdog" /\ Dog!Next) \/ (part # "watchdog" /\ UNCHANGED dogVars)
  /\ (part = "matcher" /\ Mat!Next) \/ (part # "matcher" /\ UNCHANGED matcherVars)
  /\ (part = "catalog" /\ Cat!Next) \/ (part # "catalog" /\ UNCHANGED catalogVars)

-----------------------------------------------------------------------------
\* The variables of the part that moves.
moving == CASE part = "ingest" -> ingestVars [] part = "jobs" -> jobVars
            [] part = "mirror" -> mirrorVars [] part = "episodes" -> episodeVars
            [] part = "reconciler" -> reconcilerVars [] part = "push" -> pushVars
            [] part = "tunnel" -> tunnelVars [] part = "guide" -> guideVars
            [] part = "favorites" -> favoriteVars [] part = "liveness" -> livenessVars
            [] part = "verdicts" -> verdictVars [] part = "watchdog" -> dogVars
            [] part = "matcher" -> matcherVars [] part = "catalog" -> catalogVars

\* What each part is fair to.  Only one part moves, so that the i-th actions of all of them
\* can share a conjunct: the i-th thing a scheduler or a timer of the part brings about ...
Turn(i) ==
  /\ part' = part
  /\ CASE part = "ingest" ->
            /\ i \in 1..2
            /\ LET k == <<"full", "scoped">>[i] IN Ing!Fetch(k) \/ Ing!Apply(k)
       [] part = "jobs" ->
            \/ /\ i \in Runs
               /\ Job!Start(i) \/ \E ok \in BOOLEAN : Job!Ends(i, ok) \/ Job!Finish(i, ok)
            \/ i = 4 /\ \E r \in Runs : Job!Tick("epg", r)
            \/ i = 5 /\ \E r \in Runs : Job!Tick("sync", r)
       [] part = "mirror" -> i \in Rebuilds /\ (Mir!Goes(i) \/ Mir!Begin(i))
       [] part = "episodes" ->
            \/ i = 1 /\ (Eps1!LibraryAsks \/ Eps1!LibraryMirrors)
            \/ i = 2 /\ Eps1!Ages
            \/ i = 3 /\ \E g \in Grabs : Eps1!Take(g) \/ Eps1!Resolve(g)
       [] part = "reconciler" ->
            \/ i = 1 /\ Rec!Tick
            \/ i = 2 /\ Rec!Stale
            \/ i = 3 /\ Rec!Strike
            \/ i \in 4..5 /\ Rec!Steps(<<"a", "b">>[i - 3])
       [] part = "push" ->
            \/ i = 1 /\ Gp!Begin
            \/ i = 2 /\ \E c \in Channels : Gp!Elapse(c)
            \/ i = 3 /\ \E c \in Channels : Gp!Lost(c)
       [] part = "tunnel" ->
            \/ i = 5 /\ Tun!Refire
            \/ i \in Procs /\ (Tun!Answer(i) \/ Tun!Heed(i) \/ Tun!Loop(i))
            \/ i - 2 \in Procs /\ Tun!Ends(i - 2)
       [] part = "guide" ->
            \/ i = 3 /\ Epg!Begin
            \/ i \in Slots /\ Epg!Parse(i)
            \/ i = 4 /\ (Epg!Done \/ Epg!Again \/ Epg!GiveUp)
       [] part = "favorites" ->
            i \in Passes /\ (Fav!Tick(i) \/ Fav!Answer(i) \/ Fav!Replace(i) \/ Fav!Throw(i))
       [] part = "liveness" ->
            \/ /\ i \in Polls
               /\ Liv!Tick(i) \/ \E ok \in BOOLEAN : Liv!Ask(i, ok) \/ Liv!Settle(i, ok)
            \/ i = 3 /\ Liv!Fire
            \/ i = 4 /\ Liv!Pushed
       [] part = "watchdog" ->
            \/ i \in Loops /\ (Dog!Beat(i) \/ Dog!Late(i))
            \/ i = 3 /\ \E c \in SUBSET Loops : Dog!Tick(c)
            \/ i = 4 /\ Dog!Exit
       [] part = "catalog" -> i = 1 /\ Cat!Step(1)
       [] OTHER -> FALSE

\* ... and the i-th answer it waits for, which comes if it is asked for again and again.
Answered(i) ==
  /\ part' = part
  /\ CASE part = "episodes" -> Eps1!Answer(<<"library", "grabs">>[i], aired)
       [] part = "reconciler" -> owed[<<"a", "b">>[i]] /\ Rec!Nudged(<<"a", "b">>[i], TRUE)
       [] part = "push" ->
            \/ i = 1 /\ Gp!Ping
            \/ i = 2 /\ \E c \in Channels : Gp!Written(c, TRUE) \/ Gp!Missing(c)
       [] part = "tunnel" -> Tun!Listen(i)
       [] part = "liveness" ->
            \E p \in Polls : login[p] = i /\ (Liv!Ask(p, TRUE) \/ Liv!Settle(p, TRUE))
       [] part = "catalog" -> i = 1 /\ Cat!Answered(1)
       [] OTHER -> FALSE

AllFairness == /\ \A i \in 1..5 : WF_moving(Turn(i))
               /\ \A i \in 1..2 : SF_moving(Answered(i))

AllSpec == AllInit /\ [][AllNext]_allVars /\ AllFairness

-----------------------------------------------------------------------------
\* The type invariants of all parts.
TypesOK == /\ Ing!TypeOK /\ Job!TypeOK /\ Mir!TypeOK /\ Eps1!TypeOK /\ Rec!TypeOK
           /\ Gp!TypeOK /\ Tun!TypeOK /\ Epg!TypeOK /\ Fav!TypeOK /\ Liv!TypeOK
           /\ Ver!TypeOK /\ Dog!TypeOK /\ Mat!TypeOK /\ Cat!TypeOK

\* What is recorded as done was done, by whoever reads it: no two channels share a number,
\* numbered siblings are not merged, one big job at a time, a guide fingerprint is known only
\* once Emby showed the rows, a served guide snapshot is the table's, a live mark was heard
\* from the platform, a provider's verdict follows from its rounds.  And nothing ends unseen:
\* no VPN helper runs that its entry does not hold, and the exit of the process was alerted.
RecordsAreTrue == /\ Ing!NumbersAreDistinct /\ Job!OneBigJob /\ Gp!KnownWasShown
                  /\ Epg!SnapshotIsTrue /\ Liv!MarksAreHeard /\ Ver!VerdictIsEarned
                  /\ Tun!NoHelperStrays /\ Dog!ExitIsTold /\ Mat!SiblingsStayApart

\* A sync changes what the provider changed and nothing else: numbers stick, hidden follows
\* category and streams, watched channels keep their streams, and a channel keeps the stream
\* that it is named after.
SyncIsFaithful == /\ Ing!NumbersStick /\ Ing!SyncedGuide /\ Ing!WatchedKeepsStreams
                  /\ Mat!FoundersStay

\* Nothing wanted is lost to a partial answer or a concurrent run: mirrored titles, cached
\* episodes, guide rows of the window, favourites.
NothingWantedIsLost == /\ Mir!WantedIsKept /\ Eps1!CacheIsKept /\ Epg!GuideStands
                       /\ Fav!NothingIsErased

\* What the world changed arrives in the end.
ChangesArrive ==
  /\ Ing!ListingArrives
  /\ Mir!MirrorSettles
  /\ Eps1!ShowFollows
  /\ Gp!GuideArrives
  /\ Fav!FavoritesFollow
  /\ Liv!LivenessFollows
  /\ Cat!CatalogFollows

\* What is asked for or owed ends (a due job, a sync of the guide, a grab, a deleted tuner
\* host), and what fails comes back or is told: tunnel, wedged loops, a server in trouble.
LoopsRecover ==
  /\ []<>(part # "jobs") \/ Job!DueIsRun
  /\ Epg!SyncsEnd
  /\ Eps1!GrabsSettle
  /\ Rec!OwedIsAdded /\ Rec!TroubleIsTold /\ Rec!WedgeIsEnded
  /\ Tun!TunnelComesBack
  /\ Dog!WedgeIsCured
=============================================================================
