----------------------------- MODULE MosaicProofs -----------------------------
(***************************************************************************)
(* Theorems about Mosaic for any channels, selections, viewers, processes  *)
(* and number of retry timers.                                             *)
(***************************************************************************)
EXTENDS Mosaic, TLAPS

\* A restart cycle has no process, and the retry handle is that of a timer that runs.
CycleIsAlone == /\ step # "idle" => cur = None
                /\ handle => retries > 0

\* The inputs are a function: one reading per tile of the grid.
InputsAreRead == inputs \in [DOMAIN inputs -> Channels \cup {None}]

\* What runs, or is about to be spawned with no restart behind it, is what is selected:
\* whoever changes the selection or stops the encode queues a cycle before it runs again.
DrawsPicked ==
  /\ step = "preparing" /\ ~queued /\ ~stopped => slots = Drawn(picked)
  /\ Grid!Running /\ ~queued => /\ layout = Drawn(picked) /\ slots = layout
                                /\ \A i \in DOMAIN inputs : inputs[i] \in {layout[i], None}

IInv == TypeOK /\ CycleIsAlone /\ InputsAreRead /\ DrawsPicked /\ NothingStrays

-----------------------------------------------------------------------------
(* The invariant in three parts that the steps disturb separately: the     *)
(* supervisor's, the picture's and the tiles'.                             *)

SupInv == /\ stopped \in BOOLEAN /\ queued \in BOOLEAN /\ handle \in BOOLEAN
          /\ watched \in BOOLEAN /\ failed \in BOOLEAN
          /\ step \in {"idle", "killing", "preparing"}
          /\ old \in Procs \cup {None} /\ cur \in Procs \cup {None}
          /\ state \in [Procs -> {"up", "out", "mute", "gone", "term"}]
          /\ retries \in 0 .. MAX_RETRIES
          /\ CycleIsAlone
          /\ Grid!NoStray

TileInv == /\ tile \in [Channels -> {"absent", "down", "up"}]
           /\ retired \subseteq Present
           /\ NoStrayTile

RestInv == /\ subs \subseteq Viewers /\ warm \in BOOLEAN /\ reaper \in BOOLEAN
           /\ InputsAreRead /\ DrawsPicked /\ ReaperIsArmed

LEMMA InvParts == IInv <=> SupInv /\ TileInv /\ RestInv
<1>1. (WantRunning \in BOOLEAN) /\ (InputsAreRead => Range(inputs) \subseteq Channels \cup {None})
  BY DEF WantRunning, InputsAreRead, Range
<1>. QED
  BY <1>1 DEF IInv, TypeOK, Grid!TypeOK, Grid!Live, SupInv, TileInv, RestInv, NothingStrays,
              Present

LEMMA PartsAgain == SupInv' /\ TileInv' /\ RestInv' => IInv'
BY InvParts, PTL

-----------------------------------------------------------------------------
(* What the supervisor's operations keep.                                  *)

\* Neither processes nor the watchdog move.
LEMMA KeepsNoStray ==
  ASSUME Grid!NoStray, UNCHANGED <<cur, state, watched>>
  PROVE  Grid!NoStray'
BY DEF Grid!NoStray

LEMMA RestartSup == SupInv /\ Grid!Restart => SupInv'
<1>. SUFFICES ASSUME SupInv, Grid!Restart PROVE SupInv'
  OBVIOUS
<1>1. Grid!NoStray'
  BY KeepsNoStray DEF SupInv, Grid!Restart
<1>. QED
  BY <1>1 DEF SupInv, CycleIsAlone, Grid!Restart

\* Stop and CycleBegins tell the current process to end and forget it.
LEMMA TerminatedIsNoStray ==
  ASSUME SupInv, cur' = None, state' = Grid!Terminated(cur)
  PROVE  /\ state' \in [Procs -> {"up", "out", "mute", "gone", "term"}]
         /\ Grid!NoStray'
BY MosaicAssumption
DEF MosaicAssumption, SupInv, Grid!Terminated, Grid!NoStray, Grid!Live

LEMMA StopSup == SupInv /\ Grid!Stop => SupInv'
<1>. SUFFICES ASSUME SupInv, Grid!Stop PROVE SupInv'
  OBVIOUS
<1>1. retries' \in 0 .. MAX_RETRIES /\ CycleIsAlone'
  BY MosaicAssumption DEF MosaicAssumption, SupInv, CycleIsAlone, Grid!Stop
<1>. QED
  BY <1>1, TerminatedIsNoStray DEF SupInv, Grid!Stop

LEMMA CycleSup ==
  SupInv /\ (Grid!CycleBegins \/ Grid!Killed \/ Grid!PrepareFails \/ Grid!StoppedMeanwhile
             \/ Grid!Spawns) => SupInv'
<1>1. SupInv /\ Grid!CycleBegins => SupInv'
  <2>. SUFFICES ASSUME SupInv, Grid!CycleBegins PROVE SupInv'
    OBVIOUS
  <2>1. state' \in [Procs -> {"up", "out", "mute", "gone", "term"}] /\ Grid!NoStray'
    BY TerminatedIsNoStray DEF Grid!CycleBegins
  <2>. QED
    BY <2>1 DEF SupInv, CycleIsAlone, Grid!CycleBegins
<1>2. ASSUME SupInv, Grid!Killed PROVE SupInv'
  <2>1. Grid!NoStray'
    BY <1>2, KeepsNoStray DEF SupInv, Grid!Killed
  <2>. QED
    BY <1>2, <2>1 DEF SupInv, CycleIsAlone, Grid!Killed
<1>3. ASSUME SupInv, Grid!PrepareFails \/ Grid!StoppedMeanwhile PROVE SupInv'
  <2>1. Grid!NoStray'
    BY <1>3, KeepsNoStray DEF SupInv, Grid!PrepareFails, Grid!StoppedMeanwhile
  <2>. QED
    <3>1. failed' \in BOOLEAN
      BY <1>3 DEF SupInv, Grid!PrepareFails, Grid!StoppedMeanwhile
    <3>2. step' = "idle" /\ UNCHANGED <<stopped, queued, old, cur, state, retries, handle, watched>>
      BY <1>3 DEF Grid!PrepareFails, Grid!StoppedMeanwhile
    <3>. QED
      BY <1>3, <2>1, <3>1, <3>2 DEF SupInv, CycleIsAlone
<1>4. ASSUME SupInv, Grid!Spawns PROVE SupInv'
  <2>1. PICK p \in Procs : cur' = p /\ state' = [state EXCEPT ![p] = "up"]
    BY <1>4 DEF Grid!Spawns
  <2>2. cur = None /\ watched' = TRUE
    BY <1>4 DEF SupInv, CycleIsAlone, Grid!Spawns
  <2>3. Grid!NoStray'
    BY <1>4, <2>1, <2>2, MosaicAssumption
    DEF MosaicAssumption, SupInv, Grid!NoStray, Grid!Live
  <2>4. state' \in [Procs -> {"up", "out", "mute", "gone", "term"}] /\ cur' \in Procs
    BY <1>4, <2>1 DEF SupInv
  <2>. QED
    BY <1>4, <2>2, <2>3, <2>4 DEF SupInv, CycleIsAlone, Grid!Spawns
<1>. QED
  BY <1>1, <1>2, <1>3, <1>4

LEMMA ProcSup ==
  ASSUME SupInv, NEW p \in Procs,
         \/ Grid!Output(p) \/ Grid!FallsSilent(p) \/ Grid!EndsAsTold(p)
  PROVE  SupInv'
<1>1. PICK s \in {"out", "mute", "gone"} :
        /\ state' = [state EXCEPT ![p] = s]
        /\ (s = "gone" /\ p # cur) \/ (s # "gone" /\ state[p] \in {"up", "out"})
        /\ UNCHANGED <<stopped, queued, step, old, cur, retries, handle, watched, failed>>
  BY DEF Grid!Output, Grid!FallsSilent, Grid!EndsAsTold
<1>2. \A q \in Procs : state'[q] \in {"up", "out", "mute"} <=> q = cur
  BY <1>1 DEF SupInv, Grid!NoStray, Grid!Live
<1>3. Grid!NoStray'
  BY <1>1, <1>2 DEF SupInv, Grid!NoStray, Grid!Live
<1>. QED
  BY <1>1, <1>3 DEF SupInv, CycleIsAlone

LEMMA TimerSup ==
  SupInv /\ (Grid!Crashes \/ Grid!RetryFires \/ Grid!WatchdogFires) => SupInv'
<1>1. ASSUME SupInv, Grid!Crashes PROVE SupInv'
  <2>1. Grid!NoStray'
    <3>1. \A p \in Procs : state'[p] \notin Grid!Live
      BY <1>1 DEF SupInv, Grid!Crashes, Grid!NoStray, Grid!Live
    <3>2. cur' = None
      BY <1>1 DEF Grid!Crashes
    <3>. QED
      BY <3>1, <3>2, MosaicAssumption DEF MosaicAssumption, Grid!NoStray
  <2>2. retries' \in 0 .. MAX_RETRIES /\ handle' \in BOOLEAN /\ (handle' => retries' > 0)
    <3>1. CASE UNCHANGED <<retries, handle>>
      BY <1>1, <3>1 DEF SupInv, CycleIsAlone
    <3>2. CASE retries < MAX_RETRIES /\ retries' = retries + 1 /\ handle' = TRUE
      BY <1>1, <3>2, MosaicAssumption DEF MosaicAssumption, SupInv
    <3>. QED
      BY <1>1, <3>1, <3>2 DEF Grid!Crashes
  <2>. QED
    BY <1>1, <2>1, <2>2 DEF SupInv, CycleIsAlone, Grid!Crashes
<1>2. ASSUME SupInv, Grid!RetryFires PROVE SupInv'
  <2>1. Grid!NoStray'
    BY <1>2, KeepsNoStray DEF SupInv, Grid!RetryFires
  <2>2. retries' \in 0 .. MAX_RETRIES
    BY <1>2, MosaicAssumption DEF MosaicAssumption, SupInv, Grid!RetryFires
  <2>. QED
    BY <1>2, <2>1, <2>2 DEF SupInv, CycleIsAlone, Grid!RetryFires
<1>3. SupInv /\ Grid!WatchdogFires => SupInv'
  BY RestartSup, StopSup DEF Grid!WatchdogFires
<1>. QED
  BY <1>1, <1>2, <1>3

LEMMA IdleSup == SupInv /\ UNCHANGED supVars => SupInv'
<1>1. SupInv /\ UNCHANGED supVars => Grid!NoStray'
  BY KeepsNoStray DEF SupInv, supVars
<1>. QED
  BY <1>1 DEF SupInv, CycleIsAlone, supVars

-----------------------------------------------------------------------------
(* What the tiles' operations keep.                                        *)

LEMMA IdleTiles == TileInv /\ UNCHANGED tileVars => TileInv'
BY DEF TileInv, tileVars, Present, NoStrayTile

LEMMA SyncTilesKeeps == TileInv /\ SyncTiles => TileInv'
BY DEF TileInv, SyncTiles, Present, NoStrayTile

LEMMA StartTilesKeeps ==
  TileInv /\ StartTiles => TileInv' /\ UNCHANGED <<slots, retired>>
BY DEF TileInv, StartTiles, Present, NoStrayTile

\* Whoever stops the encode lets go of every tile: it lingers.
LEMMA TearsDownKeeps ==
  ASSUME IInv, TearsDown
  PROVE  SupInv' /\ TileInv' /\ cur' = None /\ stopped' /\ UNCHANGED gridVars
BY StopSup, InvParts
DEF TearsDown, TileInv, Present, NoStrayTile, Grid!Stop, SupInv

-----------------------------------------------------------------------------
(* One lemma per action.                                                   *)

\* After a stop nothing runs or is about to, so nothing can draw the wrong picture.
LEMMA TornDownIsInv ==
  ASSUME IInv, TearsDown
  PROVE  IInv'
<1>1. SupInv' /\ TileInv' /\ cur' = None /\ stopped' /\ UNCHANGED gridVars
  BY TearsDownKeeps
<1>2. subs' = {} /\ warm' = FALSE /\ reaper' = FALSE
  BY DEF TearsDown
<1>3. RestInv'
  BY <1>1, <1>2, InvParts DEF RestInv, InputsAreRead, DrawsPicked, ReaperIsArmed, Grid!Running,
                              gridVars
<1>. QED
  BY <1>1, <1>3, PartsAgain

\* A cycle is queued behind whatever runs.
LEMMA RestartIsInv ==
  ASSUME IInv, Grid!Restart, UNCHANGED <<tileVars, gridVars>>, reaper' = TRUE,
         subs' \subseteq Viewers, warm' \in BOOLEAN
  PROVE  IInv'
<1>1. SupInv' /\ TileInv'
  BY RestartSup, IdleTiles, InvParts
<1>2. queued'
  BY DEF Grid!Restart
<1>3. InputsAreRead'
  BY InvParts DEF RestInv, InputsAreRead, gridVars
<1>4. RestInv'
  BY <1>2, <1>3 DEF RestInv, DrawsPicked, ReaperIsArmed
<1>. QED
  BY <1>1, <1>4, PartsAgain

\* The owner's viewers, window and reaper change while the supervisor, the tiles, the
\* grid and the selection stay.
LEMMA OwnerIsInv ==
  ASSUME IInv, UNCHANGED <<picked, tileVars, gridVars, supVars>>,
         subs' \subseteq Viewers, warm' \in BOOLEAN, reaper' \in {reaper, TRUE}
  PROVE  IInv'
<1>1. SupInv' /\ TileInv'
  BY IdleSup, IdleTiles, InvParts
<1>2. InputsAreRead' /\ DrawsPicked'
  BY InvParts DEF RestInv, InputsAreRead, DrawsPicked, Drawn, Grid!Running, tileVars, gridVars,
                  supVars
<1>3. ReaperIsArmed'
  BY InvParts DEF RestInv, ReaperIsArmed, Grid!Running, supVars
<1>4. RestInv'
  BY <1>2, <1>3, InvParts DEF RestInv
<1>. QED
  BY <1>1, <1>4, PartsAgain

LEMMA SetStateIsInv ==
  ASSUME IInv, NEW s, SetState(s)
  PROVE  IInv'
<1>. subs \subseteq Viewers
  BY InvParts DEF RestInv
<1>1. CASE TearsDown
  BY <1>1, TornDownIsInv
<1>2. CASE Grid!Restart /\ reaper' = TRUE /\ warm' = TRUE /\ UNCHANGED <<subs, tileVars, gridVars>>
  BY <1>2, RestartIsInv
<1>3. CASE /\ ~MustRestart(s) /\ reaper' = TRUE /\ warm' = TRUE /\ picked' = s
           /\ UNCHANGED <<subs, tileVars, gridVars, supVars>>
  BY <1>3, OwnerIsInv DEF MustRestart
<1>. QED
  BY <1>1, <1>2, <1>3 DEF SetState

LEMMA ViewersAreInv ==
  ASSUME IInv, NEW v \in Viewers, Open(v) \/ Detach(v) \/ FallsBehind(v)
  PROVE  IInv'
<1>. subs \subseteq Viewers /\ warm \in BOOLEAN
  BY InvParts DEF RestInv
<1>1. CASE Open(v)
  BY <1>1, RestartIsInv, OwnerIsInv DEF Open
<1>2. CASE Detach(v)
  <2>1. warm' \in BOOLEAN /\ subs' \subseteq Viewers
    BY <1>2 DEF Detach
  <2>. QED
    BY <1>2, <2>1, OwnerIsInv DEF Detach
<1>3. CASE FallsBehind(v)
  BY <1>3, OwnerIsInv DEF FallsBehind
<1>. QED
  BY <1>1, <1>2, <1>3

LEMMA IdlingIsInv ==
  ASSUME IInv, WarmEnds \/ Reaps
  PROVE  IInv'
<1>. subs \subseteq Viewers
  BY InvParts DEF RestInv
<1>1. CASE WarmEnds
  BY <1>1, OwnerIsInv DEF WarmEnds
<1>2. CASE Reaps
  BY <1>2, TornDownIsInv DEF Reaps
<1>. QED
  BY <1>1, <1>2

LEMMA CycleBeginsIsInv ==
  ASSUME IInv, CycleBegins
  PROVE  IInv'
<1>1. SupInv' /\ TileInv'
  BY CycleSup, IdleTiles, InvParts DEF CycleBegins
<1>2. /\ cur' = None /\ step' = "killing" /\ UNCHANGED <<stopped, subs, warm, reaper, gridVars>>
  BY DEF CycleBegins, Grid!CycleBegins
<1>3. RestInv'
  BY <1>2, InvParts DEF RestInv, InputsAreRead, DrawsPicked, ReaperIsArmed, Grid!Running, gridVars
<1>. QED
  BY <1>1, <1>3, PartsAgain

\* The tiles of the selection are prepared; until a restart is queued it stays selected.
LEMMA KilledIsInv ==
  ASSUME IInv, Killed
  PROVE  IInv'
<1>1. SupInv' /\ TileInv'
  BY CycleSup, IdleTiles, SyncTilesKeeps, InvParts DEF Killed
<1>2. /\ cur = None
      /\ UNCHANGED <<picked, stopped, queued, cur, subs, warm, reaper, layout, inputs>>
  BY InvParts DEF SupInv, CycleIsAlone, Killed, Grid!Killed, gridVars
<1>3. step' = "preparing" => slots' = Drawn(picked)
  BY DEF Killed, SyncTiles
<1>4. DrawsPicked'
  BY <1>2, <1>3 DEF DrawsPicked, Drawn, Grid!Running
<1>5. RestInv'
  BY <1>2, <1>4, InvParts DEF RestInv, InputsAreRead, ReaperIsArmed, Grid!Running
<1>. QED
  BY <1>1, <1>5, PartsAgain

\* cmd() reads the selection anew; with no restart queued it is the one prepared.
LEMMA SpawnsIsInv ==
  ASSUME IInv, Spawns
  PROVE  IInv'
<1>1. SupInv' /\ TileInv' /\ slots' = slots
  BY CycleSup, StartTilesKeeps, InvParts DEF Spawns
<1>2. /\ UNCHANGED <<picked, subs, warm, reaper, stopped, queued>>
      /\ step = "preparing" /\ ~stopped /\ step' = "idle"
      /\ layout' = Drawn(picked) /\ inputs' = [i \in DOMAIN layout' |-> None]
  BY DEF Spawns, Grid!Spawns
<1>3. InputsAreRead'
  BY <1>2 DEF InputsAreRead
<1>4. DrawsPicked'
  BY <1>1, <1>2, InvParts DEF RestInv, DrawsPicked, Drawn, Grid!Running
<1>5. ReaperIsArmed'
  BY <1>2, InvParts DEF RestInv, ReaperIsArmed
<1>6. RestInv'
  BY <1>2, <1>3, <1>4, <1>5, InvParts DEF RestInv
<1>. QED
  BY <1>1, <1>6, PartsAgain

LEMMA NoSpawnIsInv ==
  ASSUME IInv, NoSpawn
  PROVE  IInv'
<1>1. SupInv' /\ TileInv' /\ slots' = slots
  BY CycleSup, StartTilesKeeps, InvParts DEF NoSpawn
<1>2. /\ UNCHANGED <<picked, subs, warm, reaper, layout, inputs, cur, stopped, queued>>
      /\ step' = "idle"
  BY DEF NoSpawn, Grid!PrepareFails, Grid!StoppedMeanwhile, gridVars
<1>3. RestInv'
  BY <1>1, <1>2, InvParts DEF RestInv, InputsAreRead, DrawsPicked, Drawn, ReaperIsArmed, Grid!Running
<1>. QED
  BY <1>1, <1>3, PartsAgain

\* The input is served by the tile of its slot, which a grid with no restart behind it
\* was drawn for.
LEMMA DialsIsInv ==
  ASSUME IInv, NEW i \in DOMAIN inputs, Dials(i)
  PROVE  IInv'
<1>1. SupInv' /\ TileInv'
  BY IdleSup, IdleTiles, InvParts DEF Dials
<1>2. /\ UNCHANGED <<picked, subs, warm, reaper, slots, layout, cur, stopped, queued, step>>
      /\ inputs' = [inputs EXCEPT ![i] = slots[i]] /\ slots[i] \in Channels
      /\ Grid!Running
  BY DEF Dials, tileVars, supVars, Present
<1>3. InputsAreRead' /\ DOMAIN inputs' = DOMAIN inputs
  BY <1>2, InvParts DEF RestInv, InputsAreRead
<1>4. DrawsPicked'
  BY <1>2, InvParts DEF RestInv, InputsAreRead, DrawsPicked, Drawn, Grid!Running
<1>5. RestInv'
  BY <1>2, <1>3, <1>4, InvParts DEF RestInv, ReaperIsArmed, Grid!Running
<1>. QED
  BY <1>1, <1>5, PartsAgain

\* Steps of the supervisor after which the same process is current, or none, with no
\* cycle begun and no stop undone.
LEMMA GridIsInv ==
  ASSUME IInv, SupInv', UNCHANGED <<picked, reaper, tileVars, gridVars, stopped, step>>,
         cur' \in {cur, None}, queued' = queued \/ queued',
         subs' \subseteq Viewers, warm' \in BOOLEAN
  PROVE  IInv'
<1>1. TileInv'
  BY IdleTiles, InvParts
<1>2. InputsAreRead' /\ DrawsPicked'
  BY InvParts DEF RestInv, InputsAreRead, DrawsPicked, Drawn, Grid!Running, tileVars, gridVars
<1>3. ReaperIsArmed'
  BY InvParts DEF RestInv, ReaperIsArmed, Grid!Running
<1>4. RestInv'
  BY <1>2, <1>3, InvParts DEF RestInv
<1>. QED
  BY <1>1, <1>4, PartsAgain

LEMMA GridStepsAreInv ==
  ASSUME IInv, Produces \/ Crashes \/ GridMoves
  PROVE  IInv'
<1>. SupInv /\ subs \subseteq Viewers /\ warm \in BOOLEAN
  BY InvParts DEF RestInv
<1>1. CASE Produces
  <2>1. SupInv'
    BY <1>1, ProcSup, MosaicAssumption
    DEF Produces, Grid!Running, SupInv, MosaicAssumption
  <2>. QED
    BY <1>1, <2>1, GridIsInv DEF Produces, Grid!Output
<1>2. CASE Crashes
  <2>1. SupInv'
    BY <1>2, TimerSup DEF Crashes
  <2>. QED
    BY <1>2, <2>1, GridIsInv DEF Crashes, Grid!Crashes
<1>3. CASE GridMoves
  <2>1. SupInv'
    BY <1>3, TimerSup, ProcSup DEF GridMoves
  <2>2. /\ UNCHANGED <<picked, subs, warm, reaper, tileVars, gridVars>>
        /\ UNCHANGED <<stopped, step, cur>> /\ (queued' = queued \/ queued')
    BY <1>3 DEF GridMoves, Grid!RetryFires, Grid!FallsSilent, Grid!EndsAsTold
  <2>. QED
    BY <2>1, <2>2, GridIsInv
<1>. QED
  BY <1>1, <1>2, <1>3

LEMMA WatchdogIsInv ==
  ASSUME IInv, Watchdog
  PROVE  IInv'
<1>1. reaper = TRUE
  BY InvParts DEF RestInv, ReaperIsArmed, Watchdog, Grid!WatchdogFires, Grid!Running
<1>2. CASE Grid!Restart
  BY <1>1, <1>2, RestartIsInv, InvParts DEF Watchdog, RestInv
<1>3. CASE Grid!Stop
  <2>1. SupInv' /\ TileInv'
    BY <1>3, StopSup, IdleTiles, InvParts DEF Watchdog
  <2>2. cur' = None /\ stopped'
    BY <1>3 DEF Grid!Stop
  <2>3. RestInv'
    BY <2>2, InvParts
    DEF Watchdog, RestInv, InputsAreRead, DrawsPicked, ReaperIsArmed, Grid!Running, gridVars
  <2>. QED
    BY <2>1, <2>3, PartsAgain
<1>. QED
  BY <1>2, <1>3 DEF Watchdog, Grid!WatchdogFires

LEMMA TilesAreInv ==
  ASSUME IInv, NEW c \in Channels, TileDies(c) \/ Janitor(c)
  PROVE  IInv'
<1>1. UNCHANGED <<picked, subs, warm, reaper, slots, layout, supVars>>
  BY DEF TileDies, Janitor, gridVars
<1>2. SupInv'
  BY <1>1, IdleSup, InvParts
<1>3. TileInv'
  BY InvParts DEF TileInv, TileDies, Janitor, Present, NoStrayTile
<1>4. /\ InputsAreRead' /\ DOMAIN inputs' = DOMAIN inputs
      /\ \A i \in DOMAIN inputs : inputs'[i] \in {inputs[i], None}
  BY InvParts DEF RestInv, InputsAreRead, TileDies, Janitor, gridVars
<1>5. DrawsPicked'
  BY <1>1, <1>4, InvParts DEF RestInv, DrawsPicked, Drawn, Grid!Running, supVars
<1>6. RestInv'
  BY <1>1, <1>4, <1>5, InvParts DEF RestInv, ReaperIsArmed, Grid!Running, supVars
<1>. QED
  BY <1>2, <1>3, <1>6, PartsAgain

-----------------------------------------------------------------------------
(* The invariant and what follows from it.                                 *)

\* A server that starts has no viewer, no tile, no process and no timer.
Fresh == /\ subs = {} /\ warm = FALSE /\ reaper = FALSE /\ slots = << >>
         /\ tile = [c \in Channels |-> "absent"] /\ retired = {}
         /\ layout = << >> /\ inputs = << >>
         /\ Grid!SupInit

LEMMA FreshIsInv == Fresh => IInv
<1>. SUFFICES ASSUME Fresh PROVE IInv
  OBVIOUS
<1>1. SupInv
  <2>1. 0 \in 0 .. MAX_RETRIES
    BY MosaicAssumption DEF MosaicAssumption
  <2>. QED
    BY <2>1, MosaicAssumption
    DEF MosaicAssumption, Fresh, SupInv, Grid!SupInit, CycleIsAlone, Grid!NoStray, Grid!Live
<1>2. TileInv
  BY DEF Fresh, TileInv, Present, NoStrayTile
<1>3. RestInv
  <2>1. InputsAreRead
    BY DEF Fresh, InputsAreRead
  <2>2. DrawsPicked /\ ReaperIsArmed
    BY DEF Fresh, DrawsPicked, ReaperIsArmed, Grid!Running, Grid!SupInit
  <2>. QED
    BY <2>1, <2>2 DEF Fresh, RestInv
<1>. QED
  BY <1>1, <1>2, <1>3, InvParts

LEMMA FreshAgain == Fresh' => IInv'
BY FreshIsInv, PTL

LEMMA InitInv == Init => IInv
BY FreshIsInv DEF Init, Fresh

LEMMA StepInv == IInv /\ [Next]_vars => IInv'
<1>. SUFFICES ASSUME IInv, [Next]_vars PROVE IInv'
  OBVIOUS
<1>1. ASSUME NEW s \in Selections, SetState(s) PROVE IInv'
  BY <1>1, SetStateIsInv
<1>2. ASSUME NEW v \in Viewers, Open(v) \/ Detach(v) \/ FallsBehind(v) PROVE IInv'
  BY <1>2, ViewersAreInv
<1>3. CASE WarmEnds \/ Reaps
  BY <1>3, IdlingIsInv
<1>4. CASE CycleBegins \/ Killed \/ Spawns \/ NoSpawn
  BY <1>4, CycleBeginsIsInv, KilledIsInv, SpawnsIsInv, NoSpawnIsInv
<1>5. ASSUME NEW i \in DOMAIN inputs, Dials(i) PROVE IInv'
  BY <1>5, DialsIsInv
<1>6. CASE Produces \/ Crashes \/ GridMoves
  BY <1>6, GridStepsAreInv
<1>7. CASE Watchdog
  BY <1>7, WatchdogIsInv
<1>8. ASSUME NEW c \in Channels, TileDies(c) \/ Janitor(c) PROVE IInv'
  BY <1>8, TilesAreInv
<1>9. CASE Reboots
  BY <1>9, FreshAgain DEF Reboots, Fresh, Grid!SupInit
<1>10. CASE UNCHANGED vars
  BY <1>10, OwnerIsInv, InvParts DEF vars, RestInv
<1>. QED
  BY <1>1, <1>2, <1>3, <1>4, <1>5, <1>6, <1>7, <1>8, <1>9, <1>10 DEF Next

LEMMA Invariance == Spec => []IInv
BY InitInv, StepInv, PTL DEF Spec

\* The compositor, its supervisor and its tiles keep their types: no retry timer is cleared
\* that does not run, and no more run than the bound.
THEOREM MosaicTypes == Spec => []TypeOK
<1>1. IInv => TypeOK
  BY DEF IInv
<1>. QED
  BY Invariance, <1>1, PTL

\* However selections, teardowns, crashes and retries interleave with the restart cycle, a
\* grid that produces with no restart behind it draws what is selected, and each of its
\* cells the channel it is drawn for.
THEOREM PictureIsPicked == Spec => []ShowsPicked
<1>1. IInv => ShowsPicked
  BY DEF IInv, DrawsPicked, ShowsPicked, Grid!Producing, Grid!Pending
<1>. QED
  BY Invariance, <1>1, PTL

\* No process outlives its owner's interest unseen: one that was not told to end is the
\* supervisor's current one and is watched, the idle reaper is armed for it, and every
\* normalizer is of the layout or lingers.
THEOREM MosaicOwnsAll == Spec => []NothingStrays
<1>1. IInv => NothingStrays
  BY DEF IInv
<1>. QED
  BY Invariance, <1>1, PTL
=============================================================================
