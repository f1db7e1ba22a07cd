-------------------------------- MODULE Mosaic --------------------------------
(***************************************************************************)
(* The server-side mosaic: the compositor (src/proxy/compositor.ts) keeps  *)
(* one supervised grid ffmpeg, whose inputs are the tile feeds of          *)
(* src/proxy/tilefeed.ts, one supervised normalizer per channel.           *)
(*                                                                         *)
(* The grid's supervisor is Supervisor.tla in full; that of a tile is      *)
(* reduced to whether it keeps its normalizer up.  The audible tile and    *)
(* the picture sizes are left out.                                         *)
(***************************************************************************)
EXTENDS Integers, Sequences, SequencesExt

CONSTANTS Procs, None, MAX_RETRIES,
          Channels,    \* numbers, apart from the positions 0, 1, ...
          Selections,  \* what the mosaic tab composes: [channels, focus]
          SEED,        \* the selection of free sources of a first boot
          Viewers

ASSUME MosaicAssumption == None \notin Procs /\ MAX_RETRIES \in Nat

NO_FOCUS == -1

\* The tiles drawn: focus is a position in channels.
Drawn(s) == IF s.focus + 1 \in DOMAIN s.channels THEN <<s.channels[s.focus + 1]>>
            ELSE s.channels

VARIABLES
  picked, saved,     \* state, and what the settings hold of it
  subs, warm,        \* viewers; Date.now() < warmUntil
  reaper,            \* the idle interval is set
  slots, prepared,   \* slot -> channel; the tiles ensureTiles is preparing
  tile, retired,     \* normalizer of every channel; those that left the layout
  layout, inputs,    \* the grid process: tiles it draws, the tile each input reads
  stopped, queued, step, old, cur, state, retries, handle, watched, failed

WantRunning == Drawn(picked) # << >> /\ (subs # {} \/ warm)
Grid == INSTANCE Supervisor WITH wanted <- WantRunning

tileVars == <<slots, prepared, tile, retired>>
gridVars == <<layout, inputs>>
supVars  == <<stopped, queued, step, old, cur, state, retries, handle, watched, failed>>
vars == <<picked, saved, subs, warm, reaper, tileVars, gridVars, supVars>>

TypeOK == /\ Grid!TypeOK
          /\ subs \subseteq Viewers /\ warm \in BOOLEAN /\ reaper \in BOOLEAN
          /\ tile \in [Channels -> {"absent", "down", "up"}]
          /\ retired \subseteq {c \in Channels : tile[c] # "absent"}
          /\ Range(inputs) \subseteq Channels \cup {None}

Init == /\ picked = SEED /\ saved = [channels |-> << >>, focus |-> NO_FOCUS]
        /\ subs = {} /\ warm = FALSE /\ reaper = FALSE
        /\ slots = << >> /\ prepared = << >>
        /\ tile = [c \in Channels |-> "absent"] /\ retired = {}
        /\ layout = << >> /\ inputs = << >>
        /\ Grid!SupInit

Present == {c \in Channels : tile[c] # "absent"}

-----------------------------------------------------------------------------
(* setState, open, detach, stop.                                           *)

\* Mutant: the reaper is left running, the tiles are not released.
TearsDown_KeepsTiles == /\ warm' = FALSE /\ subs' = {} /\ reaper' = FALSE
                        /\ Grid!Stop
                        /\ slots' = << >>
                        /\ UNCHANGED <<prepared, tile, retired, gridVars>>

TearsDown == /\ warm' = FALSE /\ subs' = {} /\ reaper' = FALSE
             /\ Grid!Stop
             /\ retired' = Present /\ slots' = << >>
             /\ UNCHANGED <<prepared, tile, gridVars>>

\* Mutant: the encode is restarted only when none runs.
MustRestart_Cold(s) == ~Grid!Running

MustRestart(s) == s # picked \/ ~Grid!Running

SetState(s) ==
  /\ picked' = s /\ saved' = s
  /\ IF Drawn(s) = << >> THEN TearsDown
     ELSE /\ warm' = TRUE /\ reaper' = TRUE
          /\ IF MustRestart(s) THEN Grid!Restart ELSE UNCHANGED supVars
          /\ UNCHANGED <<subs, tileVars, gridVars>>

\* Mutant: opening does not arm the idle reaper.
Open_Unreaped(v) ==
  /\ Drawn(picked) # << >> /\ v \notin subs
  /\ warm' = TRUE /\ subs' = subs \cup {v}
  /\ IF ~Grid!Running /\ ~Grid!Pending THEN Grid!Restart ELSE UNCHANGED supVars
  /\ UNCHANGED <<picked, saved, reaper, tileVars, gridVars>>

Open(v) ==
  /\ Drawn(picked) # << >> /\ v \notin subs
  /\ warm' = TRUE /\ reaper' = TRUE /\ subs' = subs \cup {v}
  /\ IF ~Grid!Running /\ ~Grid!Pending THEN Grid!Restart ELSE UNCHANGED supVars
  /\ UNCHANGED <<picked, saved, tileVars, gridVars>>

Detach(v) == /\ v \in subs
             /\ subs' = subs \ {v}
             /\ warm' = (warm \/ subs' = {})
             /\ UNCHANGED <<picked, saved, reaper, tileVars, gridVars, supVars>>

\* onStdout: a viewer that cannot take a chunk is disconnected.
FallsBehind(v) == /\ Grid!Producing /\ v \in subs
                  /\ subs' = subs \ {v}
                  /\ UNCHANGED <<picked, saved, warm, reaper, tileVars, gridVars,
                                 supVars>>

\* A queued cycle begins before any timer when the chain is free.
WarmEnds == /\ warm /\ warm' = FALSE
            /\ queued => step # "idle"
            /\ UNCHANGED <<picked, saved, subs, reaper, tileVars, gridVars, supVars>>

Reaps == /\ reaper /\ subs = {} /\ ~warm
         /\ TearsDown
         /\ UNCHANGED <<picked, saved>>

-----------------------------------------------------------------------------
(* The grid's restart cycle, with ensureTiles before the spawn.            *)

\* ensureTiles up to its await: slots, and which tiles are composed.
SyncTiles == LET d == Drawn(picked) IN
  /\ slots' = d /\ prepared' = d
  /\ tile' = [c \in Channels |->
                IF c \in Range(d) /\ tile[c] = "absent" THEN "down" ELSE tile[c]]
  /\ retired' = (retired \cup Present) \ Range(d)

CycleBegins == /\ Grid!CycleBegins
               /\ UNCHANGED <<picked, saved, subs, warm, reaper, tileVars, gridVars>>

Killed == /\ Grid!Killed
          /\ IF step' = "preparing" THEN SyncTiles ELSE UNCHANGED tileVars
          /\ UNCHANGED <<picked, saved, subs, warm, reaper, gridVars>>

\* The slates are rendered: a prepared tile that does not run is restarted; one that
\* was retired and dropped meanwhile is no longer wanted.
StartTiles == /\ tile' = [c \in Channels |->
                   IF c \in Range(prepared) /\ tile[c] = "down" THEN "up" ELSE tile[c]]
              /\ prepared' = << >>
              /\ UNCHANGED <<slots, retired>>

\* cmd() reads the selection of this moment, not the one that was prepared.
Spawns == /\ Drawn(picked) # << >>
          /\ Grid!Spawns
          /\ StartTiles
          /\ layout' = Drawn(picked) /\ inputs' = [i \in DOMAIN layout' |-> None]
          /\ UNCHANGED <<picked, saved, subs, warm, reaper>>

NoSpawn == /\ Grid!PrepareFails \/ Grid!StoppedMeanwhile
           /\ StartTiles
           /\ UNCHANGED <<picked, saved, subs, warm, reaper, gridVars>>

\* openSlot: input i of the grid is served by the tile in slot i.
Dials(i) == /\ Grid!Running /\ state[cur] = "up"
            /\ inputs[i] = None
            /\ i \in DOMAIN slots /\ slots[i] \in Present
            /\ inputs' = [inputs EXCEPT ![i] = slots[i]]
            /\ UNCHANGED <<picked, saved, subs, warm, reaper, tileVars, layout, supVars>>

\* Slates flow from the first byte: the grid needs its inputs, not live tiles.
Produces == /\ Grid!Running /\ None \notin Range(inputs)
            /\ Grid!Output(cur)
            /\ UNCHANGED <<picked, saved, subs, warm, reaper, tileVars, gridVars>>

\* onDown: hold the warm window, close the viewers.
Crashes == /\ subs' = {} /\ warm' = TRUE
           /\ UNCHANGED <<picked, saved, reaper, tileVars, gridVars>>
           /\ Grid!Crashes

GridMoves == /\ \/ Grid!RetryFires
                \/ \E p \in Procs : Grid!FallsSilent(p) \/ Grid!EndsAsTold(p)
             /\ UNCHANGED <<picked, saved, subs, warm, reaper, tileVars, gridVars>>

Watchdog == /\ Grid!WatchdogFires
            /\ UNCHANGED <<picked, saved, subs, warm, reaper, tileVars, gridVars>>

-----------------------------------------------------------------------------
(* The tiles, and the server process.                                      *)

\* The supervisor of a tile that left the layout does not bring its normalizer back.
TileDies(c) == /\ c \in retired /\ tile[c] = "up"
               /\ tile' = [tile EXCEPT ![c] = "down"]
               /\ UNCHANGED <<picked, saved, subs, warm, reaper, slots, prepared, retired,
                              gridVars, supVars>>

\* The janitor drops a tile that left the layout LINGER_MS ago.
Janitor(c) == /\ c \in retired
              /\ tile' = [tile EXCEPT ![c] = "absent"] /\ retired' = retired \ {c}
              /\ inputs' = [i \in DOMAIN inputs |-> IF inputs[i] = c THEN None ELSE inputs[i]]
              /\ UNCHANGED <<picked, saved, subs, warm, reaper, slots, prepared, layout,
                             supVars>>

\* restore: channels that still exist; focus is compared with channel ids.
Restored(s, known) ==
  LET chs == SelectSeq(s.channels, LAMBDA c : c \in known)
  IN  IF s.channels = << >> THEN SEED
      ELSE IF chs = << >> THEN [channels |-> << >>, focus |-> NO_FOCUS]
      ELSE [channels |-> chs, focus |-> IF s.focus \in Range(chs) THEN s.focus ELSE NO_FOCUS]

\* The server is started again; its processes went with it.
Reboots == \E known \in SUBSET Channels :
  /\ picked' = Restored(saved, known)
  /\ subs' = {} /\ warm' = FALSE /\ reaper' = FALSE
  /\ slots' = << >> /\ prepared' = << >>
  /\ tile' = [c \in Channels |-> "absent"] /\ retired' = {}
  /\ layout' = << >> /\ inputs' = << >>
  /\ stopped' = TRUE /\ queued' = FALSE /\ step' = "idle"
  /\ old' = None /\ cur' = None /\ state' = [p \in Procs |-> "gone"]
  /\ retries' = 0 /\ handle' = FALSE /\ watched' = FALSE /\ failed' = FALSE
  /\ UNCHANGED saved

Next == \/ \E s \in Selections : SetState(s)
        \/ \E v \in Viewers : Open(v) \/ Detach(v) \/ FallsBehind(v)
        \/ WarmEnds \/ Reaps
        \/ CycleBegins \/ Killed \/ Spawns \/ NoSpawn
        \/ \E i \in DOMAIN inputs : Dials(i)
        \/ Produces \/ Crashes \/ GridMoves \/ Watchdog
        \/ \E c \in Channels : TileDies(c) \/ Janitor(c)
        \/ Reboots

\* Promises settle and timers fire; a grid that is not too slow gets its inputs and
\* produces.
Fairness ==
  /\ WF_vars(CycleBegins) /\ WF_vars(Killed) /\ WF_vars(Spawns \/ NoSpawn)
  /\ WF_vars(GridMoves /\ retries' < retries) /\ WF_vars(Watchdog)
  /\ \A p \in Procs : WF_vars(GridMoves /\ state[p] = "term" /\ state'[p] = "gone")
  /\ \A i \in 1 .. 2 : WF_vars(i \in DOMAIN inputs /\ Dials(i))
  /\ WF_vars(Produces)

Spec     == Init /\ [][Next]_vars
FairSpec == Spec /\ Fairness

-----------------------------------------------------------------------------
\* When no restart is under way a producing grid draws what is selected, and each
\* cell shows the channel it is drawn for.
ShowsPicked == Grid!Producing /\ ~Grid!Pending =>
  /\ layout = Drawn(picked)
  /\ \A i \in DOMAIN inputs : inputs[i] \in {layout[i], None}

\* Whatever may leave an encode running, the idle reaper is armed to end it.
ReaperIsArmed == Grid!Running \/ ~stopped => reaper

\* A normalizer runs on only for a tile of the layout or in its linger.
NoStrayTile == Present \subseteq retired \cup Range(slots)

\* Every process runs for its owner: one that was not told to end is the supervisor's
\* current one, is watched and has the idle reaper armed, and a normalizer is of the layout
\* or lingers.
NothingStrays == Grid!NoStray /\ NoStrayTile /\ ReaperIsArmed

\* A viewer of an encode that was not stopped is served or closed, so that its player
\* comes again, unless the spawn failed, the tab keeps composing or every new grid is too slow.
ViewerIsServed ==
  <>[][/\ ~\E s \in Selections : SetState(s)
       /\ ~\E p \in Procs : state[p] = "up" /\ state'[p] = "mute"]_vars =>
  \A v \in Viewers : (v \in subs /\ ~stopped) ~> (v \notin subs \/ Grid!Producing \/ failed)

\* A viewer is never attached to a stopped encode (compositor.ts:291 "starts ffmpeg on
\* first viewer").  It fails: a viewer who opens a grid that was reaped while its
\* supervisor was at work attaches to it without starting it.
ViewerStarts == subs # {} => ~stopped

\* A restart of the server brings back the picture that was selected, as long as its
\* channels exist (compositor.ts:177 "Reload the selection at boot").  It fails: the focus is
\* saved as a position and restored only if it is the id of one of the channels.
RestartKeepsPicture == [][Reboots /\ saved.channels # << >> /\ picked'.channels = saved.channels
                            => Drawn(picked') = Drawn(saved)]_vars
===============================================================================
