------------------------------ MODULE Transcode ------------------------------
(***************************************************************************)
(* The transcoder of one channel (src/proxy/transcode.ts): the entry in    *)
(* `active`, the TranscodeChannel objects behind it, their ffmpeg and the  *)
(* browser viewers that share it.                                          *)
(*                                                                         *)
(* start() waits for the muxer alone, which answers without the network:   *)
(* while it waits only other opens run, no timer and no socket.            *)
(***************************************************************************)
EXTENDS Integers, FiniteSets

CONSTANTS Objects,   \* TranscodeChannel objects, a finished one is used again
          Tabs,      \* browser viewers
          Nothing    \* no object

VARIABLES
  active,     \* active.get(channelId)
  phase,      \* of an object: where its ffmpeg stands
  grace,      \* objects whose grace timer is armed
  opener,     \* the tab whose open() awaits the object's start()
  watching,   \* the object whose `subs` a tab is in
  early       \* history: tabs that attached while start() was awaited

vars == <<active, phase, grace, opener, watching, early>>

\* unused; start() awaited; start() answered false; ffmpeg writes, is silent,
\* was told to end by the watchdog or ended by itself; torn down, pump not ended.
Phases == {"unused", "starting", "failed", "up", "silent", "ending", "torn"}

TypeOK == /\ active \in Objects \cup {Nothing}
          /\ phase \in [Objects -> Phases]
          /\ grace \subseteq Objects
          /\ opener \in [Objects -> SUBSET Tabs]
          /\ watching \in [Tabs -> Objects \cup {Nothing}]
          /\ early \subseteq Tabs
          /\ \A o \in Objects : Cardinality(opener[o]) = (IF phase[o] = "starting" THEN 1 ELSE 0)

Init == /\ active = Nothing
        /\ phase = [o \in Objects |-> "unused"]
        /\ grace = {}
        /\ opener = [o \in Objects |-> {}]
        /\ watching = [v \in Tabs |-> Nothing]
        /\ early = {}

Watchers(o) == {v \in Tabs : watching[v] = o}
Waiting     == UNION {opener[o] : o \in Objects}
Settled     == \A o \in Objects : phase[o] # "starting"

\* An object nothing refers to any more.
Collected(ph, gr) ==
  [o \in Objects |-> IF ph[o] = "failed" /\ Watchers(o)' = {} /\ o \notin gr
                       THEN "unused" ELSE ph[o]]

-----------------------------------------------------------------------------
(* open                                                                    *)

\* The first open makes the object visible and then awaits its start().
OpensFirst(v) ==
  /\ active = Nothing
  /\ \E o \in Objects :
       /\ phase[o] = "unused"
       /\ active' = o
       /\ phase' = [phase EXCEPT ![o] = "starting"]
       /\ opener' = [opener EXCEPT ![o] = {v}]
  /\ UNCHANGED <<grace, watching, early>>

\* Mutant: an attach that leaves the grace timer armed.
Attaches_GraceKept(v, o) == watching' = [watching EXCEPT ![v] = o] /\ UNCHANGED grace

Attaches(v, o) == watching' = [watching EXCEPT ![v] = o] /\ grace' = grace \ {o}

\* A later open attaches at once, whatever became of start().
OpensLater(v) ==
  /\ active # Nothing
  /\ Attaches(v, active)
  /\ early' = IF phase[active] = "starting" THEN early \cup {v} ELSE early \ {v}
  /\ UNCHANGED <<active, phase, opener>>

Open(v) == watching[v] = Nothing /\ v \notin Waiting /\ (OpensFirst(v) \/ OpensLater(v))

Started(o) ==
  /\ phase[o] = "starting"
  /\ phase' = [phase EXCEPT ![o] = "up"]
  /\ opener' = [opener EXCEPT ![o] = {}]
  /\ \E v \in opener[o] : Attaches(v, o) /\ early' = early \ {v}
  /\ UNCHANGED active

\* No source, or no ffmpeg: the entry goes, whoever else attached to it.
StartFails(o) ==
  /\ phase[o] = "starting"
  /\ opener' = [opener EXCEPT ![o] = {}]
  /\ active' = Nothing
  /\ UNCHANGED <<grace, watching, early>>
  /\ phase' = Collected([phase EXCEPT ![o] = "failed"], grace)

-----------------------------------------------------------------------------
(* ffmpeg, its pump and its watchdog.                                      *)

FallsSilent(o) == /\ phase[o] = "up" /\ Settled
                  /\ phase' = [phase EXCEPT ![o] = "silent"]
                  /\ UNCHANGED <<active, grace, opener, watching, early>>

\* ffmpeg crashes or its input ends: the pump reads the end of its output.
Ends(o) == /\ phase[o] \in {"up", "silent"} /\ Settled
           /\ phase' = [phase EXCEPT ![o] = "ending"]
           /\ UNCHANGED <<active, grace, opener, watching, early>>

Watchdog(o) == /\ phase[o] = "silent" /\ Watchers(o) # {} /\ Settled
               /\ phase' = [phase EXCEPT ![o] = "ending"]
               /\ UNCHANGED <<active, grace, opener, watching, early>>

\* Mutant: a teardown that respects viewers also when ffmpeg is dead.
PumpEnds_Polite(o) ==
  /\ phase[o] \in {"ending", "torn"} /\ Settled
  /\ Watchers(o) = {}
  /\ phase' = [phase EXCEPT ![o] = "unused"]
  /\ grace' = grace \ {o}
  /\ active' = Nothing
  /\ UNCHANGED <<opener, watching, early>>

\* teardown(true): every viewer is closed, and the channel's entry goes, be it
\* this object's or that of one that took its place after a first teardown.
PumpEnds(o) ==
  /\ phase[o] \in {"ending", "torn"} /\ Settled
  /\ phase' = [phase EXCEPT ![o] = "unused"]
  /\ grace' = grace \ {o}
  /\ watching' = [v \in Tabs |-> IF watching[v] = o THEN Nothing ELSE watching[v]]
  /\ early' = early \ Watchers(o)
  /\ active' = Nothing
  /\ UNCHANGED opener

-----------------------------------------------------------------------------
(* Viewers that leave, and the grace timer.                                *)

Detach(v) ==
  LET o == watching[v] IN
  /\ o # Nothing /\ Settled
  /\ watching' = [watching EXCEPT ![v] = Nothing]
  /\ early' = early \ {v}
  /\ grace' = IF Watchers(o) = {v} THEN grace \cup {o} ELSE grace
  /\ UNCHANGED <<active, phase, opener>>

\* teardown(): ffmpeg is told to end, the entry goes at once.
GraceFires(o) ==
  /\ o \in grace /\ Settled
  /\ grace' = grace \ {o}
  /\ IF Watchers(o) # {} THEN UNCHANGED <<active, phase>>
     ELSE /\ active' = Nothing
          /\ phase' = [phase EXCEPT ![o] =
               CASE @ \in {"up", "silent", "ending"} -> "torn"
                 [] @ = "failed" -> "unused"
                 [] OTHER -> @]
  /\ UNCHANGED <<opener, watching, early>>

Next == \/ \E v \in Tabs : Open(v) \/ Detach(v)
        \/ \E o \in Objects : \/ Started(o) \/ StartFails(o) \/ FallsSilent(o) \/ Ends(o)
                              \/ Watchdog(o) \/ PumpEnds(o) \/ GraceFires(o)

\* The macrotask that opens goes on.  An end of output or a due timer is handled
\* once it is its turn: strong fairness, for the awaits in between disable it.
StartEnds(o) == Started(o) \/ StartFails(o)
TimerOrEnd(o) == PumpEnds(o) \/ GraceFires(o) \/ Watchdog(o)

Spec     == Init /\ [][Next]_vars
Fairness == \A o \in Objects : WF_vars(StartEnds(o)) /\ SF_vars(TimerOrEnd(o))
FairSpec == Spec /\ Fairness

-----------------------------------------------------------------------------
Running(o) == phase[o] \in {"up", "silent"}

\* A viewer never waits on a dead ffmpeg without its close under way, unless it
\* attached while a start() was awaited that then failed.
AttachedIsServed == \A v \in Tabs : watching[v] # Nothing =>
  \/ phase[watching[v]] \in {"starting", "up", "silent", "ending"}
  \/ v \in early /\ phase[watching[v]] = "failed"

\* An ffmpeg always has viewers or an armed grace timer that ends it, and no
\* timer that was left armed ends one that is watched.
FfmpegIsHeld == \A o \in Objects :
  /\ Running(o) => Watchers(o) # {} \/ o \in grace
  /\ o \in grace => Watchers(o) = {}

\* What the header of the source promises: one ffmpeg per channel.  It
\* fails: a transcoder that failed to start, or was torn down, is torn down again by a grace
\* timer of its own and takes the entry of the one that runs now with it.
OneFfmpegPerChannel == \A o, p \in Objects : Running(o) /\ Running(p) => o = p

\* When nobody watches for good, no ffmpeg and no upstream stays.
FfmpegIsReleased == <>[](\A v \in Tabs : watching[v] = Nothing /\ v \notin Waiting)
                      => <>[](\A o \in Objects : phase[o] = "unused")

\* A viewer of an ffmpeg that fell silent or ended is released, to tune again onto a
\* fresh one.
SilenceIsBroken == \A v \in Tabs :
  (watching[v] # Nothing /\ phase[watching[v]] \in {"silent", "ending"}) ~> watching[v] = Nothing
=============================================================================
