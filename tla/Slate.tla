-------------------------------- MODULE Slate --------------------------------
(***************************************************************************)
(* The buffering reel of one mux (src/proxy/muxer.ts, src/slate/gate.ts):  *)
(* shown to viewers of a cold channel until the upstream's first keyframe, *)
(* while recorders, transcoders and the like share the same mux.           *)
(*                                                                         *)
(* maybeStartSlate reads the reel from disk: everything may happen between *)
(* its checks and the start of the feeder, so it checks again.             *)
(***************************************************************************)
EXTENDS Integers, FiniteSets

CONSTANTS Subs,        \* subscribers
          MAX_LOADS    \* bound: reels being read at a time

VARIABLES
  sub,       \* none, viewer (allowSlate) or plain (recorder, transcoder, tile)
  slate,     \* the feeder runs
  held,      \* live is held back: no, since less or more than SLATE_HOLD_MAX_MS
  keyframe,  \* the preroll buffer has a decodable start
  sawLive,
  h264,      \* the codec of the current source
  loading,   \* calls of maybeStartSlate that read the reel
  stopping,
  fed        \* history: how the last region of live bytes was handled

vars == <<sub, slate, held, keyframe, sawLive, h264, loading, stopping, fed>>

TypeOK == /\ sub \in [Subs -> {"none", "viewer", "plain"}]
          /\ slate \in BOOLEAN /\ keyframe \in BOOLEAN /\ sawLive \in BOOLEAN
          /\ h264 \in BOOLEAN /\ stopping \in BOOLEAN
          /\ held \in {"no", "holding", "over"}
          /\ held # "no" => slate
          /\ loading \in 0 .. MAX_LOADS
          /\ fed \in {"none", "held", "spliced", "raw"}

Init == /\ sub = [s \in Subs |-> "none"]
        /\ slate = FALSE /\ held = "no" /\ keyframe = FALSE /\ sawLive = FALSE
        /\ h264 \in BOOLEAN /\ loading = 0 /\ stopping = FALSE /\ fed = "none"

PlainIn(ss) == \E s \in Subs : ss[s] = "plain"
SlateOff    == slate' = FALSE /\ held' = "no"

-----------------------------------------------------------------------------
(* attach and maybeStartSlate                                              *)

Eligible == h264 /\ ~keyframe

Attach(s, kind) ==
  /\ sub[s] = "none" /\ ~stopping
  /\ sub' = [sub EXCEPT ![s] = kind]
  /\ IF kind = "plain" THEN SlateOff /\ UNCHANGED loading
     ELSE /\ UNCHANGED <<slate, held>>
          /\ IF ~slate /\ ~sawLive /\ ~keyframe /\ ~PlainIn(sub') /\ Eligible
               THEN loading < MAX_LOADS /\ loading' = loading + 1
               ELSE UNCHANGED loading
  /\ UNCHANGED <<keyframe, sawLive, h264, stopping, fed>>

\* Mutant: the subscribers are not looked at again after the read.
MayStart_Stale == ~slate /\ ~stopping /\ ~sawLive /\ ~keyframe

MayStart == ~slate /\ ~stopping /\ ~sawLive /\ ~keyframe /\ ~PlainIn(sub)

ReelLoaded ==
  /\ loading > 0
  /\ loading' = loading - 1
  /\ \/ MayStart /\ slate' = TRUE /\ held' = "no"
     \/ UNCHANGED <<slate, held>>                  \* no reel in the cache
  /\ (~MayStart => UNCHANGED <<slate, held>>)
  /\ UNCHANGED <<sub, keyframe, sawLive, h264, stopping, fed>>

-----------------------------------------------------------------------------
(* fanout: a region of live bytes, which may hold the first keyframe.      *)

Hold == slate /\ h264 /\ ~keyframe' /\ held # "over"

Live ==
  /\ ~stopping
  /\ keyframe' \in {TRUE, keyframe}
  /\ IF Hold
       THEN /\ held' = IF held = "no" THEN "holding" ELSE held
            /\ fed' = "held"
            /\ UNCHANGED <<slate, sawLive>>
       ELSE /\ SlateOff
            /\ sawLive' = TRUE
            /\ fed' = IF slate /\ keyframe' /\ h264 THEN "spliced" ELSE "raw"
  /\ UNCHANGED <<sub, h264, loading, stopping>>

HoldRunsOut == /\ held = "holding" /\ held' = "over"
               /\ UNCHANGED <<sub, slate, keyframe, sawLive, h264, loading, stopping, fed>>

\* Another source: its codec may differ, its keyframe is still to come.
FailOver == /\ ~stopping
            /\ h264' \in BOOLEAN
            /\ keyframe' = FALSE
            /\ IF ~h264' THEN SlateOff ELSE UNCHANGED <<slate, held>>
            /\ UNCHANGED <<sub, sawLive, loading, stopping, fed>>

-----------------------------------------------------------------------------
(* The end of the reel, of a subscriber and of the mux.                    *)

\* Mutant: a reel that runs out leaves its viewers on a silent socket.
Stranded_Kept == {}

Stranded == IF sawLive THEN {} ELSE Subs

\* onExpire after SLATE_MAX_LIFETIME_MS: dropStrandedViewers.
Expire == /\ slate
          /\ SlateOff
          /\ sub' = [s \in Subs |-> IF s \in Stranded THEN "none" ELSE sub[s]]
          /\ UNCHANGED <<keyframe, sawLive, h264, loading, stopping, fed>>

Detach(s) == /\ sub[s] # "none"
             /\ sub' = [sub EXCEPT ![s] = "none"]
             /\ IF \A t \in Subs : sub'[t] = "none" THEN SlateOff ELSE UNCHANGED <<slate, held>>
             /\ UNCHANGED <<keyframe, sawLive, h264, loading, stopping, fed>>

Teardown == /\ ~stopping
            /\ stopping' = TRUE
            /\ SlateOff
            /\ sub' = [s \in Subs |-> "none"]
            /\ UNCHANGED <<keyframe, sawLive, h264, loading, fed>>

Next == \/ \E s \in Subs : \/ \E kind \in {"viewer", "plain"} : Attach(s, kind)
                           \/ Detach(s)
        \/ ReelLoaded \/ Live \/ HoldRunsOut \/ FailOver \/ Expire \/ Teardown

Spec == Init /\ [][Next]_vars

-----------------------------------------------------------------------------
\* The reel goes to viewers only: while it plays, and while live is withheld
\* for it, no recorder or transcoder shares the mux, also when one attached
\* while the reel was read from disk.  Nor is it shown once live was.
ReelIsForViewers == slate => ~PlainIn(sub) /\ ~sawLive /\ ~stopping

\* A viewer who sees the reel gets live bytes, or leaves, or is closed when it
\* runs out: nobody stays behind on a socket that will carry nothing.
ReelLeavesNobody == [][slate /\ ~slate' /\ ~sawLive' =>
    \/ \A s \in Subs : sub'[s] = "none"        \* expired, left or torn down
    \/ PlainIn(sub')                           \* made way for a recorder
    \/ ~h264']_vars                            \* cannot be spliced any more
=============================================================================
