--------------------------------- MODULE Hls ---------------------------------
(***************************************************************************)
(* The HLS sessions of one channel (src/proxy/hls.ts): the entry in        *)
(* `sessions`, the segmenter processes that hold or held it, the directory *)
(* they all write to, and the requests that wait for a playlist.           *)
(*                                                                         *)
(* start() has no await: its promise is settled before another request     *)
(* runs, so `starting` never holds two requests back.                      *)
(***************************************************************************)
EXTENDS FiniteSets

CONSTANTS Segmenters,  \* ffmpeg processes, one that is gone is used again
          Requests,    \* requests for the playlist
          Nobody       \* no process

VARIABLES
  session,   \* sessions.get(channelId).proc
  fresh,     \* its lastAccess is at most IDLE_MS ago
  segmenter,     \* of a process
  dir,       \* the directory exists
  index,     \* the process that wrote the playlist with a segment
  request    \* of a request: idle or polling

vars == <<session, fresh, segmenter, dir, index, request>>

\* gone or never started; running; told to end; told, and deaf to SIGTERM.
States == {"gone", "running", "stopping", "deaf"}

TypeOK == /\ session \in Segmenters \cup {Nobody}
          /\ fresh \in BOOLEAN /\ dir \in BOOLEAN
          /\ segmenter \in [Segmenters -> States]
          /\ index \in Segmenters \cup {Nobody}
          /\ request \in [Requests -> {"idle", "polling"}]
          /\ index # Nobody => dir

Init == /\ session = Nobody /\ fresh = FALSE /\ dir = FALSE /\ index = Nobody
        /\ segmenter = [p \in Segmenters |-> "gone"]
        /\ request = [r \in Requests |-> "idle"]

Answer(r) == request' = [request EXCEPT ![r] = "idle"]

-----------------------------------------------------------------------------
(* playlist and segment                                                    *)

\* start: the directory is made anew, then ffmpeg is spawned into it.
Starts(r) ==
  /\ session = Nobody
  /\ dir' = TRUE /\ index' = Nobody
  /\ \/ \E p \in Segmenters :
          /\ segmenter[p] = "gone"
          /\ segmenter' = [segmenter EXCEPT ![p] = "running"]
          /\ session' = p
          /\ fresh' = TRUE
          /\ request' = [request EXCEPT ![r] = "polling"]
     \/ UNCHANGED <<segmenter, session, fresh, request>>     \* no ffmpeg: null

Joins(r) ==
  /\ session # Nobody
  /\ fresh' = TRUE
  /\ request' = [request EXCEPT ![r] = "polling"]
  /\ UNCHANGED <<session, segmenter, dir, index>>

Playlist(r) == request[r] = "idle" /\ (Starts(r) \/ Joins(r))

\* A poll: the text is there, or ffmpeg died, or it sleeps and looks again.
Polls(r) == /\ request[r] = "polling"
            /\ index # Nobody \/ session = Nobody
            /\ Answer(r)
            /\ UNCHANGED <<session, fresh, segmenter, dir, index>>

\* START_TIMEOUT_MS is over.
TimesOut(r) == /\ request[r] = "polling"
               /\ Answer(r)
               /\ UNCHANGED <<session, fresh, segmenter, dir, index>>

Segment == /\ session # Nobody /\ ~fresh
           /\ fresh' = TRUE
           /\ UNCHANGED <<session, segmenter, dir, index, request>>

-----------------------------------------------------------------------------
(* The reaper.                                                             *)

GoesIdle == /\ session # Nobody /\ fresh
            /\ fresh' = FALSE
            /\ UNCHANGED <<session, segmenter, dir, index, request>>

\* stop: the entry goes, ffmpeg gets SIGTERM, the directory is removed.
Reaps == /\ session # Nobody /\ ~fresh
         /\ session' = Nobody
         /\ \E s \in {"stopping", "deaf"} : segmenter' = [segmenter EXCEPT ![session] = s]
         /\ dir' = FALSE /\ index' = Nobody
         /\ UNCHANGED <<fresh, request>>

-----------------------------------------------------------------------------
(* ffmpeg.  One that was told to end may still write its last playlist,    *)
(* into whatever directory has that name by then.                          *)

Writes(p) == /\ segmenter[p] # "gone" /\ dir
             /\ index' = p
             /\ UNCHANGED <<session, fresh, segmenter, dir, request>>

\* Mutant: an exit that clears the channel's entry whoever holds it.
Forgotten_Any(p) == Nobody

\* The exit handler: the entry goes if it is still this process's.
Forgotten(p) == IF session = p THEN Nobody ELSE session

Exits(p) == /\ segmenter[p] \in {"running", "stopping"}
            /\ segmenter' = [segmenter EXCEPT ![p] = "gone"]
            /\ session' = Forgotten(p)
            /\ UNCHANGED <<fresh, dir, index, request>>

\* The escalation to SIGKILL, three seconds after SIGTERM.
Kill9(p) == /\ segmenter[p] \in {"stopping", "deaf"}
            /\ segmenter' = [segmenter EXCEPT ![p] = "gone"]
            /\ session' = Forgotten(p)
            /\ UNCHANGED <<fresh, dir, index, request>>

Next == \/ \E r \in Requests : Playlist(r) \/ Polls(r) \/ TimesOut(r)
        \/ Segment \/ GoesIdle \/ Reaps
        \/ \E p \in Segmenters : Writes(p) \/ Exits(p) \/ Kill9(p)

\* The reaper's interval and the kill timer fire.
Fairness == /\ WF_vars(Reaps)
            /\ \A p \in Segmenters : WF_vars(Kill9(p))

Spec     == Init /\ [][Next]_vars
FairSpec == Spec /\ Fairness

-----------------------------------------------------------------------------
\* The entry names a running segmenter and every segmenter that was not told to
\* end is the entry's: none runs where the reaper cannot see it.
SegmenterIsRegistered ==
  \A p \in Segmenters : segmenter[p] = "running" <=> session = p

\* Unless somebody keeps asking, no segmenter stays.
SegmenterIsReaped == <>[](~fresh) => <>[](\A p \in Segmenters : segmenter[p] = "gone")
=============================================================================
