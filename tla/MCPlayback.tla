----------------------------- MODULE MCPlayback ------------------------------
(***************************************************************************)
(* What stands between an upstream and a screen, for TLC: eleven parts     *)
(* that share no state with one another.  A run chooses the part that      *)
(* moves; the others rest where they begin, where none of their fair       *)
(* actions is enabled.                                                     *)
(***************************************************************************)
EXTENDS Integers, FiniteSets

TwoReels   == <<"a", "b">>

CONSTANTS
  Objects, Tabs, Nothing,
  Segmenters, Requests, Nobody,
  Players, OWN_CAP, GLOBAL_CAP, MAX_HEAD,
  Subs, MAX_LOADS,
  LENGTH, TAILS, STARTS, RATE, MAX_TICKS, MAX_LATE,
  RING_SIZE, MAX_BUILDS, Tunes,
  LAST, ClockAt, PesAt, FirstPcrs, Resets, PCR_WRAP, SANE_BACKWARD, MAX_SEEK,
  MAX_PACKETS, MAX_CHUNK, GOP_CAP, HELD_CAP,
  HIST, TARGET, Bursts, MAX_PUSHED,
  TRIES

\* "Nothing" is no transcoder and "Nobody" no process; bounds and sizes are numbers.
ASSUME PlaybackAssumption ==
  /\ Nothing \notin Objects /\ Nobody \notin Segmenters
  /\ IsFiniteSet(Tabs) /\ {OWN_CAP, GLOBAL_CAP, MAX_HEAD} \subseteq Nat
  /\ MAX_LOADS \in Nat
  /\ LENGTH \in Nat /\ TAILS \subseteq Nat /\ STARTS \subseteq Nat
  /\ RATE \in Nat /\ MAX_TICKS \in Nat /\ MAX_LATE \in Nat
  /\ RING_SIZE \in Nat \ {0} /\ MAX_BUILDS \in Nat
  /\ {LAST, SANE_BACKWARD, MAX_SEEK} \subseteq Nat /\ ClockAt \subseteq Nat
  /\ PCR_WRAP \in Nat \ {0} /\ LAST < PCR_WRAP \div 2
  /\ FirstPcrs \subseteq 0 .. PCR_WRAP - 1 /\ Resets \subseteq Nat
  /\ MAX_PACKETS \in Nat /\ MAX_CHUNK \in Nat /\ {GOP_CAP, HELD_CAP} \subseteq Nat \ {0}
  /\ {HIST, TARGET} \subseteq Nat \ {0} /\ Bursts \subseteq Nat /\ MAX_PUSHED \in Nat
  /\ TRIES \in Nat \ {0}

VARIABLES
  part,
  active, phase, grace, opener, watching, early,
  session, fresh, segmenter, dir, index, request,
  buffers, evicted, head, recording, ended, idleTimer, globalBytes, player,
  sub, slate, held, keyframe, sawLive, h264, loading, stopping, fed,
  tailStart, pos, segmentStart, epoch, age, running, chunk,
  ring, file, build, builds, cursor, tune,
  method, stage, aborted, listening, upstream, charged,
  first, resetAt, next, cut, newest, armed, seeking, seekBytes, out, known, far,
  stream, pat, pmt, video, gop, feed, late, joined,
  buffered, primed, sincePush, window, hist, carry, pushed, emitted, quiet,
  at, tries, gone, attached, reader

Tc    == INSTANCE Transcode
Seg   == INSTANCE Hls
Shift == INSTANCE Timeshift WITH Channels <- Tabs
Reel  == INSTANCE Slate
Feed  == INSTANCE Feeder
Ring  == INSTANCE ReelCache WITH Families <- TwoReels
Vod   == INSTANCE VodPass
Seam  == INSTANCE Overlap WITH chunk <- cut
Ts    == INSTANCE TsStreams
Jit   == INSTANCE Jitter
Inp   == INSTANCE TileInput

transcodeVars == <<active, phase, grace, opener, watching, early>>
hlsVars == <<session, fresh, segmenter, dir, index, request>>
timeshiftVars == <<buffers, evicted, head, recording, ended, idleTimer, globalBytes, player>>
slateVars == <<sub, slate, held, keyframe, sawLive, h264, loading, stopping, fed>>
feederVars == <<tailStart, pos, segmentStart, epoch, age, running, chunk>>
cacheVars == <<ring, file, build, builds, cursor, tune>>
vodVars == <<method, stage, aborted, listening, upstream, charged>>
overlapVars == <<first, resetAt, next, cut, newest, armed, seeking, seekBytes, out, known, far>>
tsVars == <<stream, pat, pmt, video, gop, feed, late, joined>>
jitterVars == <<buffered, primed, sincePush, window, hist, carry, pushed, emitted, quiet>>
inputVars == <<at, tries, gone, attached, reader>>

allVars == <<part, transcodeVars, hlsVars, timeshiftVars, slateVars, feederVars,
             cacheVars, vodVars, overlapVars, tsVars, jitterVars, inputVars>>

Parts == {"transcode", "hls", "timeshift", "slate", "feeder", "cache", "vod",
          "overlap", "ts", "jitter", "input"}

AllInit ==
  /\ part \in Parts
  /\ Tc!Init /\ Seg!Init /\ Shift!Init /\ Reel!Init /\ Feed!Init /\ Ring!Init
  /\ Vod!Init /\ Seam!Init /\ Ts!Init /\ Jit!Init /\ Inp!Init
  /\ part # "slate"  => h264
  /\ part # "feeder" => tailStart = 0 /\ pos = 0
  /\ part # "vod"    => method = "GET" /\ ~aborted
  /\ part # "overlap" => /\ first = CHOOSE c \in FirstPcrs : TRUE
                         /\ resetAt = CHOOSE n \in Resets : TRUE

AllNext ==
  /\ UNCHANGED part
  /\ (part = "transcode" /\ Tc!Next) \/ (part # "transcode" /\ UNCHANGED transcodeVars)
  /\ (part = "hls" /\ Seg!Next) \/ (part # "hls" /\ UNCHANGED hlsVars)
  /\ (part = "timeshift" /\ Shift!Next) \/ (part # "timeshift" /\ UNCHANGED timeshiftVars)
  /\ (part = "slate" /\ Reel!Next) \/ (part # "slate" /\ UNCHANGED slateVars)
  /\ (part = "feeder" /\ Feed!Next) \/ (part # "feeder" /\ UNCHANGED feederVars)
  /\ (part = "cache" /\ Ring!Next) \/ (part # "cache" /\ UNCHANGED cacheVars)
  /\ (part = "vod" /\ Vod!Next) \/ (part # "vod" /\ UNCHANGED vodVars)
  /\ (part = "overlap" /\ Seam!Next) \/ (part # "overlap" /\ UNCHANGED overlapVars)
  /\ (part = "ts" /\ Ts!Next) \/ (part # "ts" /\ UNCHANGED tsVars)
  /\ (part = "jitter" /\ Jit!Next) \/ (part # "jitter" /\ UNCHANGED jitterVars)
  /\ (part = "input" /\ Inp!Next) \/ (part # "input" /\ UNCHANGED inputVars)

\* The fairness of every part, while it is the one that moves.
Moves(p, action) == part = p /\ action

AllFairness ==
  /\ \A o \in Objects : /\ WF_transcodeVars(Moves("transcode", Tc!StartEnds(o)))
                         /\ SF_transcodeVars(Moves("transcode", Tc!TimerOrEnd(o)))
  /\ WF_hlsVars(Moves("hls", Seg!Reaps))
  /\ \A p \in Segmenters : WF_hlsVars(Moves("hls", Seg!Kill9(p)))
  /\ \A c \in Tabs : WF_timeshiftVars(Moves("timeshift", Shift!Teardown(c)))
  /\ \A r \in Players : WF_timeshiftVars(Moves("timeshift", Shift!Pull(r)))
  /\ WF_jitterVars(Moves("jitter", Jit!Tick))
  /\ WF_inputVars(Moves("input", Inp!GapOver)) /\ WF_inputVars(Moves("input", Inp!DialAnswers))
  /\ WF_inputVars(Moves("input", Inp!WaitOver)) /\ WF_inputVars(Moves("input", Inp!ReadDone))

AllSpec == AllInit /\ [][AllNext]_allVars /\ AllFairness

-----------------------------------------------------------------------------
\* The type invariants of all parts.
TypesOK == /\ Tc!TypeOK /\ Seg!TypeOK /\ Shift!TypeOK /\ Reel!TypeOK /\ Feed!TypeOK
           /\ Ring!TypeOK /\ Vod!TypeOK /\ Seam!TypeOK /\ Ts!TypeOK /\ Jit!TypeOK
           /\ Inp!TypeOK

\* What runs has an owner and what is counted is there.  A transcoder has viewers or an
\* armed grace timer; an HLS segmenter is the one its channel's session names, which the
\* reaper sees.  Of the timeshift buffers the shared memory total is what they hold, and
\* bounded; no wake-up of a reader is lost; exactly the unread ones are about to be torn
\* down.
EverythingHasAnOwner ==
  /\ Tc!FfmpegIsHeld /\ Seg!SegmenterIsRegistered
  /\ Shift!TotalAddsUp /\ Shift!WaitsAtLiveEdge /\ Shift!UnreadIsTimed

\* The buffering reel: shown to viewers only and never over live; a tune gets a whole reel
\* of its own family although builds replace files and manifest at any time, and plays it
\* at real time.
ReelsAreWhole == /\ Reel!ReelIsForViewers /\ Ring!ServedIsWhole /\ Ring!ManifestIsTrue
                 /\ Feed!PlaysAtRealTime

\* Bytes: who attaches to a running channel, or feeds a mosaic tile, starts on tables and a
\* keyframe and then misses nothing; a reconnect replays nothing and resumes where a
\* decoder can; a reel loops without a gap and leaves no viewer on a dead socket.
StreamIsGapless == /\ [](Ts!JoinedIsGapless /\ Ts!FeedIsGapless)
                   /\ Seam!NothingTwice /\ Seam!CatchesUp /\ Seam!ResumesDecodable
                   /\ Feed!PlaysInOrder /\ Reel!ReelLeavesNobody

\* What one request holds: the VOD relay gives its provider slot back once and leaves no
\* upstream body open whenever its viewer goes, and begins no remux for one who is gone;
\* a mosaic tile's feed holds one subscription while it reads and none while it dials, and
\* gives it back when its client leaves.
RequestsHoldTheirOwn == /\ [](Vod!NothingLeaks /\ Inp!HoldsOne)
                        /\ Vod!NoWorkForNobody /\ Inp!LeavesDetached

\* What nobody uses ends, and so does what is of no more use: transcoders nobody watches,
\* and silent ones, whose viewers never wait on a dead ffmpeg; HLS segmenters; timeshift
\* buffers with their subscription; a jitter buffer's last bytes; a tile's feed.
UnusedEnds ==
  /\ Tc!FfmpegIsReleased /\ Tc!SilenceIsBroken /\ []Tc!AttachedIsServed
  /\ Seg!SegmenterIsReaped /\ Shift!BufferIsReleased
  /\ Jit!SilentSourceDrains /\ Inp!FeedEnds
=============================================================================
