--------------------------- MODULE PlaybackProofs ---------------------------
(***************************************************************************)
(* Theorems about the parts between an upstream and a screen, for any      *)
(* number of viewers, processes, buffers, reels and tries and any sizes.   *)
(* Each part has its invariant, which holds at the start, is kept by the   *)
(* part's own steps and by those of the others, which leave its variables. *)
(***************************************************************************)
EXTENDS MCPlayback, FiniteSetTheorems, SequenceTheorems, TLAPS

-----------------------------------------------------------------------------
(* VodPass: the request's slot and its upstream body.                      *)

\* What a step needs beyond the slot, which is held or was returned: headers are the
\* first thing that opens a body, and the listener is there while the body is relayed.
VodRest ==
  /\ method \in {"GET", "HEAD", "probe"}
  /\ stage \in {"called", "fetching", "answered", "refused", "relaying"} \cup Vod!Answers
  /\ aborted \in BOOLEAN /\ listening \in BOOLEAN
  /\ upstream \in {"none", "open", "cancelled", "read"}
  /\ stage \in Vod!Answers \/ (stage = "relaying" /\ aborted) => charged = 0 /\ upstream # "open"
  /\ stage \in {"called", "fetching"} => upstream = "none"
  /\ stage = "relaying" => listening

VodInv == charged \in {0, 1} /\ VodRest

LEMMA VodIsTyped == VodInv => Vod!TypeOK /\ Vod!NothingLeaks
<1>. SUFFICES ASSUME VodInv PROVE Vod!TypeOK /\ Vod!NothingLeaks
  OBVIOUS
<1>1. charged \in -1 .. 1 /\ charged >= 0
  BY DEF VodInv
<1>. QED
  BY <1>1, Zenon DEF VodInv, VodRest, Vod!TypeOK, Vod!NothingLeaks

LEMMA VodInit == Vod!Init => VodInv
<1>. SUFFICES ASSUME Vod!Init PROVE VodInv
  OBVIOUS
<1>. QED
  BY DEF Vod!Init, VodInv, VodRest, Vod!Answers

LEMMA VodStep == VodInv /\ Vod!Next => VodInv'
<1>. SUFFICES ASSUME VodInv, Vod!Next PROVE VodInv'
  OBVIOUS
<1>1. Vod!Release => charged' = 0
  BY DEF VodInv, Vod!Release
<1>2. charged' \in {0, 1}
  BY <1>1, Zenon DEF VodInv, Vod!Next, Vod!ViewerLeaves, Vod!Begins, Vod!FetchThrows,
     Vod!HeadersArrive, Vod!BadStatus, Vod!GoneMeanwhile, Vod!HeadServed, Vod!Relays,
     Vod!BodyEnds
<1>3. Vod!DropBody => upstream' = IF upstream = "open" THEN "cancelled" ELSE upstream
  BY DEF Vod!DropBody
<1>. VodRest
  BY DEF VodInv
<1>. USE <1>1, <1>3 DEF VodRest, Vod!Answers
<1>4. CASE Vod!ViewerLeaves
  BY <1>2, <1>4 DEF Vod!ViewerLeaves, VodInv
<1>5. CASE Vod!Begins
  BY <1>2, <1>5 DEF Vod!Begins, VodInv
<1>6. CASE Vod!FetchThrows
  BY <1>2, <1>6 DEF Vod!FetchThrows, VodInv
<1>7. CASE Vod!HeadersArrive
  BY <1>2, <1>7 DEF Vod!HeadersArrive, VodInv
<1>8. CASE Vod!BadStatus
  BY <1>2, <1>8 DEF Vod!BadStatus, VodInv
<1>9. CASE Vod!GoneMeanwhile
  BY <1>2, <1>9 DEF Vod!GoneMeanwhile, VodInv
<1>10. CASE Vod!HeadServed
  BY <1>2, <1>10 DEF Vod!HeadServed, VodInv
<1>11. CASE Vod!Relays
  BY <1>2, <1>11 DEF Vod!Relays, VodInv
<1>12. CASE Vod!BodyEnds
  BY <1>2, <1>12 DEF Vod!BodyEnds, VodInv
<1>. QED
  BY <1>4, <1>5, <1>6, <1>7, <1>8, <1>9, <1>10, <1>11, <1>12 DEF Vod!Next

LEMMA VodRests == VodInv /\ UNCHANGED vodVars => VodInv'
BY DEF VodInv, VodRest, vodVars, Vod!Answers

\* The only way from a fetch to the remux looks at the signal first.
LEMMA VodWorksForSomebody ==
  VodInv /\ Vod!Next => (stage = "fetching" /\ aborted => stage' # "fallback")
BY DEF VodInv, VodRest, Vod!Answers, Vod!Next, Vod!ViewerLeaves, Vod!Begins, Vod!FetchThrows,
       Vod!HeadersArrive, Vod!BadStatus, Vod!GoneMeanwhile, Vod!HeadServed, Vod!Relays,
       Vod!BodyEnds
-----------------------------------------------------------------------------
(* TileInput: the tile's subscription.                                     *)

\* A feed reads through the reader of its subscription; between two of them it has none.
InpRest ==
  /\ at \in {"reading", "gap", "dialling", "waiting", "closed"}
  /\ gone \in BOOLEAN /\ reader \in BOOLEAN
  /\ attached \in {0, 1}
  /\ reader => at = "reading"
  /\ ~gone /\ at = "reading" => reader /\ attached = 1
  /\ ~gone /\ at # "reading" => attached = 0
  /\ at \in {"dialling", "waiting"} => attached = 0

\* A dial more than may fail in a row is never begun.
InpInv ==
  /\ InpRest
  /\ tries \in 0 .. TRIES
  /\ at = "dialling" => tries < TRIES

LEMMA InpIsTyped == InpInv => Inp!TypeOK /\ Inp!HoldsOne
<1>. SUFFICES ASSUME InpInv PROVE Inp!TypeOK /\ Inp!HoldsOne
  OBVIOUS
<1>1. attached \in 0 .. 2
  BY DEF InpInv, InpRest
<1>. QED
  BY <1>1, Zenon DEF InpInv, InpRest, Inp!TypeOK, Inp!HoldsOne

LEMMA InpInit == Inp!Init => InpInv
<1>. SUFFICES ASSUME Inp!Init PROVE InpInv
  OBVIOUS
<1>1. tries \in 0 .. TRIES /\ tries < TRIES
  BY PlaybackAssumption DEF Inp!Init, PlaybackAssumption
<1>2. InpRest
  BY DEF InpRest, Inp!Init
<1>. QED
  BY <1>1, <1>2 DEF InpInv

LEMMA InpStep == InpInv /\ Inp!Next => InpInv'
<1>. SUFFICES ASSUME InpInv, Inp!Next PROVE InpInv'
  OBVIOUS
<1>. TRIES \in Nat \ {0}
  BY PlaybackAssumption DEF PlaybackAssumption
<1>. InpRest
  BY DEF InpInv
<1>1. /\ attached - 1 = IF attached = 1 THEN 0 ELSE -1
      /\ attached + 1 = IF attached = 0 THEN 1 ELSE 2
      /\ attached > 0 <=> attached = 1
  BY DEF InpRest
<1>2. tries' \in 0 .. TRIES /\ (at' = "dialling" => tries' < TRIES)
  <2>. tries \in 0 .. TRIES /\ (at = "dialling" => tries < TRIES)
    BY DEF InpInv
  <2>1. \/ tries' = 0
        \/ tries' = tries /\ (at' = "dialling" => at = "dialling" \/ tries # TRIES)
        \/ tries' = tries + 1 /\ at = "dialling" /\ at' # "dialling"
    BY Zenon DEF Inp!Next, Inp!UpstreamEnds, Inp!EnqueueThrows, Inp!GapOver, Inp!DialAnswers,
           Inp!WaitOver, Inp!GivesUp, Inp!Abort, Inp!ReadDone
  <2>. QED
    BY <2>1
<1>. USE DEF InpRest
<1>3. CASE Inp!UpstreamEnds
  BY <1>1, <1>2, <1>3 DEF Inp!UpstreamEnds, InpInv
<1>4. CASE Inp!EnqueueThrows
  BY <1>1, <1>2, <1>4 DEF Inp!EnqueueThrows, InpInv
<1>5. CASE Inp!GapOver
  BY <1>1, <1>2, <1>5 DEF Inp!GapOver, InpInv
<1>6. CASE Inp!DialAnswers
  <2>1. attached = 0
    BY <1>6 DEF Inp!DialAnswers
  <2>2. InpRest'
    <3>1. CASE at' = "reading" /\ attached' = attached + 1 /\ reader' = TRUE
      BY <1>1, <1>6, <2>1, <3>1 DEF Inp!DialAnswers
    <3>2. CASE at' = "waiting" /\ UNCHANGED <<attached, reader>>
      BY <1>6, <2>1, <3>2 DEF Inp!DialAnswers
    <3>. QED
      BY <1>6, <3>1, <3>2, Zenon DEF Inp!DialAnswers
  <2>. QED
    BY <1>2, <2>2, Zenon DEF InpInv
<1>7. CASE Inp!WaitOver
  BY <1>1, <1>2, <1>7 DEF Inp!WaitOver, InpInv
<1>8. CASE Inp!Abort
  BY <1>1, <1>2, <1>8 DEF Inp!Abort, Inp!Released, InpInv
<1>9. CASE Inp!ReadDone
  BY <1>1, <1>2, <1>9 DEF Inp!ReadDone, InpInv
<1>. QED
  BY <1>3, <1>4, <1>5, <1>6, <1>7, <1>8, <1>9 DEF Inp!Next

LEMMA InpRests == InpInv /\ UNCHANGED inputVars => InpInv'
BY DEF InpInv, InpRest, inputVars

\* Only the client's own step changes "gone", and its listeners find what is attached.
LEMMA InpLeavesDetached == InpInv /\ Inp!Next => (gone' # gone => attached' = 0)
<1>. SUFFICES ASSUME InpInv, Inp!Next, gone' # gone PROVE attached' = 0
  OBVIOUS
<1>1. Inp!Abort
  BY DEF Inp!Next, Inp!UpstreamEnds, Inp!EnqueueThrows, Inp!GapOver, Inp!DialAnswers,
         Inp!WaitOver, Inp!ReadDone
<1>2. attached' = IF reader THEN attached - 1 ELSE attached
  BY <1>1 DEF Inp!Abort, Inp!Released
<1>3. ~gone
  BY <1>1 DEF Inp!Abort
<1>4. attached - 1 = IF attached = 1 THEN 0 ELSE -1
  BY DEF InpInv, InpRest
<1>. QED
  BY <1>2, <1>3, <1>4, Zenon DEF InpInv, InpRest
-----------------------------------------------------------------------------
(* Hls: the segmenters of a channel.                                       *)

SegInv == Seg!TypeOK /\ Seg!SegmenterIsRegistered

LEMMA SegInit == Seg!Init => SegInv
BY PlaybackAssumption
   DEF Seg!Init, SegInv, Seg!TypeOK, Seg!SegmenterIsRegistered, Seg!States, PlaybackAssumption

LEMMA SegStep == SegInv /\ Seg!Next => SegInv'
<1>. SUFFICES ASSUME SegInv, Seg!Next PROVE SegInv'
  OBVIOUS
<1>. Nobody \notin Segmenters
  BY PlaybackAssumption DEF PlaybackAssumption
<1>. USE DEF SegInv, Seg!TypeOK, Seg!SegmenterIsRegistered, Seg!States
<1>1. ASSUME NEW r \in Requests, Seg!Playlist(r) PROVE SegInv'
  <2>1. CASE Seg!Starts(r)
    <3>1. session = Nobody /\ dir' = TRUE /\ index' = Nobody
      BY <2>1 DEF Seg!Starts
    <3>2. ASSUME NEW p \in Segmenters,
                 /\ segmenter' = [segmenter EXCEPT ![p] = "running"]
                 /\ session' = p
                 /\ fresh' = TRUE
                 /\ request' = [request EXCEPT ![r] = "polling"]
          PROVE  SegInv'
      BY <3>1, <3>2
    <3>3. CASE UNCHANGED <<segmenter, session, fresh, request>>
      BY <3>1, <3>3
    <3>. QED
      BY <2>1, <3>2, <3>3 DEF Seg!Starts
  <2>2. CASE Seg!Joins(r)
    BY <2>2 DEF Seg!Joins
  <2>. QED
    BY <1>1, <2>1, <2>2 DEF Seg!Playlist
<1>2. ASSUME NEW r \in Requests, Seg!Polls(r) \/ Seg!TimesOut(r) PROVE SegInv'
  BY <1>2 DEF Seg!Polls, Seg!TimesOut, Seg!Answer
<1>3. CASE Seg!Segment
  BY <1>3 DEF Seg!Segment
<1>4. CASE Seg!GoesIdle
  BY <1>4 DEF Seg!GoesIdle
<1>5. CASE Seg!Reaps
  BY <1>5 DEF Seg!Reaps
<1>6. ASSUME NEW p \in Segmenters, Seg!Writes(p) PROVE SegInv'
  BY <1>6 DEF Seg!Writes
<1>7. ASSUME NEW p \in Segmenters, Seg!Exits(p) \/ Seg!Kill9(p) PROVE SegInv'
  BY <1>7 DEF Seg!Exits, Seg!Kill9, Seg!Forgotten
<1>. QED
  BY <1>1, <1>2, <1>3, <1>4, <1>5, <1>6, <1>7 DEF Seg!Next

LEMMA SegRests == SegInv /\ UNCHANGED hlsVars => SegInv'
BY DEF SegInv, hlsVars, Seg!TypeOK, Seg!SegmenterIsRegistered
-----------------------------------------------------------------------------
(* Slate: the reel and those who share its mux.                            *)

ReelRest ==
  /\ sub \in [Subs -> {"none", "viewer", "plain"}]
  /\ slate \in BOOLEAN /\ keyframe \in BOOLEAN /\ sawLive \in BOOLEAN
  /\ h264 \in BOOLEAN /\ stopping \in BOOLEAN
  /\ held \in {"no", "holding", "over"}
  /\ held # "no" => slate
  /\ fed \in {"none", "held", "spliced", "raw"}
  /\ Reel!ReelIsForViewers

ReelInv == ReelRest /\ loading \in 0 .. MAX_LOADS

LEMMA ReelIsTyped == ReelInv => Reel!TypeOK /\ Reel!ReelIsForViewers
BY Zenon DEF ReelInv, ReelRest, Reel!TypeOK

LEMMA ReelInit == Reel!Init => ReelInv
<1>. SUFFICES ASSUME Reel!Init PROVE ReelInv
  OBVIOUS
<1>1. loading \in 0 .. MAX_LOADS
  BY PlaybackAssumption DEF Reel!Init, PlaybackAssumption
<1>2. ReelRest
  BY DEF ReelRest, Reel!Init, Reel!ReelIsForViewers, Reel!PlainIn
<1>. QED
  BY <1>1, <1>2 DEF ReelInv

LEMMA ReelStep == ReelInv /\ Reel!Next => ReelInv'
<1>. SUFFICES ASSUME ReelInv, Reel!Next PROVE ReelInv'
  OBVIOUS
<1>1. loading' \in 0 .. MAX_LOADS
  <2>1. \/ loading' = loading
        \/ loading < MAX_LOADS /\ loading' = loading + 1
        \/ loading > 0 /\ loading' = loading - 1
    BY Zenon DEF Reel!Next, Reel!Attach, Reel!Detach, Reel!ReelLoaded, Reel!Live,
       Reel!HoldRunsOut, Reel!FailOver, Reel!Expire, Reel!Teardown
  <2>2. loading \in 0 .. MAX_LOADS /\ MAX_LOADS \in Nat
    BY PlaybackAssumption DEF ReelInv, PlaybackAssumption
  <2>. QED
    BY <2>1, <2>2
<1>2. ReelRest'
  <2>. ReelRest
    BY DEF ReelInv
  <2>. USE DEF ReelRest, Reel!ReelIsForViewers, Reel!PlainIn, Reel!SlateOff
  <2>1. ASSUME NEW s \in Subs, NEW kind \in {"viewer", "plain"}, Reel!Attach(s, kind)
        PROVE  ReelRest'
    <3>1. sub' = [sub EXCEPT ![s] = kind] /\ UNCHANGED <<keyframe, sawLive, h264, stopping, fed>>
      BY <2>1 DEF Reel!Attach
    <3>2. IF kind = "plain" THEN slate' = FALSE /\ held' = "no" ELSE UNCHANGED <<slate, held>>
      BY <2>1, Zenon DEF Reel!Attach
    <3>. QED
      BY <3>1, <3>2
  <2>2. ASSUME NEW s \in Subs, Reel!Detach(s) PROVE ReelRest'
    BY <2>2 DEF Reel!Detach
  <2>3. CASE Reel!ReelLoaded
    <3>1. UNCHANGED <<sub, keyframe, sawLive, h264, stopping, fed>>
      BY <2>3 DEF Reel!ReelLoaded
    <3>2. \/ Reel!MayStart /\ slate' = TRUE /\ held' = "no"
          \/ UNCHANGED <<slate, held>>
      BY <2>3, Zenon DEF Reel!ReelLoaded
    <3>3. CASE Reel!MayStart /\ slate' = TRUE /\ held' = "no"
      BY <3>1, <3>3 DEF Reel!MayStart
    <3>4. CASE UNCHANGED <<slate, held>>
      BY <3>1, <3>4
    <3>. QED
      BY <3>2, <3>3, <3>4
  <2>4. CASE Reel!Live
    BY <2>4 DEF Reel!Live, Reel!Hold
  <2>5. CASE Reel!HoldRunsOut
    BY <2>5 DEF Reel!HoldRunsOut
  <2>6. CASE Reel!FailOver
    BY <2>6 DEF Reel!FailOver
  <2>7. CASE Reel!Expire
    BY <2>7 DEF Reel!Expire
  <2>8. CASE Reel!Teardown
    BY <2>8 DEF Reel!Teardown
  <2>. QED
    BY <2>1, <2>2, <2>3, <2>4, <2>5, <2>6, <2>7, <2>8 DEF Reel!Next
<1>. QED
  BY <1>1, <1>2 DEF ReelInv

LEMMA ReelRests == ReelInv /\ UNCHANGED slateVars => ReelInv'
BY DEF ReelInv, ReelRest, slateVars, Reel!ReelIsForViewers, Reel!PlainIn

\* Every step that ends a reel says what becomes of its viewers.
LEMMA ReelLeaves == ReelInv /\ Reel!Next =>
  (slate /\ ~slate' /\ ~sawLive' =>
     (\A s \in Subs : sub'[s] = "none") \/ Reel!PlainIn(sub') \/ ~h264')
<1>. SUFFICES ASSUME ReelInv, Reel!Next, slate, ~slate', ~sawLive'
              PROVE (\A s \in Subs : sub'[s] = "none") \/ Reel!PlainIn(sub') \/ ~h264'
  OBVIOUS
<1>. ReelRest
  BY DEF ReelInv
<1>. USE DEF Reel!SlateOff
<1>1. ASSUME NEW s \in Subs, NEW kind \in {"viewer", "plain"}, Reel!Attach(s, kind)
      PROVE Reel!PlainIn(sub')
  BY <1>1, Zenon DEF Reel!Attach, Reel!PlainIn, ReelRest
<1>2. ASSUME NEW s \in Subs, Reel!Detach(s) PROVE \A t \in Subs : sub'[t] = "none"
  BY <1>2 DEF Reel!Detach
<1>3. ~Reel!Live /\ ~Reel!ReelLoaded /\ ~Reel!HoldRunsOut
  BY DEF Reel!Live, Reel!ReelLoaded, Reel!HoldRunsOut
<1>4. CASE Reel!FailOver
  BY <1>4 DEF Reel!FailOver
<1>5. CASE Reel!Expire
  <2>1. ~sawLive
    BY DEF ReelRest, Reel!ReelIsForViewers
  <2>. QED
    BY <1>5, <2>1 DEF Reel!Expire, Reel!Stranded
<1>6. CASE Reel!Teardown
  BY <1>6 DEF Reel!Teardown
<1>. QED
  BY <1>1, <1>2, <1>3, <1>4, <1>5, <1>6 DEF Reel!Next
-----------------------------------------------------------------------------
(* Feeder: positions and the clock.                                        *)

\* Since the last rewind exactly what is due was pushed: the reel is rewound in the
\* step that reaches its end.  The last push ended where the next one begins, or at
\* the end of the reel.
FeedInv ==
  /\ tailStart \in 0 .. LENGTH /\ segmentStart \in 0 .. LENGTH /\ pos \in 0 .. LENGTH
  /\ epoch \in 0 .. MAX_TICKS + MAX_LATE /\ age \in 0 .. MAX_TICKS + MAX_LATE
  /\ epoch <= age
  /\ pos = segmentStart + RATE * epoch
  /\ chunk.to = pos \/ (chunk.to = LENGTH /\ pos = tailStart)

FeedRuns == running \in BOOLEAN /\ (running => age = 0 \/ age < MAX_TICKS)

LEMMA FeedNumbers == LENGTH \in Nat /\ RATE \in Nat /\ MAX_TICKS \in Nat /\ MAX_LATE \in Nat
                     /\ TAILS \subseteq Nat /\ STARTS \subseteq Nat
BY PlaybackAssumption DEF PlaybackAssumption

\* Multiplication by the rate, as the steps need it.
LEMMA Rates ==
  ASSUME NEW a \in Nat, NEW b \in Nat
  PROVE  /\ RATE * a \in Nat /\ RATE * 0 = 0
         /\ RATE * (a + b) = RATE * a + RATE * b
BY FeedNumbers

LEMMA FeedIsTyped == FeedInv /\ FeedRuns => Feed!TypeOK /\ Feed!PlaysAtRealTime
<1>. SUFFICES ASSUME FeedInv, FeedRuns PROVE Feed!TypeOK /\ Feed!PlaysAtRealTime
  OBVIOUS
<1>1. Feed!TypeOK
  BY Zenon DEF Feed!TypeOK, FeedInv, FeedRuns
<1>2. RATE * epoch \in Nat
  BY FeedNumbers, Rates DEF FeedInv
<1>3. Feed!PlaysAtRealTime
  BY <1>2, FeedNumbers DEF FeedInv, Feed!PlaysAtRealTime
<1>. QED
  BY <1>1, <1>3

LEMMA FeedInit == Feed!Init => FeedInv /\ FeedRuns
<1>. SUFFICES ASSUME Feed!Init PROVE FeedInv /\ FeedRuns
  OBVIOUS
<1>0. PICK s \in STARTS, t \in TAILS :
       /\ tailStart = Feed!Least(LENGTH, t)
       /\ pos = Feed!StartAt(s, tailStart) /\ segmentStart = Feed!StartAt(s, tailStart)
       /\ epoch = 0 /\ age = 0 /\ running = TRUE
       /\ chunk = [from |-> pos, to |-> pos]
  BY DEF Feed!Init
<1>1. s \in Nat /\ t \in Nat
  BY FeedNumbers
<1>6. tailStart = Feed!Least(LENGTH, t)
  BY <1>0
<1>7. pos = Feed!StartAt(s, tailStart) /\ segmentStart = Feed!StartAt(s, tailStart)
  BY <1>0
<1>8. epoch = 0 /\ age = 0
  BY <1>0
<1>9. chunk = [from |-> pos, to |-> pos]
  BY <1>0
<1>2. tailStart \in 0 .. LENGTH
  BY <1>6, <1>1, FeedNumbers DEF Feed!Least
<1>3. pos \in 0 .. LENGTH /\ segmentStart \in 0 .. LENGTH /\ pos = segmentStart + RATE * 0
  BY <1>7, <1>1, <1>2, FeedNumbers, Rates DEF Feed!Least, Feed!Greatest, Feed!StartAt
<1>4. FeedInv
  <2>1. pos = segmentStart + RATE * epoch /\ chunk.to = pos
    <3>1. chunk.to = pos
      BY <1>9
    <3>. QED
      BY <1>3, <1>8, <3>1, Zenon
  <2>2. epoch \in 0 .. MAX_TICKS + MAX_LATE /\ age \in 0 .. MAX_TICKS + MAX_LATE /\ epoch <= age
    BY <1>8, FeedNumbers
  <2>. QED
    BY <1>2, <1>3, <2>1, <2>2, Zenon DEF FeedInv
<1>5. FeedRuns
  BY <1>0, Zenon DEF FeedRuns
<1>. QED
  BY <1>4, <1>5

\* A tick that goes on plays exactly what is due, or reaches the end.
LEMMA FeedPlays ==
  ASSUME FeedInv, NEW ticks \in 1 .. MAX_LATE, Feed!Plays(ticks)
  PROVE  /\ FeedInv'
         /\ chunk'.from = pos
         /\ chunk'.to - chunk'.from <= RATE * ticks
         /\ age' = age + ticks
<1>. ticks \in Nat
  BY FeedNumbers
<1>. DEFINE target == Feed!Least(LENGTH, segmentStart + RATE * (epoch + ticks))
            there  == Feed!Greatest(pos, target)
<1>1. /\ RATE * epoch \in Nat /\ RATE * ticks \in Nat
      /\ RATE * (epoch + ticks) = RATE * epoch + RATE * ticks /\ RATE * 0 = 0
  BY FeedNumbers, Rates DEF FeedInv
<1>2. /\ target \in 0 .. LENGTH /\ there \in 0 .. LENGTH /\ pos <= there
      /\ there - pos <= RATE * ticks
      /\ there < LENGTH => there = segmentStart + RATE * (epoch + ticks)
  BY <1>1, FeedNumbers DEF FeedInv, Feed!Least, Feed!Greatest
<1>3. /\ age + ticks < MAX_TICKS /\ age' = age + ticks
      /\ chunk' = [from |-> pos, to |-> there]
      /\ tailStart' = tailStart
      /\ IF there >= LENGTH THEN pos' = tailStart /\ segmentStart' = tailStart /\ epoch' = 0
         ELSE pos' = there /\ epoch' = epoch + ticks /\ segmentStart' = segmentStart
  BY DEF Feed!Plays, Feed!Rewind
<1>. HIDE DEF target, there
<1>4. FeedInv'
  <2>. /\ tailStart \in 0 .. LENGTH /\ segmentStart \in 0 .. LENGTH
       /\ epoch \in Nat /\ age \in Nat /\ epoch <= age
    BY FeedNumbers DEF FeedInv
  <2>1. /\ tailStart' \in 0 .. LENGTH /\ segmentStart' \in 0 .. LENGTH /\ pos' \in 0 .. LENGTH
    BY <1>2, <1>3
  <2>2. /\ epoch' \in 0 .. MAX_TICKS + MAX_LATE /\ age' \in 0 .. MAX_TICKS + MAX_LATE
        /\ epoch' <= age'
    BY <1>3, FeedNumbers
  <2>3. pos' = segmentStart' + RATE * epoch'
    <3>1. CASE there >= LENGTH
      <4>1. RATE * epoch' = 0 /\ pos' = tailStart /\ segmentStart' = tailStart
        BY <1>1, <1>3, <3>1
      <4>. QED
        BY <4>1
    <3>2. CASE there < LENGTH
      <4>1. pos' = there /\ epoch' = epoch + ticks /\ segmentStart' = segmentStart
        BY <1>2, <1>3, <3>2, FeedNumbers
      <4>2. there = segmentStart + RATE * (epoch + ticks)
        BY <1>2, <3>2
      <4>. QED
        BY <4>1, <4>2, Zenon
    <3>. QED
      BY <1>2, <3>1, <3>2, FeedNumbers
  <2>4. chunk'.to = pos' \/ (chunk'.to = LENGTH /\ pos' = tailStart')
    <3>1. chunk'.to = there /\ tailStart' = tailStart
      BY <1>3
    <3>2. pos' = there \/ (there >= LENGTH /\ pos' = tailStart)
      BY <1>2, <1>3, FeedNumbers
    <3>3. there >= LENGTH => there = LENGTH
      BY <1>2, FeedNumbers
    <3>. QED
      BY <3>1, <3>2, <3>3, Zenon
  <2>. QED
    BY <2>1, <2>2, <2>3, <2>4, Zenon DEF FeedInv
<1>. QED
  BY <1>2, <1>3, <1>4

LEMMA FeedStep == FeedInv /\ FeedRuns /\ Feed!Next => FeedInv' /\ FeedRuns'
<1>. SUFFICES ASSUME FeedInv, FeedRuns, Feed!Next PROVE FeedInv' /\ FeedRuns'
  OBVIOUS
<1>0. PICK ticks \in 1 .. MAX_LATE : Feed!Expires(ticks) \/ Feed!Plays(ticks)
  BY DEF Feed!Next, Feed!Tick
<1>1. running /\ (age = 0 \/ age < MAX_TICKS)
  BY Zenon DEF Feed!Next, Feed!Tick, FeedRuns
<1>2. CASE Feed!Expires(ticks)
  <2>1. age' = age + ticks /\ running' = FALSE /\ UNCHANGED <<tailStart, pos, segmentStart, epoch, chunk>>
    BY <1>2 DEF Feed!Expires
  <2>2. FeedInv'
    BY <1>1, <2>1, FeedNumbers DEF FeedInv
  <2>. QED
    BY <2>1, <2>2, Zenon DEF FeedRuns
<1>3. CASE Feed!Plays(ticks)
  <2>1. running' = running /\ age' < MAX_TICKS
    BY <1>3 DEF Feed!Plays
  <2>2. FeedInv'
    BY <1>3, FeedPlays
  <2>. QED
    BY <2>1, <2>2, Zenon DEF FeedRuns
<1>. QED
  BY <1>0, <1>2, <1>3

LEMMA FeedRests == FeedInv /\ FeedRuns /\ UNCHANGED feederVars => FeedInv' /\ FeedRuns'
<1>. SUFFICES ASSUME FeedInv, FeedRuns, UNCHANGED feederVars PROVE FeedInv' /\ FeedRuns'
  OBVIOUS
<1>1. FeedInv'
  BY DEF FeedInv, feederVars
<1>2. FeedRuns'
  BY Zenon DEF FeedRuns, feederVars
<1>. QED
  BY <1>1, <1>2

\* A push begins where the last one ended, or at the tail when that was the end.
LEMMA FeedPlaysInOrder ==
  FeedInv /\ Feed!Next => (chunk' # chunk =>
    /\ chunk'.from # chunk.to => chunk.to = LENGTH /\ chunk'.from = tailStart
    /\ chunk'.to - chunk'.from <= RATE * (age' - age))
<1>. SUFFICES ASSUME FeedInv, Feed!Next, chunk' # chunk
              PROVE /\ chunk'.from # chunk.to => chunk.to = LENGTH /\ chunk'.from = tailStart
                    /\ chunk'.to - chunk'.from <= RATE * (age' - age)
  OBVIOUS
<1>1. PICK ticks \in 1 .. MAX_LATE : Feed!Plays(ticks)
  BY DEF Feed!Next, Feed!Tick, Feed!Expires
<1>2. /\ chunk'.from = pos /\ age' = age + ticks
      /\ chunk'.to - chunk'.from <= RATE * ticks
  BY <1>1, FeedPlays
<1>3. age' - age = ticks
  BY <1>2, FeedNumbers DEF FeedInv
<1>. QED
  BY <1>2, <1>3 DEF FeedInv
-----------------------------------------------------------------------------
(* Transcode: what every ffmpeg and every viewer has.                      *)

\* Cardinality as Transcode sees it.
LEMMA TcCardinality == \A S : Tc!Cardinality(S) = Cardinality(S)
<1>1. \A S : Tc!IsFiniteSet(S) = IsFiniteSet(S)
  BY DEF Tc!IsFiniteSet, IsFiniteSet
<1>. QED
  BY <1>1 DEF Tc!Cardinality, Cardinality, Tc!IsFiniteSet, IsFiniteSet

TcTypes ==
  /\ active \in Objects \cup {Nothing}
  /\ phase \in [Objects -> Tc!Phases]
  /\ grace \subseteq Objects
  /\ opener \in [Objects -> SUBSET Tabs]
  /\ watching \in [Tabs -> Objects \cup {Nothing}]
  /\ early \subseteq Tabs

\* One open waits for each start(), and it watches nothing else meanwhile.
TcOpeners ==
  /\ \A o \in Objects : phase[o] = "starting" => \E v \in Tabs : opener[o] = {v}
  /\ \A o \in Objects : phase[o] # "starting" => opener[o] = {}
  /\ \A o \in Objects : \A v \in opener[o] : watching[v] = Nothing
  /\ \A o, p \in Objects : \A v \in opener[o] : v \in opener[p] => o = p

\* FfmpegIsHeld, viewer by viewer.
TcHeld == \A o \in Objects :
  /\ phase[o] \in {"up", "silent"} => o \in grace \/ \E v \in Tabs : watching[v] = o
  /\ o \in grace => \A v \in Tabs : watching[v] # o

\* A new viewer finds an object that starts or runs; one that attached while it started
\* is remembered.
TcServed ==
  /\ active # Nothing => phase[active] \in {"starting", "up", "silent", "ending"}
  /\ \A v \in Tabs : \A o \in Objects :
       watching[v] = o /\ phase[o] = "starting" => v \in early
  /\ \A v \in Tabs : watching[v] # Nothing =>
       \/ phase[watching[v]] \in {"starting", "up", "silent", "ending"}
       \/ v \in early /\ phase[watching[v]] = "failed"

TcInv == TcTypes /\ TcOpeners /\ TcHeld /\ TcServed

LEMMA TcIsTyped == TcInv => Tc!TypeOK /\ Tc!FfmpegIsHeld /\ Tc!AttachedIsServed
<1>. SUFFICES ASSUME TcInv PROVE Tc!TypeOK /\ Tc!FfmpegIsHeld /\ Tc!AttachedIsServed
  OBVIOUS
<1>1. \A o \in Objects : Tc!Cardinality(opener[o]) = (IF phase[o] = "starting" THEN 1 ELSE 0)
  <2>. SUFFICES ASSUME NEW o \in Objects
                PROVE  Cardinality(opener[o]) = (IF phase[o] = "starting" THEN 1 ELSE 0)
    BY TcCardinality
  <2>1. CASE phase[o] = "starting"
    <3>. PICK v \in Tabs : opener[o] = {v}
      BY <2>1 DEF TcInv, TcOpeners
    <3>1. Cardinality({v}) = 1
      BY FS_Singleton
    <3>. QED
      BY <2>1, <3>1
  <2>2. CASE phase[o] # "starting"
    BY <2>2, FS_EmptySet DEF TcInv, TcOpeners
  <2>. QED
    BY <2>1, <2>2
<1>2. Tc!TypeOK
  BY <1>1, Zenon DEF Tc!TypeOK, TcInv, TcTypes
<1>3. Tc!FfmpegIsHeld
  BY DEF Tc!FfmpegIsHeld, Tc!Running, Tc!Watchers, TcInv, TcHeld
<1>4. Tc!AttachedIsServed
  BY DEF Tc!AttachedIsServed, TcInv, TcServed
<1>. QED
  BY <1>2, <1>3, <1>4

LEMMA TcInit == Tc!Init => TcInv
BY PlaybackAssumption DEF PlaybackAssumption, Tc!Init, Tc!Phases, TcInv, TcTypes, TcOpeners,
   TcHeld, TcServed

LEMMA TcStep == TcInv /\ Tc!Next => TcInv'
<1>. SUFFICES ASSUME TcInv, Tc!Next PROVE TcInv'
  OBVIOUS
<1>. Nothing \notin Objects
  BY PlaybackAssumption DEF PlaybackAssumption
<1>. USE DEF TcInv, TcTypes, Tc!Phases
<1>1. ASSUME NEW v \in Tabs, Tc!Open(v) PROVE TcInv'
  <2>0. watching[v] = Nothing /\ \A o \in Objects : v \notin opener[o]
    BY <1>1 DEF Tc!Open, Tc!Waiting
  <2>1. CASE Tc!OpensFirst(v)
    <3>. PICK o \in Objects : /\ phase[o] = "unused"
                              /\ active' = o
                              /\ phase' = [phase EXCEPT ![o] = "starting"]
                              /\ opener' = [opener EXCEPT ![o] = {v}]
      BY <2>1 DEF Tc!OpensFirst
    <3>. UNCHANGED <<grace, watching, early>>
      BY <2>1 DEF Tc!OpensFirst
    <3>1. TcTypes'
      OBVIOUS
    <3>2. TcOpeners'
      BY <2>0 DEF TcOpeners
    <3>3. TcHeld'
      BY DEF TcHeld
    <3>4. TcServed'
      BY DEF TcServed
    <3>. QED
      BY <3>1, <3>2, <3>3, <3>4
  <2>2. CASE Tc!OpensLater(v)
    <3>. /\ active \in Objects /\ watching' = [watching EXCEPT ![v] = active]
         /\ grace' = grace \ {active}
         /\ early' = IF phase[active] = "starting" THEN early \cup {v} ELSE early \ {v}
         /\ UNCHANGED <<active, phase, opener>>
      BY <2>2 DEF Tc!OpensLater, Tc!Attaches
    <3>1. TcTypes'
      OBVIOUS
    <3>2. TcOpeners'
      BY <2>0 DEF TcOpeners
    <3>3. TcHeld'
      BY <2>0 DEF TcHeld
    <3>4. TcServed'
      BY <2>0 DEF TcServed
    <3>. QED
      BY <3>1, <3>2, <3>3, <3>4
  <2>. QED
    BY <1>1, <2>1, <2>2 DEF Tc!Open
<1>2. ASSUME NEW v \in Tabs, Tc!Detach(v) PROVE TcInv'
  <2>. DEFINE o == watching[v]
  <2>. /\ o \in Objects /\ watching' = [watching EXCEPT ![v] = Nothing]
       /\ early' = early \ {v}
       /\ grace' = IF Tc!Watchers(o) = {v} THEN grace \cup {o} ELSE grace
       /\ UNCHANGED <<active, phase, opener>>
    BY <1>2 DEF Tc!Detach
  <2>1. TcTypes'
    OBVIOUS
  <2>2. TcOpeners'
    BY DEF TcOpeners
  <2>3. TcHeld'
    BY DEF TcHeld, Tc!Watchers
  <2>4. TcServed'
    BY DEF TcServed
  <2>. QED
    BY <2>1, <2>2, <2>3, <2>4
<1>3. ASSUME NEW o \in Objects, Tc!Started(o) PROVE TcInv'
  <2>. PICK v \in opener[o] : watching' = [watching EXCEPT ![v] = o] /\ grace' = grace \ {o}
                              /\ early' = early \ {v}
    BY <1>3 DEF Tc!Started, Tc!Attaches
  <2>. /\ phase[o] = "starting" /\ phase' = [phase EXCEPT ![o] = "up"]
       /\ opener' = [opener EXCEPT ![o] = {}]
       /\ UNCHANGED active
       /\ v \in Tabs /\ watching[v] = Nothing
    BY <1>3 DEF Tc!Started, TcOpeners
  <2>1. TcTypes'
    OBVIOUS
  <2>2. TcOpeners'
    BY DEF TcOpeners
  <2>3. TcHeld'
    BY DEF TcHeld
  <2>4. TcServed'
    BY DEF TcServed
  <2>. QED
    BY <2>1, <2>2, <2>3, <2>4
<1>4. ASSUME NEW o \in Objects, Tc!StartFails(o) PROVE TcInv'
  <2>. /\ phase[o] = "starting"
       /\ opener' = [opener EXCEPT ![o] = {}]
       /\ active' = Nothing
       /\ UNCHANGED <<grace, watching, early>>
    BY <1>4 DEF Tc!StartFails
  <2>0. phase' = [p \in Objects |->
          IF p = o \/ phase[p] = "failed"
            THEN IF (\A v \in Tabs : watching[v] # p) /\ p \notin grace THEN "unused" ELSE "failed"
            ELSE phase[p]]
    BY <1>4 DEF Tc!StartFails, Tc!Collected, Tc!Watchers
  <2>1. TcTypes'
    BY <2>0
  <2>2. TcOpeners'
    BY <2>0 DEF TcOpeners
  <2>3. TcHeld'
    BY <2>0 DEF TcHeld
  <2>4. TcServed'
    BY <2>0 DEF TcServed
  <2>. QED
    BY <2>1, <2>2, <2>3, <2>4
<1>5. ASSUME NEW o \in Objects, Tc!FallsSilent(o) \/ Tc!Ends(o) \/ Tc!Watchdog(o) PROVE TcInv'
  <2>. PICK ph \in {"silent", "ending"} : phase' = [phase EXCEPT ![o] = ph]
    BY <1>5 DEF Tc!FallsSilent, Tc!Ends, Tc!Watchdog
  <2>. /\ phase[o] \in {"up", "silent"}
       /\ UNCHANGED <<active, grace, opener, watching, early>>
    BY <1>5 DEF Tc!FallsSilent, Tc!Ends, Tc!Watchdog
  <2>1. TcTypes'
    OBVIOUS
  <2>2. TcOpeners'
    BY DEF TcOpeners
  <2>3. TcHeld'
    BY DEF TcHeld
  <2>4. TcServed'
    BY DEF TcServed
  <2>. QED
    BY <2>1, <2>2, <2>3, <2>4
<1>6. ASSUME NEW o \in Objects, Tc!PumpEnds(o) PROVE TcInv'
  <2>. /\ phase[o] \in {"ending", "torn"}
       /\ phase' = [phase EXCEPT ![o] = "unused"]
       /\ grace' = grace \ {o}
       /\ watching' = [v \in Tabs |-> IF watching[v] = o THEN Nothing ELSE watching[v]]
       /\ early' = early \ {v \in Tabs : watching[v] = o}
       /\ active' = Nothing
       /\ UNCHANGED opener
    BY <1>6 DEF Tc!PumpEnds, Tc!Watchers
  <2>1. TcTypes'
    OBVIOUS
  <2>2. TcOpeners'
    BY DEF TcOpeners
  <2>3. TcHeld'
    BY DEF TcHeld
  <2>4. TcServed'
    BY DEF TcServed
  <2>. QED
    BY <2>1, <2>2, <2>3, <2>4
<1>7. ASSUME NEW o \in Objects, Tc!GraceFires(o) PROVE TcInv'
  <2>. /\ o \in grace /\ grace' = grace \ {o}
       /\ UNCHANGED <<opener, watching, early>>
       /\ \A v \in Tabs : watching[v] # o
    BY <1>7 DEF Tc!GraceFires, TcHeld
  <2>0. /\ active' = Nothing
        /\ phase' = [phase EXCEPT ![o] =
             CASE @ \in {"up", "silent", "ending"} -> "torn"
               [] @ = "failed" -> "unused"
               [] OTHER -> @]
    BY <1>7 DEF Tc!GraceFires, Tc!Watchers
  <2>1. TcTypes'
    BY <2>0
  <2>2. TcOpeners'
    BY <2>0 DEF TcOpeners
  <2>3. TcHeld'
    BY <2>0 DEF TcHeld
  <2>4. TcServed'
    BY <2>0 DEF TcServed
  <2>. QED
    BY <2>1, <2>2, <2>3, <2>4
<1>. QED
  BY <1>1, <1>2, <1>3, <1>4, <1>5, <1>6, <1>7 DEF Tc!Next

LEMMA TcRests == TcInv /\ UNCHANGED transcodeVars => TcInv'
BY DEF TcInv, TcTypes, TcOpeners, TcHeld, TcServed, transcodeVars
-----------------------------------------------------------------------------
(* ReelCache: manifest, files and the build under way.                     *)

LEMMA RingFamilies ==
  /\ Ring!Range(TwoReels) = {"a", "b"}
  /\ Len(TwoReels) = 2 /\ TwoReels[1] = "a" /\ TwoReels[2] = "b" /\ Head(TwoReels) = "a"
<1>1. Len(TwoReels) = 2 /\ TwoReels[1] = "a" /\ TwoReels[2] = "b" /\ Head(TwoReels) = "a"
      /\ DOMAIN TwoReels = 1 .. 2
  BY DEF TwoReels
<1>2. \A i : i \in 1 .. 2 <=> i = 1 \/ i = 2
  OBVIOUS
<1>. QED
  BY <1>1, <1>2 DEF Ring!Range

LEMMA RingNumbers == RING_SIZE \in Nat /\ RING_SIZE >= 1 /\ MAX_BUILDS \in Nat
BY PlaybackAssumption DEF PlaybackAssumption

LEMMA RingCardinality == \A S : Ring!Cardinality(S) = Cardinality(S)
<1>1. \A S : Ring!IsFiniteSet(S) = IsFiniteSet(S)
  BY DEF Ring!IsFiniteSet, IsFiniteSet
<1>. QED
  BY <1>1 DEF Ring!Cardinality, Cardinality, Ring!IsFiniteSet, IsFiniteSet

\* Both families have the same entries, and no slot twice.
Distinct(entries) == \A i, j \in 1 .. Len(entries) : entries[i].slot = entries[j].slot => i = j

RingShape ==
  /\ ring \in [{"a", "b"} -> Seq(Ring!Entry)]
  /\ ring["a"] = ring["b"]
  /\ Len(ring["a"]) <= RING_SIZE
  /\ Distinct(ring["a"])

\* The build under way has the slot that is next, which it keeps until it saves or gives
\* up.  Only that slot's file may have another reel than its entry.
RingFiles ==
  /\ file \in [{"a", "b"} -> [Ring!Slots -> 0 .. MAX_BUILDS]]
  /\ builds \in 0 .. MAX_BUILDS
  /\ \/ build = Ring!Idle
     \/ /\ build \in Ring!Building
        /\ build.slot = Ring!NextFreeSlot
        /\ \A k \in 1 .. build.placed : file[TwoReels[k]][build.slot] = build.reel
  /\ \A f \in {"a", "b"} : \A i \in 1 .. Len(ring["a"]) :
       file[f][ring["a"][i].slot] # ring["a"][i].reel => ring["a"][i].slot = Ring!NextFreeSlot

RingTunes ==
  /\ cursor \in [{"a", "b"} -> -1 .. RING_SIZE * MAX_BUILDS]
  /\ tune \in [Tunes -> {Ring!Idle} \cup Ring!Tuning \cup Ring!Tuned]
  /\ Ring!ServedIsWhole

RingInv == RingShape /\ RingFiles /\ RingTunes

\* A least element.
LEMMA LeastOf ==
  ASSUME NEW T \in SUBSET Nat, T # {}
  PROVE  \E x \in T : \A y \in T : x <= y
<1>1. PICK x \in T : \A y \in T : ~ (<<y, x>> \in OpToRel(<, Nat))
  BY NatLessThanWellFounded, WFMin
<1>2. ASSUME NEW y \in T PROVE x <= y
  <2>1. ~ (<<y, x>> \in OpToRel(<, Nat))
    BY <1>1
  <2>2. ~ (y < x)
    BY <2>1 DEF OpToRel
  <2>. QED
    BY <2>2
<1>. QED
  BY <1>2

LEMMA RingNext == RingShape => Ring!NextFreeSlot \in Ring!Slots
<1>. SUFFICES ASSUME RingShape PROVE Ring!NextFreeSlot \in Ring!Slots
  OBVIOUS
<1>. DEFINE entries == ring["a"]
            unused  == Ring!Slots \ Ring!SlotsOf(entries)
<1>1. entries \in Seq(Ring!Entry)
  BY DEF RingShape
<1>2. CASE unused # {}
  <2>1. unused \in SUBSET Nat
    BY RingNumbers DEF Ring!Slots
  <2>2. \E s \in unused : \A r \in unused : s <= r
    BY <1>2, <2>1, LeastOf
  <2>3. Ring!NextFreeSlot = CHOOSE s \in unused : \A r \in unused : s <= r
    BY <1>2, RingFamilies DEF Ring!NextFreeSlot
  <2>. QED
    BY <2>2, <2>3
<1>3. CASE unused = {}
  <2>1. entries # << >>
    <3>1. 0 \in Ring!Slots
      BY RingNumbers DEF Ring!Slots
    <3>2. Ring!SlotsOf(<< >>) = {}
      BY DEF Ring!SlotsOf
    <3>. QED
      BY <1>3, <3>1, <3>2
  <2>2. Len(entries) \in 1 .. Len(entries)
    BY <1>1, <2>1
  <2>3. entries[Len(entries)] \in Ring!Entry
    BY <1>1, <2>2
  <2>4. Ring!NextFreeSlot = entries[Len(entries)].slot
    BY <1>3, RingFamilies DEF Ring!NextFreeSlot, Ring!Last
  <2>. QED
    BY <2>3, <2>4 DEF Ring!Entry
<1>. QED
  BY <1>2, <1>3

\* Dropping the entry of a slot.
LEMMA RingKept ==
  ASSUME NEW entries \in Seq(Ring!Entry), Distinct(entries)
  PROVE  /\ Ring!Kept(entries) \in Seq(Ring!Entry)
         /\ \A i \in 1 .. Len(Ring!Kept(entries)) :
              /\ Ring!Kept(entries)[i].slot # build.slot
              /\ \E k \in 1 .. Len(entries) : Ring!Kept(entries)[i] = entries[k]
         /\ Distinct(Ring!Kept(entries))
<1>. DEFINE taken == {i \in DOMAIN entries : entries[i].slot = build.slot}
            kept  == Ring!Kept(entries)
<1>1. CASE taken = {}
  <2>1. kept = entries
    BY <1>1 DEF Ring!Kept
  <2>. QED
    BY <1>1, <2>1
<1>2. CASE taken # {}
  <2>. DEFINE c == CHOOSE i \in taken : TRUE
  <2>1. c \in 1 .. Len(entries) /\ entries[c].slot = build.slot
    BY <1>2
  <2>2. kept = SubSeq(entries, 1, c - 1) \o SubSeq(entries, c + 1, Len(entries))
    BY <1>2 DEF Ring!Kept, Ring!RemoveAt
  <2>. HIDE DEF c, kept, taken
  <2>. DEFINE left == SubSeq(entries, 1, c - 1)  right == SubSeq(entries, c + 1, Len(entries))
  <2>3. /\ left \in Seq(Ring!Entry) /\ Len(left) = c - 1
        /\ \A i \in 1 .. c - 1 : left[i] = entries[i]
    BY <2>1
  <2>4. /\ right \in Seq(Ring!Entry) /\ Len(right) = Len(entries) - c
        /\ \A i \in 1 .. Len(entries) - c : right[i] = entries[i + c]
    BY <2>1
  <2>. HIDE DEF left, right
  <2>5. /\ kept \in Seq(Ring!Entry) /\ Len(kept) = Len(entries) - 1
        /\ \A i \in 1 .. Len(entries) - 1 : kept[i] = entries[IF i < c THEN i ELSE i + 1]
    <3>1. kept = left \o right
      BY <2>2 DEF left, right
    <3>2. /\ kept \in Seq(Ring!Entry) /\ Len(kept) = Len(left) + Len(right)
          /\ \A i \in 1 .. Len(left) + Len(right) :
               kept[i] = IF i <= Len(left) THEN left[i] ELSE right[i - Len(left)]
      BY <2>3, <2>4, <3>1, ConcatProperties
    <3>3. ASSUME NEW i \in 1 .. Len(entries) - 1
          PROVE  kept[i] = entries[IF i < c THEN i ELSE i + 1]
      <4>1. CASE i < c
        <5>1. i \in 1 .. c - 1 /\ i <= Len(left) /\ i \in 1 .. Len(left) + Len(right)
          BY <2>1, <2>3, <2>4, <4>1
        <5>2. kept[i] = left[i] /\ left[i] = entries[i]
          BY <2>3, <3>2, <5>1, Zenon
        <5>. QED
          BY <4>1, <5>2, Zenon
      <4>2. CASE i >= c
        <5>1. /\ i - Len(left) \in 1 .. Len(entries) - c /\ (i - Len(left)) + c = i + 1
              /\ ~ (i <= Len(left)) /\ i \in 1 .. Len(left) + Len(right) /\ ~ (i < c)
          BY <2>1, <2>3, <2>4, <4>2
        <5>2. kept[i] = right[i - Len(left)]
          BY <3>2, <5>1, Zenon
        <5>3. right[i - Len(left)] = entries[i + 1]
          BY <2>4, <5>1, Zenon
        <5>. QED
          BY <5>1, <5>2, <5>3, Zenon
      <4>. QED
        BY <2>1, <4>1, <4>2
    <3>. QED
      BY <2>1, <2>3, <2>4, <3>2, <3>3
  <2>. DEFINE place(i) == IF i < c THEN i ELSE i + 1
  <2>6. \A i \in 1 .. Len(kept) : place(i) \in 1 .. Len(entries) /\ place(i) # c
    BY <2>1, <2>5, SMT
  <2>7. \A i, j \in 1 .. Len(kept) : place(i) = place(j) => i = j
    BY <2>1, <2>5, SMT
  <2>8. \A i \in 1 .. Len(kept) : kept[i] = entries[place(i)]
    BY <2>5, Zenon
  <2>. HIDE DEF place
  <2>9. \A i \in 1 .. Len(kept) : kept[i].slot # build.slot
    <3>1. \A k \in 1 .. Len(entries) : k # c => entries[k].slot # build.slot
      BY <2>1, Zenon DEF Distinct
    <3>. QED
      BY <3>1, <2>6, <2>8, Zenon
  <2>10. Distinct(kept)
    BY <2>6, <2>7, <2>8, Zenon DEF Distinct
  <2>11. \A i \in 1 .. Len(kept) : \E k \in 1 .. Len(entries) : kept[i] = entries[k]
    BY <2>6, <2>8, Zenon
  <2>. QED
    BY <2>5, <2>9, <2>10, <2>11, Zenon DEF kept
<1>. QED
  BY <1>1, <1>2

\* A new reel in front, and no more than the ring may hold.
LEMMA RingRotated ==
  ASSUME NEW entries \in Seq(Ring!Entry), Distinct(entries),
         build.slot \in Ring!Slots, build.reel \in 1 .. MAX_BUILDS
  PROVE  /\ Ring!Rotated(entries) \in Seq(Ring!Entry)
         /\ Len(Ring!Rotated(entries)) <= RING_SIZE
         /\ Distinct(Ring!Rotated(entries))
         /\ \A i \in 1 .. Len(Ring!Rotated(entries)) :
              \/ Ring!Rotated(entries)[i] = [slot |-> build.slot, reel |-> build.reel]
              \/ /\ Ring!Rotated(entries)[i].slot # build.slot
                 /\ \E k \in 1 .. Len(entries) : Ring!Rotated(entries)[i] = entries[k]
<1>. DEFINE fresh_ == [slot |-> build.slot, reel |-> build.reel]
            kept   == Ring!Kept(entries)
            all    == <<fresh_>> \o kept
            n      == IF Len(all) < RING_SIZE THEN Len(all) ELSE RING_SIZE
            new    == Ring!Rotated(entries)
<1>1. fresh_ \in Ring!Entry /\ fresh_.slot = build.slot
  BY DEF Ring!Entry
<1>2. kept \in Seq(Ring!Entry) /\ Distinct(kept)
      /\ \A i \in 1 .. Len(kept) : /\ kept[i].slot # build.slot
                                   /\ \E k \in 1 .. Len(entries) : kept[i] = entries[k]
  BY RingKept
<1>3. new = SubSeq(all, 1, n)
  BY DEF Ring!Rotated
<1>. HIDE DEF fresh_, kept, new
<1>4. /\ all \in Seq(Ring!Entry) /\ Len(all) = Len(kept) + 1
      /\ all[1] = fresh_
      /\ \A i \in 2 .. Len(all) : all[i] = kept[i - 1]
  BY <1>1, <1>2
<1>. HIDE DEF all
<1>5. n \in 1 .. Len(all) /\ n <= RING_SIZE
  BY <1>2, <1>4, RingNumbers
<1>. HIDE DEF n
<1>6. new \in Seq(Ring!Entry) /\ Len(new) = n /\ \A i \in 1 .. n : new[i] = all[i]
  BY <1>3, <1>4, <1>5, SubSeqProperties
<1>7. \A i \in 1 .. n : 
        \/ i = 1 /\ new[i] = fresh_
        \/ i \in 2 .. n /\ i - 1 \in 1 .. Len(kept) /\ new[i] = kept[i - 1]
  BY <1>2, <1>4, <1>5, <1>6
<1>8. ASSUME NEW i \in 1 .. n, NEW j \in 1 .. n, new[i].slot = new[j].slot PROVE i = j
  <2>0. ASSUME NEW k \in 1 .. n, k # 1 PROVE new[k].slot # build.slot
    <3>1. k - 1 \in 1 .. Len(kept) /\ new[k] = kept[k - 1]
      BY <1>7, <2>0
    <3>. QED
      BY <1>2, <3>1, Zenon
  <2>1. CASE i = 1 \/ j = 1
    <3>1. \A k \in 1 .. n : k = 1 => new[k].slot = build.slot
      BY <1>1, <1>5, <1>7
    <3>. QED
      BY <1>8, <2>0, <2>1, <3>1, Zenon
  <2>2. CASE i # 1 /\ j # 1
    <3>1. /\ i - 1 \in 1 .. Len(kept) /\ new[i] = kept[i - 1]
          /\ j - 1 \in 1 .. Len(kept) /\ new[j] = kept[j - 1]
      BY <1>7, <2>2
    <3>2. i - 1 = j - 1
      BY <1>2, <1>8, <3>1 DEF Distinct
    <3>. QED
      BY <3>2
  <2>. QED
    BY <2>1, <2>2
<1>9. Distinct(new)
  BY <1>6, <1>8 DEF Distinct
<1>. QED
  BY <1>2, <1>5, <1>6, <1>7, <1>9 DEF fresh_, new
LEMMA RingSlots == ring' = ring => Ring!NextFreeSlot' = Ring!NextFreeSlot
BY DEF Ring!NextFreeSlot, Ring!SlotsOf, Ring!Last, Ring!Slots

LEMMA RingInit == Ring!Init => RingInv
<1>. SUFFICES ASSUME Ring!Init PROVE RingInv
  OBVIOUS
<1>1. ring = [f \in {"a", "b"} |-> << >>] /\ file = [f \in {"a", "b"} |-> [s \in Ring!Slots |-> 0]]
      /\ cursor = [f \in {"a", "b"} |-> -1]
  BY RingFamilies DEF Ring!Init
<1>2. RingShape
  BY <1>1, RingNumbers DEF RingShape, Distinct
<1>3. RingFiles
  BY <1>1, RingNumbers DEF RingFiles, Ring!Init
<1>4. RingTunes
  <2>1. RING_SIZE * MAX_BUILDS \in Nat
    BY RingNumbers
  <2>2. cursor \in [{"a", "b"} -> -1 .. RING_SIZE * MAX_BUILDS]
    BY <1>1, <2>1
  <2>3. tune = [t \in Tunes |-> Ring!Idle]
    BY DEF Ring!Init
  <2>4. Ring!ServedIsWhole
    BY <2>3 DEF Ring!ServedIsWhole, Ring!Idle
  <2>. QED
    BY <2>2, <2>3, <2>4 DEF RingTunes
<1>. QED
  BY <1>2, <1>3, <1>4 DEF RingInv

\* The numbers of a build, and that one is under way.
LEMMA RingBuild ==
  ASSUME NEW b \in Ring!Building
  PROVE  /\ b.at \in {"composing", "placing"} /\ b.slot \in Ring!Slots
         /\ b.reel \in 1 .. MAX_BUILDS /\ b.placed \in 0 .. 2
         /\ b # Ring!Idle
BY RingFamilies DEF Ring!Building, Ring!Idle

LEMMA RingFilesStep == RingShape /\ RingFiles /\ Ring!Next => RingFiles'
<1>. SUFFICES ASSUME RingShape, RingFiles, Ring!Next PROVE RingFiles'
  OBVIOUS
<1>. DEFINE next_ == Ring!NextFreeSlot
<1>1. next_ \in Ring!Slots /\ (ring' = ring => next_' = next_)
  BY RingNext, RingSlots
<1>. HIDE DEF next_
<1>2. CASE Ring!BuildBegins
  <2>1. /\ builds < MAX_BUILDS /\ builds' = builds + 1
        /\ build' = [at |-> "composing", slot |-> next_, reel |-> builds + 1, placed |-> 0]
        /\ UNCHANGED <<ring, file>>
    BY <1>2 DEF Ring!BuildBegins, next_
  <2>2. builds' \in 0 .. MAX_BUILDS /\ builds + 1 \in 1 .. MAX_BUILDS
    BY <2>1, RingNumbers DEF RingFiles
  <2>3. build' \in Ring!Building /\ build'.slot = next_' /\ build'.placed = 0
    BY <1>1, <2>1, <2>2, RingFamilies DEF Ring!Building
  <2>. QED
    BY <1>1, <2>1, <2>2, <2>3 DEF RingFiles, next_
<1>3. CASE Ring!BuildFails
  <2>1. build' = Ring!Idle /\ UNCHANGED <<ring, file, builds>>
    BY <1>3 DEF Ring!BuildFails
  <2>. QED
    BY <1>1, <2>1 DEF RingFiles, next_
<1>4. CASE Ring!Composed
  <2>1. build \in Ring!Building
    BY <1>4 DEF Ring!Composed, RingFiles, Ring!Idle
  <2>2. build' = [build EXCEPT !.at = "placing"] /\ UNCHANGED <<ring, file, builds>>
    BY <1>4 DEF Ring!Composed
  <2>3. build' \in Ring!Building /\ build'.slot = build.slot /\ build'.reel = build.reel
        /\ build'.placed = build.placed
    BY <2>1, <2>2 DEF Ring!Building
  <2>. QED
    BY <1>1, <2>1, <2>2, <2>3, RingBuild DEF RingFiles, next_
<1>5. CASE Ring!Places
  <2>1. build \in Ring!Building
    BY <1>5 DEF Ring!Places, RingFiles, Ring!Idle
  <2>. DEFINE f == TwoReels[build.placed + 1]
  <2>2. /\ build.placed < 2
        /\ file' = [file EXCEPT ![f][build.slot] = build.reel]
        /\ build' = [build EXCEPT !.placed = @ + 1]
        /\ UNCHANGED <<ring, builds>>
    BY <1>5, RingFamilies DEF Ring!Places
  <2>3. /\ build.slot \in Ring!Slots /\ build.reel \in 1 .. MAX_BUILDS /\ build.placed \in 0 .. 1
        /\ build.at \in {"composing", "placing"} /\ build # Ring!Idle
    BY <2>1, <2>2, RingBuild
  <2>4. f \in {"a", "b"}
    BY <2>3, RingFamilies
  <2>5. build' \in Ring!Building /\ build'.slot = build.slot /\ build'.reel = build.reel
        /\ build'.placed = build.placed + 1
    BY <2>1, <2>2, <2>3, RingFamilies DEF Ring!Building
  <2>. HIDE DEF f
  <2>6. \A g \in {"a", "b"} : \A s \in Ring!Slots :
          file'[g][s] = IF g = f /\ s = build.slot THEN build.reel ELSE file[g][s]
    BY <2>2, <2>3, <2>4 DEF RingFiles
  <2>7. file' \in [{"a", "b"} -> [Ring!Slots -> 0 .. MAX_BUILDS]]
    BY <2>2, <2>3, <2>4, RingNumbers DEF RingFiles
  <2>8. \A k \in 1 .. build'.placed : file'[TwoReels[k]][build'.slot] = build'.reel
    <3>. TAKE k \in 1 .. build'.placed
    <3>1. k \in 1 .. 2 /\ TwoReels[k] \in {"a", "b"}
      BY <2>3, <2>5, RingFamilies
    <3>2. k \in 1 .. build.placed \/ k = build.placed + 1
      BY <2>3, <2>5
    <3>3. k \in 1 .. build.placed => file[TwoReels[k]][build.slot] = build.reel
      BY <2>3 DEF RingFiles
    <3>4. k = build.placed + 1 => TwoReels[k] = f
      BY DEF f
    <3>5. file'[TwoReels[k]][build.slot] = IF TwoReels[k] = f THEN build.reel
                                           ELSE file[TwoReels[k]][build.slot]
      BY <2>3, <2>6, <3>1, Zenon
    <3>. QED
      BY <2>5, <3>2, <3>3, <3>4, <3>5, Zenon
  <2>9. \A g \in {"a", "b"} : \A i \in 1 .. Len(ring["a"]) :
          file'[g][ring["a"][i].slot] # ring["a"][i].reel => ring["a"][i].slot = next_
    <3>. TAKE g \in {"a", "b"}
    <3>. TAKE i \in 1 .. Len(ring["a"])
    <3>1. ring["a"][i].slot \in Ring!Slots
      <4>1. ring["a"] \in Seq(Ring!Entry)
        BY DEF RingShape
      <4>2. ring["a"][i] \in Ring!Entry
        BY <4>1
      <4>. QED
        BY <4>2 DEF Ring!Entry
    <3>2. build.slot = next_
      BY <2>3 DEF RingFiles, next_
    <3>. QED
      BY <2>6, <3>1, <3>2 DEF RingFiles, next_
  <2>. QED
    BY <1>1, <2>2, <2>3, <2>5, <2>7, <2>8, <2>9 DEF RingFiles, next_
<1>6. CASE Ring!SavesManifest
  <2>1. build \in Ring!Building
    BY <1>6 DEF Ring!SavesManifest, RingFiles, Ring!Idle
  <2>2. /\ build.placed = 2 /\ build' = Ring!Idle /\ UNCHANGED <<file, builds>>
        /\ ring' = [f \in {"a", "b"} |-> Ring!Rotated(ring[f])]
    BY <1>6, RingFamilies DEF Ring!SavesManifest
  <2>3. /\ build.slot \in Ring!Slots /\ build.reel \in 1 .. MAX_BUILDS /\ build # Ring!Idle
        /\ build.slot = next_
    BY <2>1, RingBuild DEF RingFiles, next_
  <2>4. \A g \in {"a", "b"} : file[g][build.slot] = build.reel
    <3>1. \A k \in 1 .. build.placed : file[TwoReels[k]][build.slot] = build.reel
      BY <2>3 DEF RingFiles
    <3>. QED
      BY <2>2, <3>1, RingFamilies
  <2>5. \A i \in 1 .. Len(ring'["a"]) :
          \/ ring'["a"][i] = [slot |-> build.slot, reel |-> build.reel]
          \/ /\ ring'["a"][i].slot # build.slot
             /\ \E k \in 1 .. Len(ring["a"]) : ring'["a"][i] = ring["a"][k]
    <3>1. ring["a"] \in Seq(Ring!Entry) /\ Distinct(ring["a"])
      BY DEF RingShape
    <3>2. ring'["a"] = Ring!Rotated(ring["a"])
      BY <2>2
    <3>. QED
      BY <2>3, <3>1, <3>2, RingRotated
  <2>6. \A g \in {"a", "b"} : \A i \in 1 .. Len(ring'["a"]) :
          file[g][ring'["a"][i].slot] = ring'["a"][i].reel
    <3>. TAKE g \in {"a", "b"}
    <3>. TAKE i \in 1 .. Len(ring'["a"])
    <3>1. CASE ring'["a"][i] = [slot |-> build.slot, reel |-> build.reel]
      BY <2>4, <3>1
    <3>2. ASSUME NEW k \in 1 .. Len(ring["a"]), ring'["a"][i] = ring["a"][k],
                 ring["a"][k].slot # build.slot
          PROVE  file[g][ring'["a"][i].slot] = ring'["a"][i].reel
      BY <2>3, <3>2, Zenon DEF RingFiles, next_
    <3>. QED
      BY <2>5, <3>1, <3>2, Zenon
  <2>. QED
    BY <2>2, <2>6 DEF RingFiles
<1>7. ASSUME NEW t \in Tunes, Ring!ReadsFile(t) \/ \E f \in {"a", "b"} : Ring!TakesTurn(t, f)
      PROVE  RingFiles'
  <2>1. UNCHANGED <<ring, file, build, builds>>
    BY <1>7 DEF Ring!ReadsFile, Ring!TakesTurn
  <2>. QED
    BY <1>1, <2>1 DEF RingFiles, next_
<1>. QED
  BY <1>2, <1>3, <1>4, <1>5, <1>6, <1>7, RingFamilies DEF Ring!Next
LEMMA RingShapeStep == RingShape /\ RingFiles /\ Ring!Next => RingShape'
<1>. SUFFICES ASSUME RingShape, RingFiles, Ring!Next PROVE RingShape'
  OBVIOUS
<1>1. CASE Ring!SavesManifest
  <2>1. build \in Ring!Building
    BY <1>1 DEF Ring!SavesManifest, RingFiles, Ring!Idle
  <2>2. build.slot \in Ring!Slots /\ build.reel \in 1 .. MAX_BUILDS
    BY <2>1, RingBuild
  <2>3. ring' = [f \in {"a", "b"} |-> Ring!Rotated(ring[f])]
    BY <1>1, RingFamilies DEF Ring!SavesManifest
  <2>4. ring["a"] \in Seq(Ring!Entry) /\ Distinct(ring["a"])
    BY DEF RingShape
  <2>5. /\ Ring!Rotated(ring["a"]) \in Seq(Ring!Entry)
        /\ Len(Ring!Rotated(ring["a"])) <= RING_SIZE
        /\ Distinct(Ring!Rotated(ring["a"]))
    BY <2>2, <2>4, RingRotated
  <2>. QED
    BY <2>3, <2>5 DEF RingShape
<1>2. CASE ring' = ring
  BY <1>2 DEF RingShape
<1>. QED
  BY <1>1, <1>2, Zenon DEF Ring!Next, Ring!BuildBegins, Ring!BuildFails, Ring!Composed, Ring!Places,
     Ring!ReadsFile, Ring!TakesTurn

LEMMA RingTunesStep == RingInv /\ Ring!Next => RingTunes'
<1>. SUFFICES ASSUME RingInv, Ring!Next PROVE RingTunes'
  OBVIOUS
<1>0. RingShape /\ RingFiles /\ RingTunes
  BY DEF RingInv
<1>1. ASSUME NEW t \in Tunes, Ring!ReadsFile(t) PROVE RingTunes'
  <2>1. tune[t].at = "reading" /\ UNCHANGED cursor
    BY <1>1 DEF Ring!ReadsFile
  <2>2. tune[t] \in Ring!Tuning
    BY <1>0, <2>1 DEF RingTunes, Ring!Idle, Ring!Tuned
  <2>. DEFINE e == tune[t].entry
              disk == file[tune[t].family][e.slot]
              got  == IF e.reel = disk THEN disk ELSE 0
  <2>3. tune' = [tune EXCEPT ![t] = [at |-> "served", family |-> tune[t].family, entry |-> e,
                                     got |-> got]]
    BY <1>0, <1>1 DEF Ring!ReadsFile, Ring!Matches, RingTunes
  <2>4. tune[t].family \in {"a", "b"} /\ e \in Ring!Entry
    BY <2>2, RingFamilies DEF Ring!Tuning
  <2>5. disk \in 0 .. MAX_BUILDS
    BY <1>0, <2>4 DEF RingFiles, Ring!Entry
  <2>6. got \in 0 .. MAX_BUILDS /\ got \in {0, e.reel}
    <3>. HIDE DEF e, disk
    <3>. QED
      BY <2>5, RingNumbers
  <2>. HIDE DEF e, disk, got
  <2>7. [at |-> "served", family |-> tune[t].family, entry |-> e, got |-> got] \in Ring!Tuned
    BY <2>4, <2>6, RingFamilies DEF Ring!Tuned
  <2>8. tune' \in [Tunes -> {Ring!Idle} \cup Ring!Tuning \cup Ring!Tuned]
    BY <1>0, <2>3, <2>7 DEF RingTunes
  <2>9. Ring!ServedIsWhole'
    <3>. SUFFICES ASSUME NEW u \in Tunes, tune'[u].at = "served"
                  PROVE  tune'[u].got \in {0, tune'[u].entry.reel}
      BY DEF Ring!ServedIsWhole
    <3>1. CASE u = t
      BY <1>0, <2>3, <2>6, <3>1 DEF RingTunes
    <3>2. CASE u # t
      <4>1. tune'[u] = tune[u]
        BY <1>0, <2>3, <3>2 DEF RingTunes
      <4>. QED
        BY <1>0, <4>1 DEF RingTunes, Ring!ServedIsWhole
    <3>. QED
      BY <3>1, <3>2
  <2>. QED
    BY <1>0, <2>1, <2>8, <2>9 DEF RingTunes
<1>2. ASSUME NEW t \in Tunes, NEW f \in {"a", "b"}, Ring!TakesTurn(t, f) PROVE RingTunes'
  <2>. DEFINE e == ring[f][(cursor'[f] % Len(ring[f])) + 1]
  <2>1. /\ ring[f] # << >> /\ cursor[f] < RING_SIZE * MAX_BUILDS
        /\ cursor' = [cursor EXCEPT ![f] = @ + 1]
        /\ tune' = [tune EXCEPT ![t] = [at |-> "reading", family |-> f, entry |-> e]]
    BY <1>2 DEF Ring!TakesTurn
  <2>2. RING_SIZE * MAX_BUILDS \in Nat
    BY RingNumbers
  <2>3. cursor' \in [{"a", "b"} -> -1 .. RING_SIZE * MAX_BUILDS] /\ cursor'[f] \in Nat
    BY <1>0, <2>1, <2>2 DEF RingTunes
  <2>4. Len(ring[f]) \in Nat /\ Len(ring[f]) >= 1 /\ ring[f] \in Seq(Ring!Entry)
    BY <1>0, <2>1 DEF RingShape
  <2>5. (cursor'[f] % Len(ring[f])) + 1 \in 1 .. Len(ring[f])
    BY <2>3, <2>4
  <2>6. e \in Ring!Entry
    BY <2>4, <2>5
  <2>. HIDE DEF e
  <2>7. [at |-> "reading", family |-> f, entry |-> e] \in Ring!Tuning
    BY <2>6, RingFamilies DEF Ring!Tuning
  <2>8. tune' \in [Tunes -> {Ring!Idle} \cup Ring!Tuning \cup Ring!Tuned]
    BY <1>0, <2>1, <2>7 DEF RingTunes
  <2>9. Ring!ServedIsWhole'
    <3>. SUFFICES ASSUME NEW u \in Tunes, tune'[u].at = "served"
                  PROVE  tune'[u].got \in {0, tune'[u].entry.reel}
      BY DEF Ring!ServedIsWhole
    <3>1. u # t
      BY <1>0, <2>1 DEF RingTunes
    <3>2. tune'[u] = tune[u]
      BY <1>0, <2>1, <3>1 DEF RingTunes
    <3>. QED
      BY <1>0, <3>2 DEF RingTunes, Ring!ServedIsWhole
  <2>. QED
    BY <2>3, <2>8, <2>9 DEF RingTunes
<1>3. CASE UNCHANGED <<cursor, tune>>
  BY <1>0, <1>3 DEF RingTunes, Ring!ServedIsWhole
<1>. QED
  BY <1>1, <1>2, <1>3, RingFamilies, Zenon DEF Ring!Next, Ring!BuildBegins, Ring!BuildFails,
     Ring!Composed, Ring!Places, Ring!SavesManifest

LEMMA RingStep == RingInv /\ Ring!Next => RingInv'
BY RingShapeStep, RingFilesStep, RingTunesStep DEF RingInv

LEMMA RingRests == RingInv /\ UNCHANGED cacheVars => RingInv'
<1>. SUFFICES ASSUME RingInv, UNCHANGED cacheVars PROVE RingInv'
  OBVIOUS
<1>1. UNCHANGED <<ring, file, build, builds, cursor, tune>>
  BY DEF cacheVars
<1>2. Ring!NextFreeSlot' = Ring!NextFreeSlot
  BY <1>1, RingSlots
<1>. QED
  BY <1>1, <1>2 DEF RingInv, RingShape, RingFiles, RingTunes, Ring!ServedIsWhole

\* As many slots as entries, and at most one of them replaced.
LEMMA RingManifest == RingShape /\ RingFiles => Ring!ManifestIsTrue
<1>. SUFFICES ASSUME RingShape, RingFiles PROVE Ring!ManifestIsTrue
  OBVIOUS
<1>. DEFINE entries == ring["a"]
            n       == Len(entries)
<1>1. /\ DOMAIN ring = {"a", "b"} /\ \A f \in {"a", "b"} : ring[f] = entries
      /\ entries \in Seq(Ring!Entry) /\ n \in Nat /\ DOMAIN entries = 1 .. n
  BY DEF RingShape
<1>2. Cardinality(Ring!SlotsOf(entries)) = n
  <2>. DEFINE S == Ring!SlotsOf(entries)  g == [i \in 1 .. n |-> entries[i].slot]
  <2>1. S = {entries[i].slot : i \in 1 .. n}
    BY <1>1 DEF Ring!SlotsOf
  <2>2. g \in Surjection(1 .. n, S)
    BY <2>1 DEF Surjection
  <2>3. \A i, j \in 1 .. n : g[i] = g[j] => i = j
    BY DEF RingShape, Distinct
  <2>. HIDE DEF S
  <2>4. g \in Injection(1 .. n, S)
    BY <2>2, <2>3 DEF Surjection, Injection, IsInjective
  <2>. HIDE DEF g
  <2>5. IsFiniteSet(1 .. n) /\ Cardinality(1 .. n) = n
    <3>1. n \in Nat
      BY <1>1
    <3>. HIDE DEF n
    <3>. QED
      BY <3>1, FS_Interval
  <2>6. Cardinality(S) = Cardinality(1 .. n)
    BY <2>2, <2>4, <2>5, FS_Surjection
  <2>. QED
    BY <2>5, <2>6 DEF S
<1>3. ASSUME NEW f \in {"a", "b"}
      PROVE  Cardinality({i \in 1 .. n : file[f][entries[i].slot] # entries[i].reel}) <= 1
  <2>. DEFINE T == {i \in 1 .. n : file[f][entries[i].slot] # entries[i].reel}
  <2>1. \A i, j \in T : i = j
    BY DEF RingShape, RingFiles, Distinct
  <2>2. CASE T = {}
    BY <2>2, FS_EmptySet
  <2>3. CASE T # {}
    <3>1. PICK x \in T : T = {x}
      BY <2>1, <2>3
    <3>2. Cardinality({x}) = 1
      BY FS_Singleton
    <3>. QED
      BY <3>1, <3>2
  <2>. QED
    BY <2>2, <2>3
<1>. HIDE DEF n
<1>4. \A f \in DOMAIN ring : Ring!Cardinality(Ring!SlotsOf(ring[f])) = Len(ring[f])
  BY <1>1, <1>2, RingCardinality DEF n
<1>5. \A f, g \in DOMAIN ring : ring[f] = ring[g]
  BY <1>1
<1>6. \A f \in DOMAIN ring :
        Ring!Cardinality({i \in DOMAIN ring[f] : file[f][ring[f][i].slot] # ring[f][i].reel}) <= 1
  <2>. TAKE f \in DOMAIN ring
  <2>1. ring[f] = entries /\ DOMAIN ring[f] = 1 .. n /\ f \in {"a", "b"}
    BY <1>1
  <2>2. {i \in DOMAIN ring[f] : file[f][ring[f][i].slot] # ring[f][i].reel}
          = {i \in 1 .. n : file[f][entries[i].slot] # entries[i].reel}
    BY <2>1
  <2>. QED
    BY <1>3, <2>1, <2>2, RingCardinality
<1>. QED
  BY <1>4, <1>5, <1>6 DEF Ring!ManifestIsTrue

LEMMA RingIsTyped == RingInv => Ring!TypeOK /\ Ring!ServedIsWhole /\ Ring!ManifestIsTrue
<1>. SUFFICES ASSUME RingInv PROVE Ring!TypeOK /\ Ring!ServedIsWhole /\ Ring!ManifestIsTrue
  OBVIOUS
<1>0. RingShape /\ RingFiles /\ RingTunes
  BY DEF RingInv
<1>1. ASSUME NEW f \in {"a", "b"} PROVE Len(ring[f]) <= RING_SIZE /\ Ring!Range(ring[f]) \subseteq Ring!Entry
  <2>1. ring[f] = ring["a"] /\ ring[f] \in Seq(Ring!Entry) /\ Len(ring[f]) <= RING_SIZE
    BY <1>0 DEF RingShape
  <2>2. \A i \in DOMAIN ring[f] : ring[f][i] \in Ring!Entry
    BY <2>1
  <2>. QED
    BY <2>1, <2>2 DEF Ring!Range
<1>2. DOMAIN ring = {"a", "b"} /\ \A f \in {"a", "b"} : cursor[f] \in -1 .. RING_SIZE * MAX_BUILDS
  BY <1>0 DEF RingShape, RingTunes
<1>3. build \in {Ring!Idle} \cup Ring!Building
  BY <1>0 DEF RingFiles
<1>4. Ring!TypeOK
  BY <1>0, <1>1, <1>2, <1>3, RingFamilies, Zenon DEF Ring!TypeOK, RingFiles, RingTunes
<1>. QED
  BY <1>0, <1>4, RingManifest DEF RingTunes
-----------------------------------------------------------------------------
(* Timeshift: the sum over the buffers, a recursive function.              *)

LEMMA ShiftNumbers == /\ IsFiniteSet(Tabs) /\ OWN_CAP \in Nat /\ GLOBAL_CAP \in Nat
                      /\ MAX_HEAD \in Nat
BY PlaybackAssumption DEF PlaybackAssumption

OneOf(cs) == CHOOSE c \in cs : TRUE

\* What it means to be the sum of "len", for sets of at most n buffers.
SumsUpTo(sum, len, n) ==
  \A cs \in SUBSET Tabs : Cardinality(cs) <= n =>
    sum[cs] = IF cs = {} THEN 0 ELSE len[OneOf(cs)] + sum[cs \ {OneOf(cs)}]

Sums(sum, len) ==
  /\ sum \in [SUBSET Tabs -> Int]
  /\ \A cs \in SUBSET Tabs :
       sum[cs] = IF cs = {} THEN 0 ELSE len[OneOf(cs)] + sum[cs \ {OneOf(cs)}]

\* Sets of buffers, by their size.
LEMMA SmallerSet ==
  ASSUME NEW cs \in SUBSET Tabs, cs # {}
  PROVE  /\ OneOf(cs) \in cs /\ OneOf(cs) \in Tabs
         /\ cs \ {OneOf(cs)} \in SUBSET Tabs
         /\ Cardinality(cs) \in Nat /\ Cardinality(cs) >= 1
         /\ Cardinality(cs \ {OneOf(cs)}) = Cardinality(cs) - 1
<1>1. OneOf(cs) \in cs
  BY DEF OneOf
<1>2. IsFiniteSet(cs) /\ Cardinality(cs) \in Nat
  BY ShiftNumbers, FS_Subset, FS_CardinalityType
<1>3. Cardinality(cs \ {OneOf(cs)}) = Cardinality(cs) - 1 /\ IsFiniteSet(cs \ {OneOf(cs)})
  BY <1>1, <1>2, FS_RemoveElement
<1>4. Cardinality(cs \ {OneOf(cs)}) \in Nat
  BY <1>3, FS_CardinalityType
<1>. QED
  BY <1>1, <1>2, <1>3, <1>4

\* A set of numbers is empty when it has no least element.
LEMMA NoLeast ==
  ASSUME NEW T \in SUBSET Nat, \A n \in T : \E m \in T : m < n
  PROVE  T = {}
<1>. SUFFICES ASSUME T # {} PROVE FALSE
  OBVIOUS
<1>1. PICK x \in T : \A y \in T : x <= y
  BY LeastOf
<1>2. PICK m \in T : m < x
  BY <1>1
<1>. QED
  BY <1>1, <1>2

LEMMA SumUpToExists ==
  ASSUME NEW len \in [Tabs -> Int], NEW k \in Nat
  PROVE  \E sum \in [SUBSET Tabs -> Int] : SumsUpTo(sum, len, k)
<1>. DEFINE T == {n \in Nat : ~ \E sum \in [SUBSET Tabs -> Int] : SumsUpTo(sum, len, n)}
<1>1. ASSUME NEW n \in T PROVE \E m \in T : m < n
  <2>1. n # 0
    <3>. DEFINE s0 == [cs \in SUBSET Tabs |-> 0]
    <3>1. s0 \in [SUBSET Tabs -> Int]
      OBVIOUS
    <3>2. ASSUME NEW cs \in SUBSET Tabs, Cardinality(cs) <= 0 PROVE cs = {}
      <4>1. cs # {} => Cardinality(cs) \in Nat /\ Cardinality(cs) >= 1
        BY SmallerSet
      <4>. QED
        BY <3>2, <4>1
    <3>3. SumsUpTo(s0, len, 0)
      BY <3>2 DEF SumsUpTo
    <3>. QED
      BY <3>1, <3>3
  <2>2. n - 1 \in Nat /\ n - 1 < n
    BY <2>1
  <2>3. ASSUME n - 1 \notin T PROVE FALSE
    <3>. PICK sum \in [SUBSET Tabs -> Int] : SumsUpTo(sum, len, n - 1)
      BY <2>2, <2>3
    <3>. DEFINE s2 == [cs \in SUBSET Tabs |->
                         IF cs = {} THEN 0 ELSE len[OneOf(cs)] + sum[cs \ {OneOf(cs)}]]
    <3>1. s2 \in [SUBSET Tabs -> Int]
      <4>1. ASSUME NEW cs \in SUBSET Tabs, cs # {}
            PROVE  len[OneOf(cs)] \in Int /\ sum[cs \ {OneOf(cs)}] \in Int
        BY <4>1, SmallerSet
      <4>. QED
        BY <4>1
    <3>2. ASSUME NEW cs \in SUBSET Tabs, Cardinality(cs) <= n
          PROVE  s2[cs] = IF cs = {} THEN 0 ELSE len[OneOf(cs)] + s2[cs \ {OneOf(cs)}]
      <4>1. CASE cs = {}
        BY <4>1
      <4>2. CASE cs # {}
        <5>. DEFINE less == cs \ {OneOf(cs)}
        <5>1. less \in SUBSET Tabs /\ Cardinality(less) <= n - 1
          BY <3>2, <4>2, SmallerSet
        <5>2. sum[less] = IF less = {} THEN 0 ELSE len[OneOf(less)] + sum[less \ {OneOf(less)}]
          BY <5>1 DEF SumsUpTo
        <5>3. s2[less] = sum[less]
          BY <5>1, <5>2
        <5>4. s2[cs] = len[OneOf(cs)] + sum[less]
          BY <4>2
        <5>. QED
          BY <4>2, <5>3, <5>4
      <4>. QED
        BY <4>1, <4>2
    <3>3. SumsUpTo(s2, len, n)
      BY <3>2 DEF SumsUpTo
    <3>. QED
      BY <3>1, <3>3
  <2>. QED
    BY <2>2, <2>3
<1>2. T = {}
  <2>. HIDE DEF T
  <2>1. T \in SUBSET Nat
    BY DEF T
  <2>. QED
    BY <1>1, <2>1, NoLeast
<1>. QED
  BY <1>2

LEMMA SumExists ==
  ASSUME NEW len \in [Tabs -> Int]
  PROVE  \E sum : Sums(sum, len)
<1>1. Cardinality(Tabs) \in Nat
  BY ShiftNumbers, FS_CardinalityType
<1>2. PICK sum \in [SUBSET Tabs -> Int] : SumsUpTo(sum, len, Cardinality(Tabs))
  BY <1>1, SumUpToExists
<1>3. \A cs \in SUBSET Tabs : Cardinality(cs) <= Cardinality(Tabs)
  BY ShiftNumbers, FS_Subset
<1>. QED
  BY <1>2, <1>3 DEF SumsUpTo, Sums

\* What Held computes is such a sum.
LEMMA HeldSums ==
  ASSUME NEW len \in [Tabs -> Int]
  PROVE  \E sum : Sums(sum, len) /\ Shift!Held(len) = sum[Tabs]
<1>. DEFINE IsSum(f) == f = [cs \in SUBSET Tabs |->
              IF cs = {} THEN 0
              ELSE LET c == CHOOSE c \in cs : TRUE IN len[c] + f[cs \ {c}]]
            sum == CHOOSE f : IsSum(f)
<1>1. \E f : IsSum(f)
  <2>. PICK f : Sums(f, len)
    BY SumExists
  <2>1. f = [cs \in SUBSET Tabs |-> f[cs]]
    BY DEF Sums
  <2>2. \A cs \in SUBSET Tabs :
          f[cs] = IF cs = {} THEN 0
                  ELSE LET c == CHOOSE c \in cs : TRUE IN len[c] + f[cs \ {c}]
    BY Zenon DEF Sums, OneOf
  <2>3. f = [cs \in SUBSET Tabs |->
              IF cs = {} THEN 0
              ELSE LET c == CHOOSE c \in cs : TRUE IN len[c] + f[cs \ {c}]]
    BY <2>1, <2>2, Zenon
  <2>. QED
    BY <2>3, Zenon
<1>2. IsSum(sum)
  BY <1>1, Zenon
<1>3. Shift!Held(len) = sum[Tabs]
  BY Zenon DEF Shift!Held
<1>. HIDE DEF sum
<1>4. ASSUME NEW f, Sums(f, len)
      PROVE  f = sum
  <2>1. \A cs \in SUBSET Tabs :
          sum[cs] = IF cs = {} THEN 0 ELSE len[OneOf(cs)] + sum[cs \ {OneOf(cs)}]
    BY <1>2, Zenon DEF OneOf
  <2>2. sum = [cs \in SUBSET Tabs |-> sum[cs]]
    BY <1>2
  <2>3. f = [cs \in SUBSET Tabs |-> f[cs]]
    BY <1>4 DEF Sums
  <2>. DEFINE T == {n \in Nat : \E cs \in SUBSET Tabs : Cardinality(cs) = n /\ f[cs] # sum[cs]}
  <2>4. ASSUME NEW n \in T PROVE \E m \in T : m < n
    <3>. PICK cs \in SUBSET Tabs : Cardinality(cs) = n /\ f[cs] # sum[cs]
      OBVIOUS
    <3>1. cs # {}
      BY <1>4, <2>1 DEF Sums
    <3>. DEFINE less == cs \ {OneOf(cs)}
    <3>2. less \in SUBSET Tabs /\ Cardinality(less) = n - 1 /\ n - 1 \in Nat
      <4>1. less \in SUBSET Tabs /\ Cardinality(less) = Cardinality(cs) - 1
            /\ Cardinality(cs) \in Nat /\ Cardinality(cs) >= 1
        BY <3>1, SmallerSet
      <4>. HIDE DEF less
      <4>. QED
        BY <4>1
    <3>3. f[cs] = len[OneOf(cs)] + f[less] /\ sum[cs] = len[OneOf(cs)] + sum[less]
      BY <1>4, <2>1, <3>1 DEF Sums
    <3>4. f[less] # sum[less]
      BY <3>3
    <3>. QED
      BY <3>2, <3>4
  <2>5. T = {}
    <3>. HIDE DEF T
    <3>1. T \in SUBSET Nat
      BY DEF T
    <3>. QED
      BY <2>4, <3>1, NoLeast
  <2>6. ASSUME NEW cs \in SUBSET Tabs PROVE f[cs] = sum[cs]
    <3>1. Cardinality(cs) \in Nat
      BY ShiftNumbers, FS_Subset, FS_CardinalityType
    <3>. QED
      BY <2>5, <3>1
  <2>. QED
    BY <2>2, <2>3, <2>6, Zenon
<1>5. Sums(sum, len)
  BY <1>4, SumExists
<1>. QED
  BY <1>3, <1>5

\* The sum of zeros, and of a function with one value changed.
LEMMA SumOfZeros ==
  ASSUME NEW sum, Sums(sum, [c \in Tabs |-> 0]) PROVE sum[Tabs] = 0
<1>. DEFINE T == {n \in Nat : \E cs \in SUBSET Tabs : Cardinality(cs) = n /\ sum[cs] # 0}
<1>1. ASSUME NEW n \in T PROVE \E m \in T : m < n
  <2>. PICK cs \in SUBSET Tabs : Cardinality(cs) = n /\ sum[cs] # 0
    OBVIOUS
  <2>1. cs # {}
    BY DEF Sums
  <2>. DEFINE less == cs \ {OneOf(cs)}
  <2>2. less \in SUBSET Tabs /\ Cardinality(less) = n - 1 /\ n - 1 \in Nat /\ OneOf(cs) \in Tabs
    BY <2>1, SmallerSet
  <2>3. sum[cs] = 0 + sum[less] /\ sum[less] \in Int
    BY <2>1, <2>2 DEF Sums
  <2>. QED
    BY <2>2, <2>3
<1>2. T = {}
  <2>. HIDE DEF T
  <2>1. T \in SUBSET Nat
    BY DEF T
  <2>. QED
    BY <1>1, <2>1, NoLeast
<1>3. Cardinality(Tabs) \in Nat
  BY ShiftNumbers, FS_CardinalityType
<1>. QED
  BY <1>2, <1>3

LEMMA SumOfChanged ==
  ASSUME NEW len \in [Tabs -> Int], NEW other \in [Tabs -> Int], NEW d \in Tabs,
         \A c \in Tabs : c # d => other[c] = len[c],
         NEW one, NEW two, Sums(one, len), Sums(two, other)
  PROVE  two[Tabs] = one[Tabs] + (other[d] - len[d])
<1>. DEFINE More(cs) == IF d \in cs THEN other[d] - len[d] ELSE 0
            T == {n \in Nat : \E cs \in SUBSET Tabs : Cardinality(cs) = n
                                                      /\ two[cs] # one[cs] + More(cs)}
<1>1. ASSUME NEW n \in T PROVE \E m \in T : m < n
  <2>. PICK cs \in SUBSET Tabs : Cardinality(cs) = n /\ two[cs] # one[cs] + More(cs)
    OBVIOUS
  <2>1. cs # {}
    <3>1. one[{}] = 0 /\ two[{}] = 0 /\ More({}) = 0
      BY DEF Sums
    <3>2. two[{}] = one[{}] + More({})
      BY <3>1
    <3>. QED
      BY <3>2, Zenon
  <2>. DEFINE p == OneOf(cs)  less == cs \ {p}
  <2>2. /\ less \in SUBSET Tabs /\ Cardinality(less) = n - 1 /\ n - 1 \in Nat
        /\ p \in Tabs /\ p \in cs
    BY <2>1, SmallerSet
  <2>3. /\ one[cs] = len[p] + one[less] /\ two[cs] = other[p] + two[less]
        /\ one[less] \in Int /\ two[less] \in Int
    BY <2>1, <2>2 DEF Sums
  <2>. HIDE DEF p
  <2>4. two[less] # one[less] + More(less)
    BY <2>2, <2>3
  <2>. QED
    BY <2>2, <2>4
<1>2. T = {}
  <2>. HIDE DEF T
  <2>1. T \in SUBSET Nat
    BY DEF T
  <2>. QED
    BY <1>1, <2>1, NoLeast
<1>3. Cardinality(Tabs) \in Nat
  BY ShiftNumbers, FS_CardinalityType
<1>. QED
  BY <1>2, <1>3

LEMMA HeldOfZeros == Shift!Held([c \in Tabs |-> 0]) = 0
<1>1. [c \in Tabs |-> 0] \in [Tabs -> Int]
  OBVIOUS
<1>2. PICK sum : Sums(sum, [c \in Tabs |-> 0]) /\ Shift!Held([c \in Tabs |-> 0]) = sum[Tabs]
  BY <1>1, HeldSums
<1>. QED
  BY <1>2, SumOfZeros

LEMMA HeldOfChanged ==
  ASSUME NEW len \in [Tabs -> Int], NEW other \in [Tabs -> Int], NEW d \in Tabs,
         \A c \in Tabs : c # d => other[c] = len[c]
  PROVE  Shift!Held(other) = Shift!Held(len) + (other[d] - len[d])
<1>1. PICK one : Sums(one, len) /\ Shift!Held(len) = one[Tabs]
  BY HeldSums
<1>2. PICK two : Sums(two, other) /\ Shift!Held(other) = two[Tabs]
  BY HeldSums
<1>3. two[Tabs] = one[Tabs] + (other[d] - len[d])
  BY <1>1, <1>2, SumOfChanged
<1>. QED
  BY <1>1, <1>2, <1>3
-----------------------------------------------------------------------------
(* Timeshift: buffers, readers and the total.                              *)

ShiftPlayer(p) ==
  \/ p = Shift!Away
  \/ /\ p \in Shift!Reading
     /\ p.on \in buffers
     /\ p.idx <= head[p.on]
     /\ p.state = "parked" => p.on \in recording /\ p.idx = head[p.on]
     /\ p.state = "closed" => p.on \in ended /\ p.idx = head[p.on]

\* A buffer records or is ended, and one that is not there holds nothing.
ShiftSets ==
  /\ buffers \subseteq Tabs /\ buffers = recording \cup ended /\ recording \cap ended = {}
  /\ idleTimer \subseteq buffers
  /\ head \in [Tabs -> 0 .. MAX_HEAD] /\ evicted \in [Tabs -> 0 .. MAX_HEAD]
  /\ \A c \in Tabs : evicted[c] <= head[c]
  /\ \A c \in Tabs : c \notin buffers => head[c] = 0 /\ evicted[c] = 0

ShiftReaders ==
  /\ DOMAIN player = Players /\ player = [r \in Players |-> player[r]]
  /\ \A r \in Players : ShiftPlayer(player[r])
  /\ Shift!UnreadIsTimed

\* Only a buffer that holds nothing may grow over the common ceiling, by the one chunk.
ShiftTotal ==
  /\ globalBytes = Shift!Held([c \in Tabs |-> Shift!Length(c)])
  /\ globalBytes \in Int
  /\ globalBytes <= GLOBAL_CAP + Cardinality({c \in Tabs : Shift!Length(c) > 0})
  /\ \A c \in Tabs : Shift!Length(c) <= OWN_CAP \/ Shift!Length(c) = 1

ShiftInv == ShiftSets /\ ShiftReaders /\ ShiftTotal

LEMMA ShiftInit == Shift!Init => ShiftInv
<1>. SUFFICES ASSUME Shift!Init PROVE ShiftInv
  OBVIOUS
<1>. USE DEF Shift!Init
<1>1. ShiftSets
  BY ShiftNumbers DEF ShiftSets
<1>2. ShiftReaders
  BY DEF ShiftReaders, ShiftPlayer, Shift!UnreadIsTimed
<1>3. ShiftTotal
  <2>1. \A c \in Tabs : Shift!Length(c) = 0
    BY DEF Shift!Length
  <2>2. [c \in Tabs |-> Shift!Length(c)] = [c \in Tabs |-> 0]
    BY <2>1
  <2>3. Shift!Held([c \in Tabs |-> Shift!Length(c)]) = 0
    BY <2>2, HeldOfZeros
  <2>4. {c \in Tabs : Shift!Length(c) > 0} = {} /\ Cardinality({}) = 0
    BY <2>1, FS_EmptySet
  <2>5. globalBytes = 0
    OBVIOUS
  <2>. QED
    BY <2>1, <2>3, <2>4, <2>5, ShiftNumbers DEF ShiftTotal
<1>. QED
  BY <1>1, <1>2, <1>3 DEF ShiftInv

LEMMA ShiftSetsStep == ShiftSets /\ ShiftReaders /\ Shift!Next => ShiftSets'
<1>. SUFFICES ASSUME ShiftSets, ShiftReaders, Shift!Next PROVE ShiftSets'
  OBVIOUS
<1>. MAX_HEAD \in Nat
  BY ShiftNumbers
<1>. USE DEF ShiftSets
<1>1. ASSUME NEW c \in Tabs, Shift!Appends(c) PROVE ShiftSets'
  <2>. PICK n \in 0 .. MAX_HEAD : /\ Shift!Evicts(c, n)
                                  /\ evicted' = [evicted EXCEPT ![c] = @ + n]
    BY <1>1 DEF Shift!Appends
  <2>1. n < head[c] + 1 - evicted[c]
    BY DEF Shift!Evicts
  <2>2. /\ c \in recording /\ head[c] < MAX_HEAD
        /\ head' = [head EXCEPT ![c] = @ + 1]
        /\ UNCHANGED <<buffers, recording, ended, idleTimer>>
    BY <1>1 DEF Shift!Appends
  <2>. QED
    BY <2>1, <2>2
<1>2. ASSUME NEW c \in Tabs, Shift!UpstreamEnds(c) PROVE ShiftSets'
  BY <1>2 DEF Shift!UpstreamEnds
<1>3. ASSUME NEW c \in Tabs, Shift!Teardown(c) PROVE ShiftSets'
  BY <1>3 DEF Shift!Teardown
<1>4. ASSUME NEW r \in Players, Shift!Pull(r) PROVE ShiftSets'
  BY <1>4 DEF Shift!Pull
<1>5. ASSUME NEW r \in Players, Shift!Leave(r) PROVE ShiftSets'
  <2>1. player[r].state # "away"
    BY <1>5 DEF Shift!Leave
  <2>2. player[r].on \in buffers
    BY <2>1 DEF ShiftReaders, ShiftPlayer, Shift!Away
  <2>3. /\ idleTimer' = idleTimer \/ idleTimer' = idleTimer \cup {player[r].on}
        /\ UNCHANGED <<buffers, evicted, head, recording, ended>>
    BY <1>5 DEF Shift!Leave
  <2>. QED
    BY <2>2, <2>3
<1>6. ASSUME NEW r \in Players, NEW c \in Tabs, Shift!Replay(r, c) PROVE ShiftSets'
  BY <1>6 DEF Shift!Replay, Shift!Records
<1>. QED
  BY <1>1, <1>2, <1>3, <1>4, <1>5, <1>6 DEF Shift!Next

\* The state of a reader, case by case.
LEMMA ShiftPlayers ==
  ASSUME NEW p
  PROVE  /\ ShiftPlayer(p) /\ p.state # "away" =>
              /\ p.state \in {"pulling", "parked", "closed"} /\ p.on \in Tabs
              /\ p.idx \in 0 .. MAX_HEAD
              /\ p = [state |-> p.state, on |-> p.on, idx |-> p.idx]
         /\ ShiftPlayer(p) /\ p.state = "away" => p = Shift!Away
BY DEF ShiftPlayer, Shift!Away, Shift!Reading

\* Who is woken only looks again.
LEMMA ShiftWoken ==
  ASSUME ShiftReaders, NEW c \in Tabs, NEW r \in Players
  PROVE  \/ /\ Shift!Woken(c, player)[r] = player[r]
            /\ ~ (player[r].state = "parked" /\ player[r].on = c)
         \/ /\ player[r].state = "parked" /\ player[r].on = c
            /\ Shift!Woken(c, player)[r] = [state |-> "pulling", on |-> c, idx |-> player[r].idx]
<1>1. ShiftPlayer(player[r])
  BY DEF ShiftReaders
<1>2. player[r].state = "parked" =>
        player[r] = [state |-> player[r].state, on |-> player[r].on, idx |-> player[r].idx]
  BY <1>1, ShiftPlayers
<1>3. Shift!Woken(c, player)[r] =
        IF player[r].state = "parked" /\ player[r].on = c
          THEN [player[r] EXCEPT !.state = "pulling"] ELSE player[r]
  BY DEF Shift!Woken
<1>. QED
  BY <1>2, <1>3

LEMMA ShiftReadersStep == ShiftSets /\ ShiftReaders /\ Shift!Next => ShiftReaders'
<1>. SUFFICES ASSUME ShiftSets, ShiftReaders, Shift!Next PROVE ShiftReaders'
  OBVIOUS
<1>0. /\ DOMAIN player = Players /\ player = [r \in Players |-> player[r]]
      /\ \A r \in Players : ShiftPlayer(player[r])
      /\ \A c \in Tabs : c \in idleTimer <=>
           c \in buffers /\ \A r \in Players : ~ (player[r].state # "away" /\ player[r].on = c)
  BY DEF ShiftReaders, Shift!UnreadIsTimed, Shift!Readers
<1>. DEFINE Timed == \A c \in Tabs : c \in idleTimer <=>
           c \in buffers /\ \A r \in Players : ~ (player[r].state # "away" /\ player[r].on = c)
<1>. MAX_HEAD \in Nat
  BY ShiftNumbers
<1>1. ASSUME player' = [r \in Players |-> player'[r]],
             \A r \in Players : ShiftPlayer(player[r])',
             Timed'
      PROVE  ShiftReaders'
  BY <1>1 DEF ShiftReaders, Shift!UnreadIsTimed, Shift!Readers
<1>2. ASSUME NEW c \in Tabs, Shift!Appends(c) PROVE ShiftReaders'
  <2>1. /\ c \in recording
        /\ head' = [head EXCEPT ![c] = @ + 1]
        /\ player' = Shift!Woken(c, player)
        /\ UNCHANGED <<buffers, recording, ended, idleTimer>>
    BY <1>2 DEF Shift!Appends
  <2>2. ASSUME NEW r \in Players PROVE ShiftPlayer(player[r])'
    <3>1. ShiftPlayer(player[r])
      BY <1>0
    <3>2. CASE player'[r] = player[r] /\ ~ (player[r].state = "parked" /\ player[r].on = c)
      <4>1. CASE player[r].state = "away"
        BY <3>1, <3>2, <4>1, ShiftPlayers DEF ShiftPlayer
      <4>2. CASE player[r].state # "away"
        BY <2>1, <3>1, <3>2, <4>2, ShiftPlayers DEF ShiftPlayer, ShiftSets
      <4>. QED
        BY <4>1, <4>2
    <3>3. CASE /\ player[r].state = "parked" /\ player[r].on = c
               /\ player'[r] = [state |-> "pulling", on |-> c, idx |-> player[r].idx]
      <4>1. player[r].idx \in 0 .. MAX_HEAD /\ player[r].idx = head[c]
        BY <3>1, <3>3, ShiftPlayers DEF ShiftPlayer, Shift!Away
      <4>2. player'[r] \in Shift!Reading
        BY <3>3, <4>1 DEF Shift!Reading
      <4>. QED
        BY <2>1, <3>3, <4>1, <4>2 DEF ShiftPlayer, ShiftSets
    <3>. QED
      BY <2>1, <3>2, <3>3, ShiftWoken
  <2>3. Timed'
    <3>1. \A r \in Players : /\ player'[r].state # "away" <=> player[r].state # "away"
                             /\ player[r].state # "away" => player'[r].on = player[r].on
      <4>. TAKE r \in Players
      <4>1. CASE player'[r] = player[r]
        BY <4>1
      <4>2. CASE /\ player[r].state = "parked" /\ player[r].on = c
                 /\ player'[r] = [state |-> "pulling", on |-> c, idx |-> player[r].idx]
        BY <4>2
      <4>. QED
        BY <2>1, <4>1, <4>2, ShiftWoken
    <3>. QED
      BY <1>0, <2>1, <3>1
  <2>4. player' = [r \in Players |-> player'[r]]
    BY <2>1 DEF Shift!Woken
  <2>. QED
    BY <1>1, <2>2, <2>3, <2>4
<1>3. ASSUME NEW c \in Tabs, Shift!UpstreamEnds(c) PROVE ShiftReaders'
  <2>1. /\ c \in recording
        /\ recording' = recording \ {c} /\ ended' = ended \cup {c}
        /\ player' = Shift!Woken(c, player)
        /\ UNCHANGED <<buffers, head, idleTimer>>
    BY <1>3 DEF Shift!UpstreamEnds
  <2>2. ASSUME NEW r \in Players PROVE ShiftPlayer(player[r])'
    <3>1. ShiftPlayer(player[r])
      BY <1>0
    <3>2. CASE player'[r] = player[r] /\ ~ (player[r].state = "parked" /\ player[r].on = c)
      BY <2>1, <3>1, <3>2 DEF ShiftPlayer, ShiftSets
    <3>3. CASE /\ player[r].state = "parked" /\ player[r].on = c
               /\ player'[r] = [state |-> "pulling", on |-> c, idx |-> player[r].idx]
      <4>1. player[r].idx \in 0 .. MAX_HEAD /\ player[r].idx = head[c]
        BY <3>1, <3>3, ShiftPlayers DEF ShiftPlayer, Shift!Away
      <4>2. player'[r] \in Shift!Reading
        BY <3>3, <4>1 DEF Shift!Reading
      <4>. QED
        BY <2>1, <3>3, <4>1, <4>2 DEF ShiftPlayer, ShiftSets
    <3>. QED
      BY <2>1, <3>2, <3>3, ShiftWoken
  <2>3. Timed'
    <3>1. \A r \in Players : /\ player'[r].state # "away" <=> player[r].state # "away"
                             /\ player[r].state # "away" => player'[r].on = player[r].on
      <4>. TAKE r \in Players
      <4>1. CASE player'[r] = player[r]
        BY <4>1
      <4>2. CASE /\ player[r].state = "parked" /\ player[r].on = c
                 /\ player'[r] = [state |-> "pulling", on |-> c, idx |-> player[r].idx]
        BY <4>2
      <4>. QED
        BY <2>1, <4>1, <4>2, ShiftWoken
    <3>. QED
      BY <1>0, <2>1, <3>1
  <2>4. player' = [r \in Players |-> player'[r]]
    BY <2>1 DEF Shift!Woken
  <2>. QED
    BY <1>1, <2>2, <2>3, <2>4
<1>4. ASSUME NEW c \in Tabs, Shift!Teardown(c) PROVE ShiftReaders'
  <2>1. /\ \A r \in Players : ~ (player[r].state # "away" /\ player[r].on = c)
        /\ buffers' = buffers \ {c} /\ recording' = recording \ {c}
        /\ ended' = ended \ {c} /\ idleTimer' = idleTimer \ {c}
        /\ head' = [head EXCEPT ![c] = 0]
        /\ UNCHANGED player
    BY <1>4 DEF Shift!Teardown, Shift!Readers
  <2>2. ASSUME NEW r \in Players PROVE ShiftPlayer(player[r])'
    <3>1. CASE player[r].state = "away"
      BY <1>0, <2>1, <3>1, ShiftPlayers DEF ShiftPlayer
    <3>2. CASE player[r].state # "away"
      <4>1. player[r].on # c /\ ShiftPlayer(player[r])
        BY <1>0, <2>1, <3>2
      <4>. QED
        BY <2>1, <3>2, <4>1, ShiftPlayers DEF ShiftPlayer, ShiftSets
    <3>. QED
      BY <3>1, <3>2
  <2>3. Timed'
    BY <1>0, <2>1
  <2>. QED
    BY <1>0, <1>1, <2>1, <2>2, <2>3
<1>5. ASSUME NEW r \in Players, Shift!Pull(r) PROVE ShiftReaders'
  <2>. DEFINE p == player[r]
              i == IF p.idx < evicted[p.on] THEN evicted[p.on] ELSE p.idx
  <2>1. /\ p.state = "pulling"
        /\ player' = [player EXCEPT ![r] = Shift!AfterPull(p)]
        /\ UNCHANGED <<buffers, head, recording, ended, idleTimer>>
    BY <1>0, <1>5 DEF Shift!Pull
  <2>2. /\ p.on \in buffers /\ p.on \in Tabs /\ p.idx \in 0 .. MAX_HEAD /\ p.idx <= head[p.on]
        /\ p = [state |-> "pulling", on |-> p.on, idx |-> p.idx]
    BY <1>0, <2>1, ShiftPlayers DEF ShiftPlayer, Shift!Away
  <2>. HIDE DEF p
  <2>3. /\ i \in 0 .. MAX_HEAD /\ i <= head[p.on]
        /\ i < head[p.on] => i + 1 \in 0 .. MAX_HEAD /\ i + 1 <= head[p.on]
        /\ ~ (i < head[p.on]) => i = head[p.on]
    BY <2>2 DEF ShiftSets
  <2>. DEFINE q == Shift!AfterPull(p)
  <2>4. \/ i < head[p.on] /\ q = [state |-> "pulling", on |-> p.on, idx |-> i + 1]
        \/ /\ ~ (i < head[p.on]) /\ p.on \in ended
           /\ q = [state |-> "closed", on |-> p.on, idx |-> i]
        \/ /\ ~ (i < head[p.on]) /\ p.on \notin ended
           /\ q = [state |-> "parked", on |-> p.on, idx |-> i]
    <3>1. q = IF i < head[p.on] THEN [p EXCEPT !.idx = i + 1]
              ELSE [p EXCEPT !.idx = i, !.state = IF p.on \in ended THEN "closed" ELSE "parked"]
      BY Zenon DEF Shift!AfterPull
    <3>2. PICK on_, idx_ : p = [state |-> "pulling", on |-> on_, idx |-> idx_]
      BY <2>2, Zenon
    <3>. HIDE DEF q, i
    <3>. QED
      BY <3>1, <3>2
  <2>. HIDE DEF q, i
  <2>5. ShiftPlayer(q) /\ q.state # "away" /\ q.on = p.on
    <3>1. CASE i < head[p.on] /\ q = [state |-> "pulling", on |-> p.on, idx |-> i + 1]
      BY <2>2, <2>3, <3>1 DEF ShiftPlayer, Shift!Reading
    <3>2. CASE /\ ~ (i < head[p.on]) /\ p.on \in ended
               /\ q = [state |-> "closed", on |-> p.on, idx |-> i]
      BY <2>2, <2>3, <3>2 DEF ShiftPlayer, Shift!Reading
    <3>3. CASE /\ ~ (i < head[p.on]) /\ p.on \notin ended
               /\ q = [state |-> "parked", on |-> p.on, idx |-> i]
      BY <2>2, <2>3, <3>3 DEF ShiftPlayer, Shift!Reading, ShiftSets
    <3>. QED
      BY <2>4, <3>1, <3>2, <3>3
  <2>6. \A s \in Players : player'[s] = IF s = r THEN q ELSE player[s]
    BY <1>0, <2>1 DEF q
  <2>7. ASSUME NEW s \in Players PROVE ShiftPlayer(player[s])'
    BY <1>0, <2>1, <2>5, <2>6 DEF ShiftPlayer
  <2>8. Timed'
    BY <1>0, <2>1, <2>5, <2>6 DEF p
  <2>9. player' = [s \in Players |-> player'[s]]
    BY <1>0, <2>1
  <2>. QED
    BY <1>1, <2>7, <2>8, <2>9
<1>6. ASSUME NEW r \in Players, Shift!Leave(r) PROVE ShiftReaders'
  <2>. DEFINE c == player[r].on
  <2>1. /\ player[r].state # "away"
        /\ player' = [player EXCEPT ![r] = Shift!Away]
        /\ idleTimer' = IF Shift!Readers(c) = {r} THEN idleTimer \cup {c} ELSE idleTimer
        /\ UNCHANGED <<buffers, head, recording, ended>>
    BY <1>6 DEF Shift!Leave
  <2>2. c \in buffers /\ c \in Tabs
    BY <1>0, <2>1 DEF ShiftPlayer, Shift!Away, ShiftSets
  <2>3. \A s \in Players : player'[s] = IF s = r THEN Shift!Away ELSE player[s]
    BY <1>0, <2>1
  <2>4. ASSUME NEW s \in Players PROVE ShiftPlayer(player[s])'
    BY <1>0, <2>1, <2>3 DEF ShiftPlayer
  <2>5. Shift!Readers(c) = {r} <=> \A s \in Players : player[s].state # "away" /\ player[s].on = c => s = r
    BY <2>1 DEF Shift!Readers
  <2>6. Timed'
    BY <1>0, <2>1, <2>2, <2>3, <2>5 DEF Shift!Away
  <2>7. player' = [s \in Players |-> player'[s]]
    BY <1>0, <2>1
  <2>. QED
    BY <1>1, <2>4, <2>6, <2>7
<1>7. ASSUME NEW r \in Players, NEW c \in Tabs, Shift!Replay(r, c) PROVE ShiftReaders'
  <2>1. PICK i \in evicted[c] .. head[c] :
          player' = [IF ended' # ended THEN Shift!Woken(c, player) ELSE player
                       EXCEPT ![r] = [state |-> "pulling", on |-> c, idx |-> i]]
    BY <1>7 DEF Shift!Replay
  <2>2. /\ player[r].state = "away"
        /\ buffers' = buffers \cup {c} /\ idleTimer' = idleTimer \ {c}
        /\ UNCHANGED <<evicted, head>>
        /\ Shift!Records(c)
    BY <1>7 DEF Shift!Replay
  <2>3. \/ c \in buffers /\ UNCHANGED <<recording, ended>>
        \/ /\ c \notin buffers
           /\ recording' \cup ended' = (recording \cup ended) \cup {c}
           /\ recording \subseteq recording' /\ ended \subseteq ended'
    BY <2>2 DEF Shift!Records, ShiftSets
  <2>4. c \notin buffers => \A s \in Players : Shift!Woken(c, player)[s] = player[s]
    <3>. SUFFICES ASSUME c \notin buffers, NEW s \in Players
                  PROVE  Shift!Woken(c, player)[s] = player[s]
      OBVIOUS
    <3>1. player[s].state = "parked" => player[s].on \in buffers
      BY <1>0 DEF ShiftPlayer, Shift!Away
    <3>. QED
      BY <3>1, ShiftWoken
  <2>5. DOMAIN Shift!Woken(c, player) = Players
    BY DEF Shift!Woken
  <2>6. \A s \in Players : player'[s] = IF s = r THEN [state |-> "pulling", on |-> c, idx |-> i]
                                        ELSE player[s]
    BY <1>0, <2>1, <2>3, <2>4, <2>5
  <2>7. i \in 0 .. MAX_HEAD /\ i <= head[c]
    BY DEF ShiftSets
  <2>8. ASSUME NEW s \in Players PROVE ShiftPlayer(player[s])'
    <3>1. CASE s = r
      <4>1. player'[s] = [state |-> "pulling", on |-> c, idx |-> i] /\ player'[s] \in Shift!Reading
        BY <2>6, <2>7, <3>1 DEF Shift!Reading
      <4>. QED
        BY <2>2, <2>7, <4>1 DEF ShiftPlayer
    <3>2. CASE s # r
      <4>1. player'[s] = player[s] /\ ShiftPlayer(player[s])
        BY <1>0, <2>6, <3>2
      <4>. QED
        BY <2>2, <2>3, <4>1 DEF ShiftPlayer
    <3>. QED
      BY <3>1, <3>2
  <2>9. Timed'
    BY <1>0, <2>2, <2>6
  <2>10. player' = [s \in Players |-> player'[s]]
    BY <1>0, <2>1, <2>5
  <2>. QED
    BY <1>1, <2>8, <2>9, <2>10
<1>. QED
  BY <1>2, <1>3, <1>4, <1>5, <1>6, <1>7 DEF Shift!Next
LEMMA ShiftFull ==
  /\ IsFiniteSet({c \in Tabs : Shift!Length(c) > 0})
  /\ Cardinality({c \in Tabs : Shift!Length(c) > 0}) \in Nat
BY ShiftNumbers, FS_Subset, FS_CardinalityType

LEMMA ShiftTotalStep == ShiftSets /\ ShiftTotal /\ Shift!Next => ShiftTotal'
<1>. SUFFICES ASSUME ShiftSets, ShiftTotal, Shift!Next PROVE ShiftTotal'
  OBVIOUS
<1>. DEFINE len  == [c \in Tabs |-> Shift!Length(c)]
            Full == {c \in Tabs : Shift!Length(c) > 0}
<1>1. \A c \in Tabs : Shift!Length(c) \in Nat
  BY ShiftNumbers DEF ShiftSets, Shift!Length
<1>2. len \in [Tabs -> Int]
  BY <1>1
<1>3. IsFiniteSet(Full) /\ Cardinality(Full) \in Nat
  BY ShiftFull
<1>4. ASSUME NEW d \in Tabs, NEW new \in Nat,
             \A c \in Tabs : Shift!Length(c)' = IF c = d THEN new ELSE Shift!Length(c),
             globalBytes' = globalBytes + (new - Shift!Length(d)),
             new <= OWN_CAP \/ new = 1,
             \/ new > 1 /\ globalBytes' <= GLOBAL_CAP
             \/ new = 1
             \/ new = 0
      PROVE  ShiftTotal'
  <2>. DEFINE len2 == [c \in Tabs |-> Shift!Length(c)']
              Full2 == {c \in Tabs : Shift!Length(c)' > 0}
              L == Shift!Length(d)
  <2>1. len2 \in [Tabs -> Int] /\ (\A c \in Tabs : c # d => len2[c] = len[c])
        /\ len2[d] = new /\ len[d] = L /\ L \in Nat
    BY <1>1, <1>4
  <2>2. Shift!Held(len2) = Shift!Held(len) + (len2[d] - len[d])
    <3>. HIDE DEF len, len2
    <3>. QED
      BY <1>2, <2>1, HeldOfChanged
  <2>3. globalBytes = Shift!Held(len) /\ globalBytes \in Int
        /\ globalBytes <= GLOBAL_CAP + Cardinality(Full)
        /\ \A c \in Tabs : Shift!Length(c) <= OWN_CAP \/ Shift!Length(c) = 1
    BY DEF ShiftTotal
  <2>4. globalBytes' = Shift!Held(len2) /\ globalBytes' \in Int
    <3>. HIDE DEF len, len2, L
    <3>1. globalBytes' = globalBytes + (new - L)
      BY <1>4 DEF L
    <3>2. Shift!Held(len2) = globalBytes + (new - L)
      BY <2>1, <2>2, <2>3, Zenon
    <3>. QED
      BY <2>1, <2>3, <3>1, <3>2
  <2>5. Full2 = IF new > 0 THEN Full \cup {d} ELSE Full \ {d}
    BY <1>4
  <2>6. d \in Full <=> L > 0
    OBVIOUS
  <2>7. globalBytes' <= GLOBAL_CAP + Cardinality(Full2)
    <3>. HIDE DEF Full, Full2, L
    <3>0. globalBytes' = globalBytes + (new - L)
      BY <1>4 DEF L
    <3>1. CASE new > 0
      <4>1. Cardinality(Full2) = IF d \in Full THEN Cardinality(Full) ELSE Cardinality(Full) + 1
        BY <1>3, <2>5, <3>1, FS_AddElement
      <4>. QED
        BY <1>3, <1>4, <2>1, <2>3, <2>6, <3>0, <3>1, <4>1, ShiftNumbers
    <3>2. CASE new = 0
      <4>1. Cardinality(Full2) = IF d \in Full THEN Cardinality(Full) - 1 ELSE Cardinality(Full)
        BY <1>3, <2>5, <3>2, FS_RemoveElement
      <4>. QED
        BY <1>3, <2>1, <2>3, <2>6, <3>0, <3>2, <4>1, ShiftNumbers
    <3>. QED
      BY <3>1, <3>2
  <2>8. \A c \in Tabs : Shift!Length(c)' <= OWN_CAP \/ Shift!Length(c)' = 1
    BY <1>4, <2>3
  <2>. QED
    BY <2>4, <2>7, <2>8 DEF ShiftTotal
<1>5. ASSUME NEW c \in Tabs, Shift!Appends(c) PROVE ShiftTotal'
  <2>. PICK n \in 0 .. MAX_HEAD : /\ Shift!Evicts(c, n)
                                  /\ evicted' = [evicted EXCEPT ![c] = @ + n]
                                  /\ globalBytes' = globalBytes + 1 - n
    BY <1>5 DEF Shift!Appends
  <2>. DEFINE new == Shift!Length(c) + 1 - n
  <2>1. head' = [head EXCEPT ![c] = @ + 1]
    BY <1>5 DEF Shift!Appends
  <2>3. head[c] \in Nat /\ evicted[c] \in Nat /\ n \in Nat /\ globalBytes \in Int
    BY ShiftNumbers DEF ShiftSets, ShiftTotal
  <2>2. /\ n < head[c] + 1 - evicted[c]
        /\ head[c] + 1 - evicted[c] - n > 1 =>
             head[c] + 1 - evicted[c] - n <= OWN_CAP /\ globalBytes + 1 - n <= GLOBAL_CAP
    BY <2>3 DEF Shift!Evicts
  <2>4. /\ new \in Nat /\ new >= 1
        /\ new > 1 => new <= OWN_CAP /\ globalBytes' <= GLOBAL_CAP
        /\ globalBytes' = globalBytes + (new - Shift!Length(c))
    BY <2>2, <2>3, ShiftNumbers DEF Shift!Length
  <2>5. \A d \in Tabs : Shift!Length(d)' = IF d = c THEN new ELSE Shift!Length(d)
    BY <2>1, <2>3 DEF Shift!Length, ShiftSets
  <2>. HIDE DEF new
  <2>6. new > 1 \/ new = 1
    BY <2>4
  <2>. QED
    BY <1>4, <2>4, <2>5, <2>6
<1>6. ASSUME NEW c \in Tabs, Shift!Teardown(c) PROVE ShiftTotal'
  <2>1. /\ globalBytes' = globalBytes - (head[c] - evicted[c])
        /\ head' = [head EXCEPT ![c] = 0] /\ evicted' = [evicted EXCEPT ![c] = 0]
    BY <1>6 DEF Shift!Teardown
  <2>2. head[c] \in Nat /\ evicted[c] \in Nat /\ globalBytes \in Int
    BY ShiftNumbers DEF ShiftSets, ShiftTotal
  <2>3. \A d \in Tabs : Shift!Length(d)' = IF d = c THEN 0 ELSE Shift!Length(d)
    BY <2>1, <2>2 DEF Shift!Length, ShiftSets
  <2>4. globalBytes' = globalBytes + (0 - Shift!Length(c))
    BY <2>1, <2>2 DEF Shift!Length
  <2>. QED
    BY <1>4, <2>3, <2>4, ShiftNumbers
<1>7. CASE UNCHANGED <<evicted, head, globalBytes>>
  BY <1>7 DEF ShiftTotal, Shift!Length
<1>. QED
  BY <1>5, <1>6, <1>7 DEF Shift!Next, Shift!UpstreamEnds, Shift!Pull, Shift!Leave, Shift!Replay

LEMMA ShiftStep == ShiftInv /\ Shift!Next => ShiftInv'
BY ShiftSetsStep, ShiftReadersStep, ShiftTotalStep DEF ShiftInv

LEMMA ShiftRests == ShiftInv /\ UNCHANGED timeshiftVars => ShiftInv'
<1>. SUFFICES ASSUME ShiftInv, UNCHANGED timeshiftVars PROVE ShiftInv'
  OBVIOUS
<1>. USE DEF timeshiftVars
<1>1. ShiftSets'
  BY DEF ShiftInv, ShiftSets
<1>2. ShiftReaders'
  BY DEF ShiftInv, ShiftReaders, ShiftPlayer, Shift!UnreadIsTimed, Shift!Readers
<1>3. ShiftTotal'
  BY DEF ShiftInv, ShiftTotal, Shift!Length
<1>. QED
  BY <1>1, <1>2, <1>3 DEF ShiftInv

LEMMA ShiftIsTyped ==
  ShiftInv => Shift!TypeOK /\ Shift!TotalAddsUp /\ Shift!WaitsAtLiveEdge /\ Shift!UnreadIsTimed
<1>. SUFFICES ASSUME ShiftInv
              PROVE  Shift!TypeOK /\ Shift!TotalAddsUp /\ Shift!WaitsAtLiveEdge
                     /\ Shift!UnreadIsTimed
  OBVIOUS
<1>0. ShiftSets /\ ShiftReaders /\ ShiftTotal
  BY DEF ShiftInv
<1>1. Shift!TypeOK
  <2>1. \A r \in Players : player[r] \in Shift!Reading \cup {Shift!Away}
    BY <1>0 DEF ShiftReaders, ShiftPlayer
  <2>2. player \in [Players -> Shift!Reading \cup {Shift!Away}]
    BY <1>0, <2>1, Zenon DEF ShiftReaders
  <2>. QED
    BY <1>0, <2>2 DEF Shift!TypeOK, ShiftSets
<1>2. Shift!WaitsAtLiveEdge
  BY <1>0 DEF Shift!WaitsAtLiveEdge, ShiftReaders, ShiftPlayer, Shift!Away
<1>3. Shift!TotalAddsUp
  <2>. DEFINE Full == {c \in Tabs : Shift!Length(c) > 0}
  <2>1. IsFiniteSet(buffers) /\ Cardinality(buffers) \in Nat
    BY <1>0, ShiftNumbers, FS_Subset, FS_CardinalityType DEF ShiftSets
  <2>2. Full \subseteq buffers
    BY <1>0 DEF ShiftSets, Shift!Length
  <2>3. Cardinality(Full) <= Cardinality(buffers) /\ Cardinality(Full) \in Nat
    BY <2>1, <2>2, FS_Subset, ShiftFull
  <2>4. Shift!Cardinality(buffers) = Cardinality(buffers)
    <3>1. \A S : Shift!IsFiniteSet(S) = IsFiniteSet(S)
      BY DEF Shift!IsFiniteSet, IsFiniteSet
    <3>2. \A S : Shift!Cardinality(S) = Cardinality(S)
      BY <3>1 DEF Shift!Cardinality, Cardinality, Shift!IsFiniteSet, IsFiniteSet
    <3>. QED
      BY <3>2
  <2>5. globalBytes = Shift!Held([c \in Tabs |-> Shift!Length(c)]) /\ globalBytes \in Int
        /\ globalBytes <= GLOBAL_CAP + Cardinality(Full)
        /\ \A c \in Tabs : Shift!Length(c) <= OWN_CAP \/ Shift!Length(c) = 1
    BY <1>0 DEF ShiftTotal
  <2>. HIDE DEF Full
  <2>6. globalBytes <= GLOBAL_CAP + Cardinality(buffers)
    BY <2>1, <2>3, <2>5, ShiftNumbers
  <2>. QED
    BY <2>4, <2>5, <2>6, Zenon DEF Shift!TotalAddsUp
<1>. QED
  BY <1>0, <1>1, <1>2, <1>3 DEF ShiftReaders
-----------------------------------------------------------------------------
(* Overlap: what a reconnected source replays.                             *)

SeamInv == Seam!TypeOK

LEMMA SeamNumbers ==
  /\ LAST \in Nat /\ SANE_BACKWARD \in Nat /\ MAX_SEEK \in Nat /\ PCR_WRAP \in Nat \ {0}
  /\ ClockAt \subseteq Nat /\ Resets \subseteq Nat /\ FirstPcrs \subseteq 0 .. PCR_WRAP - 1
  /\ LAST < PCR_WRAP \div 2 /\ PCR_WRAP \div 2 \in Nat /\ 2 * LAST < PCR_WRAP
<1>1. /\ LAST \in Nat /\ SANE_BACKWARD \in Nat /\ MAX_SEEK \in Nat /\ PCR_WRAP \in Nat \ {0}
      /\ ClockAt \subseteq Nat /\ Resets \subseteq Nat /\ FirstPcrs \subseteq 0 .. PCR_WRAP - 1
      /\ LAST < PCR_WRAP \div 2
  BY PlaybackAssumption DEF PlaybackAssumption
<1>2. PCR_WRAP \div 2 \in Nat /\ 2 * (PCR_WRAP \div 2) <= PCR_WRAP
  BY <1>1, SMT
<1>. QED
  BY <1>1, <1>2, SMT

\* The programme is numbers too.
LEMMA SeamProgramme ==
  ASSUME SeamInv
  PROVE  /\ first \in 0 .. PCR_WRAP - 1 /\ resetAt \in Nat
         /\ next \in 0 .. LAST + 1 /\ newest \in -1 .. PCR_WRAP - 1
         /\ out \in -1 .. LAST /\ known \in -1 .. LAST /\ far \in -1 .. LAST
         /\ seekBytes \in 0 .. MAX_SEEK
BY SeamNumbers, Zenon DEF SeamInv, Seam!TypeOK, Seam!Before

LEMMA PcrIsBounded ==
  ASSUME SeamInv
  PROVE  \A n \in 0 .. LAST + 1 : Seam!Pcr(n) \in 0 .. PCR_WRAP - 1
<1>1. \A k \in Nat : k % PCR_WRAP \in 0 .. PCR_WRAP - 1
  BY SeamNumbers, SMT
<1>2. \A n \in 0 .. LAST + 1 : (IF n < resetAt THEN first + n ELSE n - resetAt) \in Nat
  BY SeamNumbers, SeamProgramme, SMT
<1>. QED
  BY <1>1, <1>2 DEF Seam!Pcr

LEMMA LearnedIsBounded ==
  ASSUME SeamInv
  PROVE  Seam!Learned(next) \in -1 .. PCR_WRAP - 1
<1>1. Seam!Learned(next) \in {Seam!Pcr(next), newest}
  BY DEF Seam!Learned
<1>2. Seam!Pcr(next) \in 0 .. PCR_WRAP - 1 /\ newest \in -1 .. PCR_WRAP - 1
  BY PcrIsBounded, SeamProgramme
<1>. QED
  BY <1>1, <1>2, SeamNumbers, SMT

LEMMA SeamInit == Seam!Init => SeamInv
<1>. SUFFICES ASSUME Seam!Init PROVE SeamInv
  OBVIOUS
<1>1. /\ next \in 0 .. LAST + 1 /\ newest \in -1 .. PCR_WRAP - 1 /\ seekBytes \in 0 .. MAX_SEEK
      /\ out \in -1 .. LAST /\ known \in -1 .. LAST /\ far \in -1 .. LAST
  BY SeamNumbers, SMT DEF Seam!Init
<1>2. armed \in BOOLEAN /\ seeking \in BOOLEAN /\ (seeking => armed)
  BY Zenon DEF Seam!Init
<1>3. first \in FirstPcrs /\ resetAt \in Resets /\ cut \in Seam!Ways
  BY Zenon DEF Seam!Init, Seam!Ways, Seam!Cuts
<1>. QED
  BY <1>1, <1>2, <1>3, Zenon DEF SeamInv, Seam!TypeOK, Seam!Before

\* What a packet may do to the numbers.
LEMMA SeamPacket ==
  ASSUME SeamInv, Seam!Filter
  PROVE  /\ next \in 0 .. LAST /\ next' = next + 1
         /\ newest' \in {newest, Seam!Learned(next)}
         /\ out' \in {out, next} /\ known' \in {known, next} /\ far' \in {far, next}
         /\ far' >= far /\ far' >= next
         /\ first' = first /\ resetAt' = resetAt
<1>1. next \in 0 .. LAST /\ far \in -1 .. LAST
  BY SeamNumbers, SeamProgramme, SMT DEF Seam!Filter
<1>2. \A n, m : Seam!Later(n, m) \in {m, n}
  BY Zenon DEF Seam!Later
<1>3. far' = Seam!Later(next, far) /\ next' = next + 1 /\ first' = first /\ resetAt' = resetAt
  BY Zenon DEF Seam!Filter
<1>4. far' >= far /\ far' >= next
  BY <1>1, <1>3, SeamNumbers, SMT DEF Seam!Later
<1>5. /\ newest' \in {newest, Seam!Learned(next)}
      /\ out' \in {out, next} /\ known' \in {known, next}
  <2>1. CASE Seam!Passes
    BY <2>1, <1>2, Zenon DEF Seam!Passes
  <2>2. CASE Seam!PassesUnread
    BY <2>2, <1>2, Zenon DEF Seam!PassesUnread
  <2>3. CASE Seam!Resumes
    BY <2>3, <1>2, Zenon DEF Seam!Resumes
  <2>4. CASE Seam!Drops
    BY <2>4, Zenon DEF Seam!Drops
  <2>. QED
    BY <2>1, <2>2, <2>3, <2>4, Zenon DEF Seam!Filter
<1>. QED
  BY <1>1, <1>2, <1>3, <1>4, <1>5, Zenon

LEMMA SeamStep == SeamInv /\ Seam!Next => SeamInv'
<1>. SUFFICES ASSUME SeamInv, Seam!Next PROVE SeamInv'
  OBVIOUS
<1>b. /\ armed \in BOOLEAN /\ seeking \in BOOLEAN /\ (seeking => armed)
      /\ first \in FirstPcrs /\ resetAt \in Resets
  BY Zenon DEF SeamInv, Seam!TypeOK
<1>1. CASE Seam!Filter
  <2>1. /\ next' \in 0 .. LAST + 1 /\ newest' \in -1 .. PCR_WRAP - 1
        /\ out' \in -1 .. LAST /\ known' \in -1 .. LAST /\ far' \in -1 .. LAST
    BY <1>1, SeamPacket, SeamProgramme, LearnedIsBounded, SeamNumbers, SMT
  <2>2. first' \in FirstPcrs /\ resetAt' \in Resets
    BY <1>1, <1>b, SeamPacket, Zenon
  <2>3. armed' \in BOOLEAN /\ seeking' \in BOOLEAN /\ (seeking' => armed')
    <3>1. CASE Seam!Passes
      BY <3>1, <1>b, Zenon DEF Seam!Passes
    <3>2. CASE Seam!PassesUnread
      BY <3>2, <1>b, Zenon DEF Seam!PassesUnread
    <3>3. CASE Seam!Resumes
      BY <3>3, Zenon DEF Seam!Resumes
    <3>4. CASE Seam!Drops
      <4>1. armed = TRUE /\ armed' = armed /\ seeking' = Seam!CaughtUp
        BY <3>4, <1>b, Zenon DEF Seam!Drops
      <4>2. Seam!CaughtUp \in BOOLEAN
        BY Zenon DEF Seam!CaughtUp
      <4>. QED
        BY <4>1, <4>2, Zenon
    <3>. QED
      BY <1>1, <3>1, <3>2, <3>3, <3>4, Zenon DEF Seam!Filter
  <2>4. seekBytes' \in 0 .. MAX_SEEK
    <3>1. Seam!SoughtNow \in 0 .. MAX_SEEK
      BY SeamProgramme, SeamNumbers, SMT DEF Seam!SoughtNow
    <3>2. \/ seekBytes' \in {seekBytes, Seam!SoughtNow}
          \/ seekBytes' = Seam!SoughtNow + 1 /\ ~(Seam!SoughtNow >= MAX_SEEK)
      BY <1>1, Zenon DEF Seam!Filter, Seam!Passes, Seam!PassesUnread, Seam!Resumes,
                         Seam!Drops, Seam!Restarts
    <3>. QED
      BY <3>1, <3>2, SeamProgramme, SeamNumbers, SMT
  <2>5. cut' \in Seam!Ways
    <3>1. \A ways \in SUBSET {"read", "rest"} : Seam!GoesOn(ways) => cut' \in Seam!Ways
      BY DEF Seam!GoesOn, Seam!Ways, Seam!Cuts
    <3>2. \E ways \in SUBSET {"read", "rest"} : Seam!GoesOn(ways)
      BY <1>1 DEF Seam!Filter, Seam!Passes, Seam!PassesUnread, Seam!Resumes, Seam!Drops
    <3>. QED
      BY <3>1, <3>2, Zenon
  <2>. QED
    BY <2>1, <2>2, <2>3, <2>4, <2>5, Zenon DEF SeamInv, Seam!TypeOK, Seam!Before
<1>2. CASE Seam!Reconnect
  <2>1. /\ next' \in 0 .. LAST + 1 /\ newest' \in -1 .. PCR_WRAP - 1
        /\ seekBytes' \in 0 .. MAX_SEEK /\ out' \in -1 .. LAST
        /\ known' \in -1 .. LAST /\ far' \in -1 .. LAST
    BY <1>2, SeamProgramme, SeamNumbers, SMT DEF Seam!Reconnect
  <2>2. /\ armed' \in BOOLEAN /\ seeking' = FALSE
        /\ first' \in FirstPcrs /\ resetAt' \in Resets /\ cut' \in Seam!Ways
    BY <1>2, <1>b, Zenon DEF Seam!Reconnect, Seam!Ways, Seam!Cuts
  <2>. QED
    BY <2>1, <2>2, Zenon DEF SeamInv, Seam!TypeOK, Seam!Before
<1>3. CASE Seam!FailOver
  <2>1. /\ next' \in 0 .. LAST + 1 /\ newest' \in -1 .. PCR_WRAP - 1
        /\ seekBytes' \in 0 .. MAX_SEEK /\ out' \in -1 .. LAST
        /\ known' \in -1 .. LAST /\ far' \in -1 .. LAST
    BY <1>3, SeamNumbers, SMT DEF Seam!FailOver
  <2>2. /\ armed' = FALSE /\ seeking' = FALSE
        /\ first' \in FirstPcrs /\ resetAt' \in Resets /\ cut' \in Seam!Ways
    BY <1>3, <1>b, Zenon DEF Seam!FailOver, Seam!Ways, Seam!Cuts
  <2>. QED
    BY <2>1, <2>2, Zenon DEF SeamInv, Seam!TypeOK, Seam!Before
<1>. QED
  BY <1>1, <1>2, <1>3, Zenon DEF Seam!Next

LEMMA SeamRests == SeamInv /\ UNCHANGED overlapVars => SeamInv'
BY DEF SeamInv, overlapVars, Seam!TypeOK

\* newest is the clock of a position no earlier than the last relayed one whose clock was
\* read; while the gate seeks, of one it has passed.  An open gate is past both.
SeamClock ==
  /\ newest = -1 \/ newest \in first .. first + LAST
  /\ newest = -1 => known = -1
  /\ newest # -1 => first + known <= newest
  /\ ~armed => known < next
  /\ seeking => newest < first + next

\* Where the clock runs on it is ahead exactly when its position is later.
LEMMA AheadIsLater ==
  ASSUME SeamInv, Seam!RunsOn, newest = -1 \/ newest \in first .. first + LAST,
         next \in 0 .. LAST
  PROVE  /\ Seam!Pcr(next) = first + next
         /\ Seam!IsAhead(Seam!Pcr(next)) <=> newest = -1 \/ first + next > newest
<1>0. first \in Nat /\ next \in Nat /\ next <= LAST /\ newest \in Int
  BY SeamProgramme, SeamNumbers, SMT
<1>1. Seam!Pcr(next) = first + next
  <2>1. next < resetAt /\ first + next \in 0 .. PCR_WRAP - 1
    BY <1>0, SeamProgramme, SeamNumbers, SMT DEF Seam!RunsOn
  <2>2. \A k \in 0 .. PCR_WRAP - 1 : k % PCR_WRAP = k
    BY SeamNumbers, SMT
  <2>. QED
    BY <2>1, <2>2 DEF Seam!Pcr
<1>2. ASSUME newest # -1
      PROVE  Seam!IsAhead(first + next) <=> first + next > newest
  <2>. DEFINE d == first + next - newest
              half == PCR_WRAP \div 2
  <2>1. half \in Nat /\ LAST <= half /\ LAST <= SANE_BACKWARD
    BY SeamNumbers, SMT DEF Seam!RunsOn
  <2>. HIDE DEF half
  <2>2. d \in Int /\ ~(d < -half) /\ ~(d < -SANE_BACKWARD) /\ (d > 0 <=> first + next > newest)
    BY <1>0, <1>2, <2>1, SeamNumbers, SMT
  <2>. DEFINE e == IF d < -half THEN d + PCR_WRAP ELSE d
  <2>3. e = d
    BY <2>2
  <2>4. Seam!IsAhead(first + next) <=> (newest = -1 \/ e > 0 \/ e < -SANE_BACKWARD)
    BY <1>0, SeamNumbers, SMT DEF Seam!IsAhead, half
  <2>. HIDE DEF e, d
  <2>. QED
    BY <1>2, <2>2, <2>3, <2>4, Zenon
<1>3. newest = -1 => Seam!IsAhead(first + next)
  BY Zenon DEF Seam!IsAhead
<1>. QED
  BY <1>1, <1>2, <1>3, Zenon

LEMMA SeamClockInit == Seam!Init => SeamClock
BY SeamNumbers, SMT DEF Seam!Init, SeamClock

\* What a packet teaches: its own clock if that is later, and never something older.
LEMMA LearnsForward ==
  ASSUME SeamInv, Seam!RunsOn, SeamClock, next \in 0 .. LAST
  PROVE  /\ Seam!Learned(next) \in Int
         /\ Seam!Learned(next) = -1 \/ Seam!Learned(next) \in first .. first + LAST
         /\ Seam!Learned(next) = -1 => newest = -1
         /\ newest <= Seam!Learned(next)
         /\ next \in ClockAt => first + next <= Seam!Learned(next)
         /\ newest < first + next => Seam!Learned(next) <= first + next
         /\ Seam!CaughtUp => newest < first + next
<1>. DEFINE learnt == Seam!Learned(next)
<1>0. first \in Nat /\ next \in Nat /\ next <= LAST /\ newest \in Int
      /\ (newest = -1 \/ newest \in first .. first + LAST)
  BY SeamProgramme, SeamNumbers, SMT DEF SeamClock
<1>1. /\ Seam!Pcr(next) = first + next
      /\ Seam!IsAhead(Seam!Pcr(next)) <=> newest = -1 \/ first + next > newest
  BY <1>0, AheadIsLater, Zenon
<1>2. learnt = IF next \in ClockAt /\ (newest = -1 \/ first + next > newest)
               THEN first + next ELSE newest
  BY <1>1, Zenon DEF Seam!Learned
<1>3. Seam!CaughtUp => newest < first + next
  <2>1. seeking => newest < first + next
    BY Zenon DEF SeamClock
  <2>2. newest = -1 \/ first + next > newest => newest < first + next
    BY <1>0, SMT
  <2>. QED
    BY <2>1, <2>2, <1>1, Zenon DEF Seam!CaughtUp
<1>. HIDE DEF learnt
<1>4. /\ learnt \in Int
      /\ learnt = -1 \/ learnt \in first .. first + LAST
      /\ learnt = -1 => newest = -1
      /\ newest <= learnt
      /\ next \in ClockAt => first + next <= learnt
      /\ newest < first + next => learnt <= first + next
  BY <1>0, <1>2, SeamNumbers, SMT
<1>. QED
  BY <1>3, <1>4, Zenon DEF learnt

LEMMA SeamClockStep ==
  SeamInv /\ (Seam!RunsOn => SeamClock) /\ Seam!Next => (Seam!RunsOn => SeamClock)'
<1>. SUFFICES ASSUME SeamInv, Seam!RunsOn => SeamClock, Seam!Next, Seam!RunsOn'
              PROVE  SeamClock'
  BY Zenon
<1>f. first' = first /\ resetAt' = resetAt
  BY Zenon DEF Seam!Next, Seam!Filter, Seam!Reconnect, Seam!FailOver
<1>r. Seam!RunsOn
  BY <1>f, Zenon DEF Seam!RunsOn
<1>t. /\ first \in Nat /\ next \in 0 .. LAST + 1 /\ newest \in Int /\ known \in -1 .. LAST
      /\ LAST \in Nat
  BY SeamProgramme, SeamNumbers, SMT
<1>i. /\ newest = -1 \/ newest \in first .. first + LAST
      /\ newest = -1 => known = -1
      /\ newest # -1 => first + known <= newest
      /\ ~armed => known < next
  BY <1>r, Zenon DEF SeamClock
<1>1. CASE Seam!Filter
  <2>. DEFINE learnt == Seam!Learned(next)
  <2>1. next \in 0 .. LAST /\ next' = next + 1
    BY <1>1, SeamPacket
  <2>2. /\ learnt \in Int
        /\ learnt = -1 \/ learnt \in first .. first + LAST
        /\ learnt = -1 => newest = -1
        /\ newest <= learnt
        /\ next \in ClockAt => first + next <= learnt
        /\ newest < first + next => learnt <= first + next
        /\ Seam!CaughtUp => newest < first + next
    BY <1>r, <2>1, LearnsForward, Zenon
  <2>. HIDE DEF learnt
  <2>3. ASSUME newest' = learnt, known' = IF next \in ClockAt
                                          THEN Seam!Later(next, known) ELSE known
        PROVE  /\ newest' = -1 \/ newest' \in first .. first + LAST
               /\ newest' = -1 => known' = -1
               /\ newest' # -1 => first + known' <= newest'
    <3>1. CASE next \in ClockAt
      <4>1. learnt # -1
        BY <3>1, <2>1, <2>2, <1>t, SMT
      <4>2. known' \in {known, next}
        BY <3>1, <2>3, Zenon DEF Seam!Later
      <4>3. first + known' <= learnt
        <5>1. CASE known' = next
          BY <5>1, <3>1, <2>2
        <5>2. CASE known' = known /\ newest # -1
          <6>1. first + known <= newest /\ newest <= learnt
            BY <5>2, <2>2, <1>i, Zenon
          <6>. QED
            BY <5>2, <6>1, <2>2, <1>t, SMT
        <5>3. CASE known' = known /\ newest = -1
          <6>1. known' = -1 /\ first + next <= learnt
            BY <5>3, <3>1, <2>2, <1>i, Zenon
          <6>. QED
            BY <6>1, <2>1, <2>2, <1>t, SMT
        <5>. QED
          BY <4>2, <5>1, <5>2, <5>3
      <4>. QED
        BY <4>1, <4>3, <2>2, <2>3
    <3>2. CASE next \notin ClockAt
      BY <3>2, <2>2, <2>3, <1>t, <1>i, SMT
    <3>. QED
      BY <3>1, <3>2
  <2>4. known' < next' \/ armed'
    <3>1. CASE armed'
      BY <3>1
    <3>2. CASE ~armed'
      <4>1. known' \in {known, next}
        BY <1>1, SeamPacket
      <4>2. Seam!Passes \/ Seam!PassesUnread \/ Seam!Resumes
        <5>1. Seam!Drops => armed'
          <6>1. armed /\ armed' = armed => armed' = TRUE
            BY Zenon DEF SeamInv, Seam!TypeOK
          <6>. QED
            BY <6>1, Zenon DEF Seam!Drops
        <5>. QED
          BY <1>1, <3>2, <5>1, Zenon DEF Seam!Filter
      <4>3. CASE ~armed
        BY <4>1, <4>3, <1>i, <1>t, <2>1, SMT
      <4>4. CASE armed
        <5>1. Seam!CaughtUp
          BY <4>2, <4>4, Zenon DEF Seam!Passes, Seam!PassesUnread, Seam!Resumes
        <5>2. newest < first + next
          BY <5>1, <2>2
        <5>. QED
          BY <4>1, <5>2, <1>i, <1>t, <2>1, SMT
      <4>. QED
        BY <4>3, <4>4
    <3>. QED
      BY <3>1, <3>2
  <2>5. CASE Seam!Passes
    <3>1. /\ newest' = learnt
          /\ known' = IF next \in ClockAt THEN Seam!Later(next, known) ELSE known
      BY <2>5, Zenon DEF Seam!Passes, learnt
    <3>2. ~armed' /\ ~seeking'
      BY <2>5, Zenon DEF Seam!Passes, SeamInv, Seam!TypeOK
    <3>. QED
      BY <3>1, <3>2, <2>3, <2>4, <1>f, Zenon DEF SeamClock
  <2>6. CASE Seam!PassesUnread
    <3>1. newest' = newest /\ known' = known
      BY <2>6, Zenon DEF Seam!PassesUnread
    <3>2. ~armed' /\ ~seeking'
      BY <2>6, Zenon DEF Seam!PassesUnread, SeamInv, Seam!TypeOK
    <3>. QED
      BY <3>1, <3>2, <2>4, <1>i, <1>f, Zenon DEF SeamClock
  <2>7. CASE Seam!Resumes
    <3>1. /\ newest' = learnt
          /\ known' = IF next \in ClockAt THEN Seam!Later(next, known) ELSE known
      BY <2>7, Zenon DEF Seam!Resumes, learnt
    <3>2. ~armed' /\ ~seeking'
      BY <2>7, Zenon DEF Seam!Resumes
    <3>. QED
      BY <3>1, <3>2, <2>3, <2>4, <1>f, Zenon DEF SeamClock
  <2>8. CASE Seam!Drops
    <3>1. known' = known /\ armed'
      BY <2>8, Zenon DEF Seam!Drops
    <3>2. CASE Seam!CaughtUp
      <4>1. newest' = learnt
        BY <2>8, <3>2, Zenon DEF Seam!Drops, learnt
      <4>2. learnt < first + (next + 1)
        BY <3>2, <2>1, <2>2, <1>t, SMT
      <4>3. newest # -1 => first + known <= learnt
        <5>1. newest # -1 => first + known <= newest
          BY <1>i, Zenon
        <5>. QED
          BY <5>1, <2>2, <1>t, SMT
      <4>4. learnt # -1 => first + known <= learnt
        <5>1. newest = -1 => known = -1
          BY <1>i, Zenon
        <5>2. newest = -1 /\ learnt # -1 => first + known <= learnt
          BY <5>1, <2>2, <1>t, SMT
        <5>. QED
          BY <4>3, <5>2, Zenon
      <4>. QED
        BY <4>1, <4>2, <4>4, <3>1, <2>1, <2>2, <1>i, <1>f, Zenon DEF SeamClock
    <3>3. CASE ~Seam!CaughtUp
      <4>1. newest' = newest /\ ~seeking'
        BY <2>8, <3>3, Zenon DEF Seam!Drops
      <4>. QED
        BY <4>1, <3>1, <1>i, <1>f, Zenon DEF SeamClock
    <3>. QED
      BY <3>2, <3>3
  <2>. QED
    BY <1>1, <2>5, <2>6, <2>7, <2>8, Zenon DEF Seam!Filter
<1>2. CASE Seam!Reconnect
  <2>1. newest' = newest /\ known' = known /\ ~seeking' /\ (~armed' => newest = -1)
    BY <1>2, Zenon DEF Seam!Reconnect
  <2>2. newest = -1 => known < next'
    BY <1>2, <1>i, <1>t, SMT DEF Seam!Reconnect
  <2>. QED
    BY <2>1, <2>2, <1>i, <1>f, Zenon DEF SeamClock
<1>3. CASE Seam!FailOver
  <2>1. newest' = -1 /\ known' = -1 /\ next' = 0 /\ ~seeking'
    BY <1>3, Zenon DEF Seam!FailOver
  <2>2. known' < next'
    BY <2>1, SMT
  <2>. QED
    BY <2>1, <2>2, Zenon DEF SeamClock
<1>. QED
  BY <1>1, <1>2, <1>3, Zenon DEF Seam!Next

LEMMA SeamClockRests ==
  (Seam!RunsOn => SeamClock) /\ UNCHANGED overlapVars => (Seam!RunsOn => SeamClock)'
BY DEF SeamClock, overlapVars, Seam!RunsOn

\* What goes down is later than every relayed packet whose clock was read.
LEMMA SeamSendsNothingTwice ==
  SeamInv /\ (Seam!RunsOn => SeamClock)
    => [Seam!Filter /\ ~armed' /\ Seam!RunsOn => next > known]_(Seam!vars)
<1>. SUFFICES ASSUME SeamInv, SeamClock, Seam!Filter, ~armed', Seam!RunsOn
              PROVE  next > known
  BY Zenon
<1>1. next \in 0 .. LAST /\ first \in Nat /\ newest \in Int /\ known \in -1 .. LAST
  BY SeamPacket, SeamProgramme, SeamNumbers, SMT
<1>2. CASE ~armed
  <2>1. known < next
    BY <1>2, Zenon DEF SeamClock
  <2>. QED
    BY <2>1, <1>1, SMT
<1>3. CASE armed
  <2>1. Seam!CaughtUp
    BY <1>3, Zenon DEF Seam!Filter, Seam!Passes, Seam!PassesUnread, Seam!Resumes, Seam!Drops
  <2>2. newest < first + next
    BY <1>1, <2>1, LearnsForward
  <2>3. (newest = -1 => known = -1) /\ (newest # -1 => first + known <= newest)
    BY Zenon DEF SeamClock
  <2>. QED
    BY <1>1, <2>2, <2>3, SeamNumbers, SMT
<1>. QED
  BY <1>2, <1>3

\* newest is the clock of a position that was delivered.
SeamReach == newest = -1 \/ \E m \in 0 .. LAST : m <= far /\ newest = Seam!Pcr(m)

\* The clock of a later position is ahead, also over a wrap or a new start.
LEMMA LaterIsAhead ==
  ASSUME SeamInv, Seam!RunsOrJumps, NEW m \in 0 .. LAST, NEW k \in 0 .. LAST, m < k,
         newest = Seam!Pcr(m)
  PROVE  Seam!IsAhead(Seam!Pcr(k))
<1>. DEFINE half == PCR_WRAP \div 2
            d == Seam!Pcr(k) - newest
<1>a. /\ d \in Int /\ d < -half /\ d + PCR_WRAP > 0 => Seam!IsAhead(Seam!Pcr(k))
      /\ d \in Int /\ ~(d < -half) /\ (d > 0 \/ d < -SANE_BACKWARD)
           => Seam!IsAhead(Seam!Pcr(k))
  BY Zenon DEF Seam!IsAhead
<1>0. /\ first \in 0 .. PCR_WRAP - 1 /\ resetAt \in Nat /\ PCR_WRAP \in Nat \ {0}
      /\ LAST \in Nat /\ SANE_BACKWARD \in Nat /\ half \in Nat /\ LAST < half
      /\ 2 * LAST < PCR_WRAP
  BY SeamProgramme, SeamNumbers
<1>h. 2 * half <= PCR_WRAP
  BY <1>0, SMT
<1>1. \A x \in Nat : x < 2 * PCR_WRAP
        => x % PCR_WRAP = IF x < PCR_WRAP THEN x ELSE x - PCR_WRAP
  BY <1>0, SMT
<1>. HIDE DEF half
<1>2. CASE resetAt > LAST
  <2>1. /\ Seam!Pcr(m) = (first + m) % PCR_WRAP
        /\ Seam!Pcr(k) = (first + k) % PCR_WRAP
    BY <1>0, <1>2, SMT DEF Seam!Pcr
  <2>2. /\ Seam!Pcr(m) = IF first + m < PCR_WRAP THEN first + m ELSE first + m - PCR_WRAP
        /\ Seam!Pcr(k) = IF first + k < PCR_WRAP THEN first + k ELSE first + k - PCR_WRAP
    BY <2>1, <1>0, <1>1, SMT
  <2>3. d = k - m \/ d = k - m - PCR_WRAP
    BY <2>2, <1>0, SMT
  <2>. HIDE DEF d
  <2>4. d = k - m => ~(d < -half)
    BY <1>0, SMT
  <2>5. d = k - m - PCR_WRAP => d < -half
    BY <1>0, <1>h, SMT
  <2>6. \/ d \in Int /\ d < -half /\ d + PCR_WRAP > 0
        \/ d \in Int /\ ~(d < -half) /\ d > 0
    BY <2>3, <2>4, <2>5, <1>0, SMT
  <2>. QED
    BY <1>a, <2>6, Zenon
<1>3. CASE resetAt <= LAST
  <2>1. first > LAST + SANE_BACKWARD /\ first + LAST < PCR_WRAP
    BY <1>0, <1>3, SMT DEF Seam!RunsOrJumps
  <2>2. ASSUME NEW n \in 0 .. LAST
        PROVE  Seam!Pcr(n) = IF n < resetAt THEN first + n ELSE n - resetAt
    BY <1>0, <1>1, <2>1, SMT DEF Seam!Pcr
  <2>3. d > 0 \/ (d < -SANE_BACKWARD /\ d > -PCR_WRAP)
    BY <2>1, <2>2, <1>0, SMT
  <2>4. d \in Int
    BY <2>2, <1>0, SMT
  <2>. HIDE DEF d
  <2>5. \/ d \in Int /\ d < -half /\ d + PCR_WRAP > 0
        \/ d \in Int /\ ~(d < -half) /\ (d > 0 \/ d < -SANE_BACKWARD)
    BY <2>3, <2>4, <1>0, SMT
  <2>. QED
    BY <1>a, <2>5, Zenon
<1>. QED
  BY <1>0, <1>2, <1>3, SMT

LEMMA SeamReachInit == Seam!Init => SeamReach
BY Zenon DEF Seam!Init, SeamReach

LEMMA SeamReachStep == SeamInv /\ SeamReach /\ Seam!Next => SeamReach'
<1>. SUFFICES ASSUME SeamInv, SeamReach, Seam!Next PROVE SeamReach'
  OBVIOUS
<1>f. first' = first /\ resetAt' = resetAt
  BY Zenon DEF Seam!Next, Seam!Filter, Seam!Reconnect, Seam!FailOver
<1>p. \A m : Seam!Pcr(m)' = Seam!Pcr(m)
  BY <1>f DEF Seam!Pcr
<1>1. CASE Seam!Filter
  <2>1. /\ next \in 0 .. LAST /\ newest' \in {newest, Seam!Learned(next)}
        /\ far' \in {far, next} /\ far' >= far /\ far' >= next
    BY <1>1, SeamPacket
  <2>2. newest' = newest \/ newest' = Seam!Pcr(next)
    BY <2>1, Zenon DEF Seam!Learned
  <2>3. CASE newest' = newest
    <3>1. far \in Int
      BY SeamProgramme, SeamNumbers, SMT
    <3>2. \A m \in 0 .. LAST : m <= far => m <= far'
      BY <2>1, <3>1, SeamNumbers, SMT
    <3>. QED
      BY <2>3, <3>2, <1>p, Zenon DEF SeamReach
  <2>4. CASE newest' = Seam!Pcr(next)
    <3>1. next <= far'
      BY <2>1, SeamProgramme, SeamNumbers, SMT
    <3>. QED
      BY <2>4, <3>1, <2>1, <1>p, Zenon DEF SeamReach
  <2>. QED
    BY <2>2, <2>3, <2>4
<1>2. CASE Seam!Reconnect
  <2>1. newest' = newest /\ far' = far
    BY <1>2, Zenon DEF Seam!Reconnect
  <2>. QED
    BY <2>1, <1>p, Zenon DEF SeamReach
<1>3. CASE Seam!FailOver
  BY <1>3, Zenon DEF Seam!FailOver, SeamReach
<1>. QED
  BY <1>1, <1>2, <1>3, Zenon DEF Seam!Next

LEMMA SeamReachRests == SeamReach /\ UNCHANGED overlapVars => SeamReach'
BY DEF SeamReach, overlapVars, Seam!Pcr

\* What is dropped before the clock has caught up was delivered before.
LEMMA SeamCatchesUp ==
  SeamInv /\ SeamReach
    => [Seam!Filter /\ Seam!Drops /\ ~Seam!CaughtUp /\ Seam!RunsOrJumps /\ next \in ClockAt
          => next <= far]_(Seam!vars)
<1>. SUFFICES ASSUME SeamInv, SeamReach, Seam!Filter, ~Seam!CaughtUp, Seam!RunsOrJumps,
                     next \in ClockAt
              PROVE  next <= far
  BY Zenon
<1>1. ~Seam!IsAhead(Seam!Pcr(next))
  BY Zenon DEF Seam!CaughtUp
<1>2. newest # -1
  BY <1>1, Zenon DEF Seam!IsAhead
<1>3. PICK m \in 0 .. LAST : m <= far /\ newest = Seam!Pcr(m)
  BY <1>2, Zenon DEF SeamReach
<1>4. next \in 0 .. LAST /\ far \in -1 .. LAST
  BY SeamPacket, SeamProgramme
<1>5. ~(m < next)
  BY <1>1, <1>3, <1>4, LaterIsAhead, Zenon
<1>. QED
  BY <1>3, <1>4, <1>5, SeamNumbers, SMT

\* It opens on a video PES packet, or having looked for one long enough.
LEMMA SeamResumesDecodable ==
  [Seam!Filter /\ Seam!Resumes => next \in PesAt \/ seekBytes' >= MAX_SEEK]_(Seam!vars)
<1>. SUFFICES ASSUME Seam!Resumes PROVE next \in PesAt \/ seekBytes' >= MAX_SEEK
  BY Zenon
<1>1. seekBytes' = Seam!SoughtNow /\ Seam!Restarts
  BY Zenon DEF Seam!Resumes
<1>. QED
  BY <1>1, Zenon DEF Seam!Restarts
-----------------------------------------------------------------------------
(* TsStreams: the preroll, packet by packet.                               *)

LEMMA TsNumbers == /\ MAX_PACKETS \in Nat /\ MAX_CHUNK \in Nat
                   /\ GOP_CAP \in Nat \ {0} /\ HELD_CAP \in Nat \ {0}
BY PlaybackAssumption DEF PlaybackAssumption

\* No loss among the first m packets; from "start" on, q runs up to packet m.
Clear(s, m) == \A k \in 1 .. m : s[k] # "lost"
EndsAt(q, start, m) == \A j \in start .. Len(q) : q[j] = m - Len(q) + j

LEMMA EndsAtAppended ==
  ASSUME NEW q \in Seq(Nat), NEW start \in Nat \ {0}, NEW m \in Nat, EndsAt(q, start, m)
  PROVE  EndsAt(Append(q, m + 1), start, m + 1)
<1>. DEFINE p == Append(q, m + 1)
<1>1. /\ Len(p) = Len(q) + 1 /\ p[Len(q) + 1] = m + 1
      /\ \A j \in 1 .. Len(q) : p[j] = q[j]
  BY AppendProperties
<1>. HIDE DEF p
<1>2. ASSUME NEW j \in start .. Len(p) PROVE p[j] = (m + 1) - Len(p) + j
  <2>1. CASE j = Len(q) + 1
    BY <1>1, <2>1
  <2>2. CASE j # Len(q) + 1
    <3>1. j \in 1 .. Len(q) /\ j \in start .. Len(q)
      BY <1>1, <1>2, <2>2
    <3>2. p[j] = q[j] /\ q[j] = m - Len(q) + j
      BY <1>1, <3>1, Zenon DEF EndsAt
    <3>. QED
      BY <1>1, <3>1, <3>2
  <2>. QED
    BY <2>1, <2>2
<1>. QED
  BY <1>2 DEF EndsAt, p

LEMMA EndsAtTail ==
  ASSUME NEW q \in Seq(Nat), q # << >>, NEW m \in Nat, EndsAt(q, 1, m)
  PROVE  EndsAt(Tail(q), 1, m)
<1>1. /\ Len(Tail(q)) = Len(q) - 1 /\ Len(q) \in Nat
      /\ \A j \in 1 .. Len(Tail(q)) : Tail(q)[j] = q[j + 1]
  BY HeadTailProperties
<1>2. ASSUME NEW j \in 1 .. Len(Tail(q)) PROVE Tail(q)[j] = m - Len(Tail(q)) + j
  <2>1. j + 1 \in 1 .. Len(q)
    BY <1>1
  <2>2. q[j + 1] = m - Len(q) + (j + 1)
    BY <2>1, Zenon DEF EndsAt
  <2>. QED
    BY <1>1, <2>2
<1>. QED
  BY <1>2 DEF EndsAt

\* The packets since a keyframe, all of them while the buffer holds a whole stream.
GopOK(g, s, m) ==
  /\ g \in Seq(Nat) /\ Len(g) <= GOP_CAP /\ \A j \in 1 .. Len(g) : g[j] \in 1 .. m
  /\ g # << >> => s[g[1]] = "key"
  /\ Clear(s, m) /\ MAX_PACKETS <= GOP_CAP => EndsAt(g, 1, m)

LEMMA GopGrows ==
  ASSUME NEW s, NEW m \in Nat, m < MAX_PACKETS, NEW g, GopOK(g, s, m), NEW sighted \in BOOLEAN
  PROVE  GopOK(Ts!Grown(g, m + 1, s[m + 1], sighted), s, m + 1)
<1>. DEFINE h == Ts!Grown(g, m + 1, s[m + 1], sighted)
<1>g. g \in Seq(Nat) /\ Len(g) <= GOP_CAP /\ Len(g) \in Nat /\ \A j \in 1 .. Len(g) : g[j] \in 1 .. m
  BY DEF GopOK
<1>k. g # << >> => s[g[1]] = "key"
  BY Zenon DEF GopOK
<1>c. Clear(s, m + 1) => Clear(s, m)
  BY DEF Clear
<1>1. CASE s[m + 1] = "key" /\ sighted
  <2>1. h = <<m + 1>>
    BY <1>1, Zenon DEF Ts!Grown
  <2>. HIDE DEF h
  <2>2. h \in Seq(Nat) /\ Len(h) = 1 /\ h[1] = m + 1
    BY <2>1
  <2>3. EndsAt(h, 1, m + 1)
    BY <2>2 DEF EndsAt
  <2>4. Len(h) <= GOP_CAP /\ \A j \in 1 .. Len(h) : h[j] \in 1 .. m + 1
    BY <2>2, TsNumbers
  <2>. QED
    BY <1>1, <2>2, <2>3, <2>4, Zenon DEF GopOK, h
<1>2. CASE ~(s[m + 1] = "key" /\ sighted) /\ g # << >> /\ Len(g) < GOP_CAP
  <2>1. h = Append(g, m + 1)
    BY <1>2, Zenon DEF Ts!Grown
  <2>. HIDE DEF h
  <2>2. /\ h \in Seq(Nat) /\ h # << >> /\ Len(h) = Len(g) + 1 /\ h[Len(g) + 1] = m + 1
        /\ \A j \in 1 .. Len(g) : h[j] = g[j]
    BY <1>g, <2>1, AppendProperties
  <2>3. Len(g) # 0
    BY <1>2, <1>g, EmptySeq
  <2>4. h[1] = g[1]
    BY <2>2, <2>3, <1>g
  <2>5. ASSUME NEW j \in 1 .. Len(h) PROVE h[j] \in 1 .. m + 1
    <3>1. CASE j = Len(g) + 1
      BY <2>2, <3>1
    <3>2. CASE j # Len(g) + 1
      <4>1. j \in 1 .. Len(g)
        BY <2>2, <3>2, <1>g
      <4>2. h[j] = g[j] /\ g[j] \in 1 .. m
        BY <2>2, <4>1, <1>g, Zenon
      <4>. QED
        BY <4>2
    <3>. QED
      BY <3>1, <3>2
  <2>6. ASSUME Clear(s, m + 1), MAX_PACKETS <= GOP_CAP PROVE EndsAt(h, 1, m + 1)
    <3>1. EndsAt(g, 1, m)
      BY <1>c, <2>6, Zenon DEF GopOK
    <3>2. EndsAt(Append(g, m + 1), 1, m + 1)
      BY <3>1, <1>g, EndsAtAppended
    <3>. QED
      BY <2>1, <3>2, Zenon
  <2>7. Len(h) <= GOP_CAP
    BY <1>2, <1>g, <2>2, TsNumbers
  <2>. QED
    BY <2>2, <2>4, <2>5, <2>6, <2>7, <1>2, <1>k, Zenon DEF GopOK, h
<1>3. CASE ~(s[m + 1] = "key" /\ sighted) /\ ~(g # << >> /\ Len(g) < GOP_CAP)
  <2>1. h = g
    BY <1>3, Zenon DEF Ts!Grown
  <2>. HIDE DEF h
  <2>2. \A j \in 1 .. Len(g) : g[j] \in 1 .. m + 1
    BY <1>g
  <2>3. ASSUME Clear(s, m + 1), MAX_PACKETS <= GOP_CAP PROVE EndsAt(g, 1, m + 1)
    <3>1. EndsAt(g, 1, m)
      BY <1>c, <2>3, Zenon DEF GopOK
    <3>2. CASE g = << >>
      BY <3>2 DEF EndsAt
    <3>3. CASE g # << >>
      <4>1. Len(g) >= GOP_CAP /\ Len(g) # 0
        BY <1>3, <3>3, <1>g, EmptySeq, TsNumbers
      <4>2. g[1] = m - Len(g) + 1 /\ g[1] \in 1 .. m
        BY <3>1, <4>1, <1>g DEF EndsAt
      <4>. QED
        BY <4>1, <4>2, <2>3, <1>g, TsNumbers
    <3>. QED
      BY <3>2, <3>3
  <2>. QED
    BY <2>1, <2>2, <2>3, <1>g, <1>k, Zenon DEF GopOK, h
<1>. QED
  BY <1>1, <1>2, <1>3, Zenon

\* What the preroll knows after packet m of s.
PreOK(r, s, m) ==
  /\ r.pat \in 0 .. m /\ r.pmt \in 0 .. m
  /\ r.pat # 0 => s[r.pat] = "pat"
  /\ r.pmt # 0 => s[r.pmt] = "pmt"
  /\ r.video \in BOOLEAN
  /\ GopOK(r.gop, s, m)

LEMMA PreLearns ==
  ASSUME NEW s, NEW m \in Nat, m < MAX_PACKETS, NEW r, PreOK(r, s, m)
  PROVE  PreOK(Ts!Learns(r, m + 1, s[m + 1]), s, m + 1)
<1>. DEFINE sighted == r.video \/ (s[m + 1] = "pmt" /\ r.pat # 0)
            q == Ts!Learns(r, m + 1, s[m + 1])
<1>1. /\ q.pat = IF s[m + 1] = "pat" THEN m + 1 ELSE r.pat
      /\ q.pmt = IF s[m + 1] = "pmt" /\ r.pat # 0 THEN m + 1 ELSE r.pmt
      /\ q.video = sighted
      /\ q.gop = Ts!Grown(r.gop, m + 1, s[m + 1], sighted)
  BY DEF Ts!Learns
<1>2. r.pat \in 0 .. m /\ r.pmt \in 0 .. m
  BY DEF PreOK
<1>3. sighted \in BOOLEAN
  BY Zenon DEF PreOK
<1>. HIDE DEF q, sighted
<1>4. GopOK(q.gop, s, m + 1)
  <2>1. GopOK(r.gop, s, m)
    BY Zenon DEF PreOK
  <2>. QED
    BY <1>1, <1>3, <2>1, GopGrows, Zenon
<1>5. q.pat \in 0 .. m + 1 /\ q.pmt \in 0 .. m + 1
  <2>1. q.pat \in {m + 1, r.pat} /\ q.pmt \in {m + 1, r.pmt}
    BY <1>1, Zenon
  <2>. QED
    BY <1>2, <2>1, SMT
<1>6. (q.pat # 0 => s[q.pat] = "pat") /\ (q.pmt # 0 => s[q.pmt] = "pmt")
  BY <1>1, Zenon DEF PreOK
<1>. QED
  BY <1>1, <1>3, <1>4, <1>5, <1>6, Zenon DEF PreOK, q

LEMMA PreExtends ==
  ASSUME NEW s, NEW t, NEW m \in Nat, \A i \in 1 .. m : s[i] = t[i], NEW r, PreOK(r, t, m)
  PROVE  PreOK(r, s, m)
<1>1. r.pat \in 0 .. m /\ r.pmt \in 0 .. m /\ r.video \in BOOLEAN
  BY Zenon DEF PreOK
<1>2. r.pat # 0 => r.pat \in 1 .. m
  BY <1>1, SMT
<1>3. r.pmt # 0 => r.pmt \in 1 .. m
  BY <1>1, SMT
<1>4. (r.pat # 0 => s[r.pat] = "pat") /\ (r.pmt # 0 => s[r.pmt] = "pmt")
  BY <1>2, <1>3, Zenon DEF PreOK
<1>5. GopOK(r.gop, s, m)
  <2>1. GopOK(r.gop, t, m)
    BY Zenon DEF PreOK
  <2>2. r.gop # << >> => s[r.gop[1]] = "key"
    <3>1. ASSUME r.gop # << >> PROVE r.gop[1] \in 1 .. m
      <4>1. r.gop \in Seq(Nat) /\ \A j \in 1 .. Len(r.gop) : r.gop[j] \in 1 .. m
        BY <2>1, Zenon DEF GopOK
      <4>2. 1 \in 1 .. Len(r.gop)
        BY <3>1, <4>1, EmptySeq
      <4>. QED
        BY <4>1, <4>2, Zenon
    <3>. QED
      BY <2>1, <3>1, Zenon DEF GopOK
  <2>3. Clear(s, m) => Clear(t, m)
    BY DEF Clear
  <2>. QED
    BY <2>1, <2>2, <2>3, Zenon DEF GopOK
<1>. QED
  BY <1>1, <1>4, <1>5, Zenon DEF PreOK

\* After a loss the packets that follow leave everything as it is.
LEMMA PreSkips ==
  ASSUME NEW s, NEW m \in Nat, NEW n \in Nat, m <= n, ~Clear(s, n), NEW r, PreOK(r, s, m)
  PROVE  PreOK(r, s, n)
<1>1. r.pat \in 0 .. n /\ r.pmt \in 0 .. n
  BY DEF PreOK
<1>2. GopOK(r.gop, s, n)
  <2>1. GopOK(r.gop, s, m)
    BY Zenon DEF PreOK
  <2>2. \A j \in 1 .. Len(r.gop) : r.gop[j] \in 1 .. n
    BY <2>1 DEF GopOK
  <2>. QED
    BY <2>1, <2>2, Zenon DEF GopOK
<1>. QED
  BY <1>1, <1>2, Zenon DEF PreOK
-----------------------------------------------------------------------------
(* TsStreams: a chunk through the preroll.                                 *)

Learnt == [pat |-> pat, pmt |-> pmt, video |-> video, gop |-> gop]

\* What it means to be the preroll after each packet of a chunk.
Prerolls(f, piece, m) ==
  f = [k \in 0 .. m |-> IF k = 0 THEN Learnt
                        ELSE Ts!Learns(f[k - 1], Len(stream) + k, piece[k])]

LEMMA PrerollsExists ==
  ASSUME NEW piece, NEW n \in Nat
  PROVE  \E f : Prerolls(f, piece, n)
<1>. DEFINE T == {m \in Nat : ~ \E f : Prerolls(f, piece, m)}
<1>1. ASSUME NEW m \in T PROVE \E i \in T : i < m
  <2>1. m # 0
    <3>. DEFINE f0 == [k \in 0 .. 0 |-> Learnt]
    <3>1. Prerolls(f0, piece, 0)
      BY DEF Prerolls
    <3>. QED
      BY <3>1
  <2>2. m - 1 \in Nat /\ m - 1 < m
    BY <2>1
  <2>3. ASSUME m - 1 \notin T PROVE FALSE
    <3>. PICK f : Prerolls(f, piece, m - 1)
      BY <2>2, <2>3
    <3>1. \A k \in 0 .. m - 1 :
             f[k] = IF k = 0 THEN Learnt ELSE Ts!Learns(f[k - 1], Len(stream) + k, piece[k])
      BY Zenon DEF Prerolls
    <3>. DEFINE last == Ts!Learns(f[m - 1], Len(stream) + m, piece[m])
                h == [k \in 0 .. m |-> IF k = m THEN last ELSE f[k]]
    <3>2. ASSUME NEW k \in 0 .. m
          PROVE  h[k] = IF k = 0 THEN Learnt
                        ELSE Ts!Learns(h[k - 1], Len(stream) + k, piece[k])
      <4>1. CASE k = m
        <5>1. h[k] = last /\ k # 0
          BY <4>1, <2>1
        <5>2. k - 1 \in 0 .. m /\ k - 1 # m /\ k - 1 = m - 1
          BY <4>1, <2>2
        <5>3. h[k - 1] = f[m - 1]
          BY <5>2, Zenon
        <5>. QED
          BY <4>1, <5>1, <5>3, Zenon
      <4>2. CASE k # m
        <5>1. k \in 0 .. m - 1 /\ h[k] = f[k]
          BY <4>2, <2>2
        <5>2. CASE k = 0
          BY <5>1, <5>2, <3>1, Zenon
        <5>3. CASE k # 0
          <6>1. k - 1 \in 0 .. m /\ k - 1 # m
            BY <4>2, <5>3
          <6>2. h[k - 1] = f[k - 1]
            BY <6>1, Zenon
          <6>. QED
            BY <5>1, <5>3, <6>2, <3>1, Zenon
        <5>. QED
          BY <5>2, <5>3
      <4>. QED
        BY <4>1, <4>2
    <3>3. Prerolls(h, piece, m)
      <4>1. h = [k \in 0 .. m |-> h[k]]
        BY Zenon
      <4>. HIDE DEF h
      <4>. QED
        BY <4>1, <3>2 DEF Prerolls
    <3>. QED
      BY <3>3
  <2>. QED
    BY <2>2, <2>3
<1>2. T = {}
  <2>. HIDE DEF T
  <2>1. T \in SUBSET Nat
    BY DEF T
  <2>. QED
    BY <1>1, <2>1, NoLeast
<1>. QED
  BY <1>2

\* The packets before the first without sync.
LEMMA UpToLossIs ==
  ASSUME NEW piece \in Seq(Ts!Kinds)
  PROVE  LET u == Ts!UpToLoss(piece)
         IN  /\ u \in 0 .. Len(piece)
             /\ \A k \in 1 .. u : piece[k] # "lost"
             /\ u < Len(piece) => piece[u + 1] = "lost"
<1>. DEFINE Good(u) == /\ \A k \in 1 .. u : piece[k] # "lost"
                       /\ u < Len(piece) => piece[u + 1] = "lost"
            T == {k \in 1 .. Len(piece) : piece[k] = "lost"}
<1>1. \E u \in 0 .. Len(piece) : Good(u)
  <2>1. CASE T = {}
    BY <2>1
  <2>2. CASE T # {}
    <3>1. T \in SUBSET Nat
      OBVIOUS
    <3>2. PICK x \in T : \A y \in T : x <= y
      BY <2>2, <3>1, LeastOf
    <3>3. x - 1 \in 0 .. Len(piece) /\ (x - 1) + 1 = x /\ piece[x] = "lost"
      BY <3>2
    <3>4. ASSUME NEW k \in 1 .. x - 1 PROVE piece[k] # "lost"
      BY <3>2, <3>3
    <3>5. Good(x - 1)
      BY <3>3, <3>4
    <3>. QED
      BY <3>3, <3>5
  <2>. QED
    BY <2>1, <2>2
<1>. QED
  BY <1>1, Zenon DEF Ts!UpToLoss

\* A chunk that comes after the packets of "stream".
LEMMA Lengthened ==
  ASSUME NEW piece \in Seq(Ts!Kinds), stream \in Seq(Ts!Kinds)
  PROVE  /\ stream \o piece \in Seq(Ts!Kinds)
         /\ Len(stream \o piece) = Len(stream) + Len(piece)
         /\ \A i \in 1 .. Len(stream) : (stream \o piece)[i] = stream[i]
         /\ \A k \in 1 .. Len(piece) : (stream \o piece)[Len(stream) + k] = piece[k]
<1>1. /\ stream \o piece \in Seq(Ts!Kinds)
      /\ Len(stream \o piece) = Len(stream) + Len(piece)
      /\ \A i \in 1 .. Len(stream) + Len(piece) :
           (stream \o piece)[i] = IF i <= Len(stream) THEN stream[i] ELSE piece[i - Len(stream)]
  BY ConcatProperties
<1>. DEFINE s == stream \o piece
<1>. HIDE DEF s
<1>2. ASSUME NEW k \in 1 .. Len(piece) PROVE s[Len(stream) + k] = piece[k]
  <2>1. /\ Len(stream) + k \in 1 .. Len(stream) + Len(piece) /\ ~(Len(stream) + k <= Len(stream))
        /\ (Len(stream) + k) - Len(stream) = k
    OBVIOUS
  <2>. QED
    BY <1>1, <2>1, Zenon DEF s
<1>3. ASSUME NEW i \in 1 .. Len(stream) PROVE s[i] = stream[i]
  BY <1>1 DEF s
<1>. QED
  BY <1>1, <1>2, <1>3 DEF s

LEMMA PrerollKnows ==
  ASSUME NEW piece \in Seq(Ts!Kinds), stream \in Seq(Ts!Kinds),
         Len(stream) + Len(piece) <= MAX_PACKETS,
         PreOK(Learnt, stream, Len(stream))
  PROVE  PreOK(Ts!Prerolled(piece), stream \o piece, Len(stream) + Len(piece))
<1>. DEFINE s == stream \o piece
            L == Len(stream)
            n == Len(piece)
            u == Ts!UpToLoss(piece)
            f == CHOOSE g : Prerolls(g, piece, n)
<1>1. Ts!Prerolled(piece) = f[u]
  BY Zenon DEF Ts!Prerolled, Prerolls, Learnt
<1>2. Prerolls(f, piece, n)
  <2>1. n \in Nat
    OBVIOUS
  <2>. QED
    BY <2>1, PrerollsExists, Zenon
<1>. HIDE DEF f
<1>3. \A k \in 0 .. n : f[k] = IF k = 0 THEN Learnt ELSE Ts!Learns(f[k - 1], L + k, piece[k])
  BY <1>2, Zenon DEF Prerolls
<1>4. /\ L \in Nat /\ n \in Nat /\ \A i \in 1 .. L : s[i] = stream[i]
      /\ \A k \in 1 .. n : s[L + k] = piece[k]
  BY Lengthened
<1>5. /\ u \in 0 .. n /\ \A k \in 1 .. u : piece[k] # "lost"
      /\ u < n => piece[u + 1] = "lost"
  BY UpToLossIs, Zenon
<1>. HIDE DEF s, u, n, L
<1>. DEFINE T == {k \in Nat : k <= u /\ ~PreOK(f[k], s, L + k)}
<1>6. ASSUME NEW k \in T PROVE \E i \in T : i < k
  <2>1. k # 0
    <3>1. f[0] = Learnt /\ L + 0 = L
      BY <1>3, <1>4
    <3>2. PreOK(Learnt, s, L)
      BY <1>4, PreExtends DEF L
    <3>. QED
      BY <3>1, <3>2, Zenon
  <2>2. /\ k - 1 \in Nat /\ k - 1 < k /\ k - 1 <= u /\ k \in 0 .. n /\ k \in 1 .. n
        /\ L + (k - 1) \in Nat /\ (L + (k - 1)) + 1 = L + k /\ L + (k - 1) < MAX_PACKETS
    BY <2>1, <1>4, <1>5, TsNumbers DEF L, n
  <2>3. ASSUME k - 1 \notin T PROVE FALSE
    <3>1. PreOK(f[k - 1], s, L + (k - 1))
      BY <2>2, <2>3
    <3>2. PreOK(Ts!Learns(f[k - 1], L + k, s[L + k]), s, L + k)
      BY <2>2, <3>1, PreLearns
    <3>3. s[L + k] = piece[k] /\ f[k] = Ts!Learns(f[k - 1], L + k, piece[k])
      BY <1>3, <1>4, <2>1, <2>2, Zenon
    <3>. QED
      BY <3>2, <3>3, Zenon
  <2>. QED
    BY <2>2, <2>3
<1>7. T = {}
  <2>. HIDE DEF T
  <2>1. T \in SUBSET Nat
    BY DEF T
  <2>. QED
    BY <1>6, <2>1, NoLeast
<1>8. PreOK(f[u], s, L + u)
  <2>1. u \in Nat /\ u <= u
    BY <1>5
  <2>. QED
    BY <1>7, <2>1
<1>9. CASE u = n
  BY <1>1, <1>8, <1>9, Zenon DEF s, L, n
<1>10. CASE u # n
  <2>1. u < n /\ u + 1 \in 1 .. n /\ L + u \in Nat /\ L + n \in Nat /\ L + u <= L + n
        /\ L + (u + 1) \in 1 .. L + n
    BY <1>4, <1>5, <1>10
  <2>2. s[L + (u + 1)] = "lost"
    BY <1>4, <1>5, <2>1, Zenon
  <2>3. ~Clear(s, L + n)
    BY <2>1, <2>2, Zenon DEF Clear
  <2>4. PreOK(f[u], s, L + n)
    BY <1>8, <2>1, <2>3, PreSkips
  <2>. QED
    BY <1>1, <2>4, Zenon DEF s, L, n
<1>. QED
  BY <1>9, <1>10
-----------------------------------------------------------------------------
(* TsStreams: the feed of a tile, packet by packet.                        *)

FeedRecord == [pat : Nat, pmt : Nat, video : BOOLEAN, primed : {"no", "key", "raw"},
               held : Seq(Nat), out : Seq(Nat)]

\* After packet m of s the feed holds the latest packets, or what it sends ends with
\* packet m, from its keyframe on or from the first packet it held.
TileOK(f, s, m) ==
  /\ f \in FeedRecord /\ Len(f.held) <= HELD_CAP
  /\ f.primed = "no" /\ Clear(s, m) => EndsAt(f.held, 1, m)
  /\ f.primed = "key" => /\ Len(f.out) >= 3 /\ f.out[3] \in 1 .. m /\ s[f.out[3]] = "key"
                         /\ Clear(s, m) => EndsAt(f.out, 3, m)
  /\ f.primed = "raw" => Len(f.out) >= 1 /\ (Clear(s, m) => EndsAt(f.out, 1, m))

LEMMA HeldShifts ==
  ASSUME NEW q \in Seq(Nat), Len(q) <= HELD_CAP, NEW m \in Nat
  PROVE  LET h == IF Len(q) < HELD_CAP THEN Append(q, m + 1) ELSE Append(Tail(q), m + 1)
         IN  /\ h \in Seq(Nat) /\ Len(h) <= HELD_CAP
             /\ EndsAt(q, 1, m) => EndsAt(h, 1, m + 1)
<1>1. CASE Len(q) < HELD_CAP
  <2>1. /\ Append(q, m + 1) \in Seq(Nat) /\ Len(Append(q, m + 1)) <= HELD_CAP
    BY <1>1, AppendProperties, TsNumbers
  <2>2. EndsAt(q, 1, m) => EndsAt(Append(q, m + 1), 1, m + 1)
    BY EndsAtAppended
  <2>. QED
    BY <1>1, <2>1, <2>2, Zenon
<1>2. CASE ~(Len(q) < HELD_CAP)
  <2>1. q # << >>
    BY <1>2, TsNumbers
  <2>2. Tail(q) \in Seq(Nat) /\ Len(Tail(q)) = Len(q) - 1
    BY <2>1, HeadTailProperties
  <2>3. Append(Tail(q), m + 1) \in Seq(Nat) /\ Len(Append(Tail(q), m + 1)) = Len(q)
    BY <2>2, AppendProperties
  <2>4. EndsAt(q, 1, m) => EndsAt(Append(Tail(q), m + 1), 1, m + 1)
    <3>. SUFFICES ASSUME EndsAt(q, 1, m) PROVE EndsAt(Append(Tail(q), m + 1), 1, m + 1)
      OBVIOUS
    <3>1. EndsAt(Tail(q), 1, m)
      BY <2>1, EndsAtTail
    <3>2. \A p \in Seq(Nat) : EndsAt(p, 1, m) => EndsAt(Append(p, m + 1), 1, m + 1)
      BY EndsAtAppended
    <3>. QED
      BY <2>2, <3>1, <3>2, Zenon
  <2>. QED
    BY <1>2, <2>3, <2>4, Zenon
<1>. QED
  BY <1>1, <1>2, Zenon

LEMMA TileFed ==
  ASSUME NEW s, NEW m \in Nat, NEW f, TileOK(f, s, m), late \in BOOLEAN
  PROVE  TileOK(Ts!Fed(f, m + 1, s[m + 1]), s, m + 1)
<1>. DEFINE i == m + 1
            kind == s[i]
            x == Ts!Fed(f, i, kind)
            g == [f EXCEPT !.pat   = IF kind = "pat" THEN i ELSE @,
                           !.pmt   = IF kind = "pmt" /\ f.pat # 0 THEN i ELSE @,
                           !.video = @ \/ (kind = "pmt" /\ f.pat # 0)]
<1>f. /\ f \in FeedRecord /\ Len(f.held) <= HELD_CAP
      /\ f.primed = "no" /\ Clear(s, m) => EndsAt(f.held, 1, m)
      /\ f.primed = "key" => /\ Len(f.out) >= 3 /\ f.out[3] \in 1 .. m /\ s[f.out[3]] = "key"
                             /\ Clear(s, m) => EndsAt(f.out, 3, m)
      /\ f.primed = "raw" => Len(f.out) >= 1 /\ (Clear(s, m) => EndsAt(f.out, 1, m))
  BY Zenon DEF TileOK
<1>r. f.primed \in {"no", "key", "raw"} /\ f.held \in Seq(Nat) /\ f.out \in Seq(Nat)
      /\ f.pat \in Nat /\ f.pmt \in Nat /\ f.video \in BOOLEAN
  BY <1>f, Zenon DEF FeedRecord
<1>c. (Clear(s, m + 1) => Clear(s, m)) /\ (kind = "lost" => ~Clear(s, m + 1))
  BY DEF Clear
<1>i. i \in Nat /\ i \in 1 .. m + 1
  OBVIOUS
<1>. HIDE DEF kind
<1>g. /\ g \in FeedRecord /\ g.primed = f.primed /\ g.held = f.held /\ g.out = f.out
      /\ g.pat \in Nat /\ g.pmt \in Nat
  <2>1. g.primed = f.primed /\ g.held = f.held /\ g.out = f.out
    BY <1>f, Zenon DEF FeedRecord
  <2>2. g \in FeedRecord
    BY <1>f, <1>r, <1>i, Zenon DEF FeedRecord
  <2>. QED
    BY <2>1, <2>2, Zenon DEF FeedRecord
<1>x. x = IF kind = "lost" THEN f
          ELSE IF g.primed # "no" THEN [g EXCEPT !.out = Append(@, i)]
          ELSE IF kind = "key" /\ g.video THEN Ts!Primes(g, i)
          ELSE IF late THEN [g EXCEPT !.primed = "raw", !.held = << >>, !.out = Append(g.held, i)]
          ELSE Ts!Holds(g, i)
  BY Zenon DEF Ts!Fed
<1>. HIDE DEF x, g
<1>1. CASE kind = "lost"
  <2>1. x = f /\ ~Clear(s, m + 1)
    BY <1>1, <1>x, <1>c, Zenon
  <2>2. f.primed = "key" => f.out[3] \in 1 .. m + 1
    BY <1>f
  <2>. QED
    BY <2>1, <2>2, <1>f, Zenon DEF TileOK, x, kind
<1>2. CASE kind # "lost" /\ f.primed # "no"
  <2>1. x = [g EXCEPT !.out = Append(g.out, i)]
    BY <1>2, <1>x, <1>g, Zenon
  <2>. DEFINE o == Append(f.out, i)
  <2>2. /\ o \in Seq(Nat) /\ Len(o) = Len(f.out) + 1
        /\ \A j \in 1 .. Len(f.out) : o[j] = f.out[j]
    BY <1>r, <1>i, AppendProperties
  <2>3. (EndsAt(f.out, 3, m) => EndsAt(o, 3, m + 1)) /\ (EndsAt(f.out, 1, m) => EndsAt(o, 1, m + 1))
    BY <1>r, EndsAtAppended
  <2>. HIDE DEF o, i
  <2>4. x \in FeedRecord /\ x.primed = f.primed /\ x.held = f.held /\ x.out = o
    <3>1. x.primed = g.primed /\ x.held = g.held /\ x.out = o
      BY <1>g, <2>1, Zenon DEF FeedRecord, o
    <3>2. x \in FeedRecord
      BY <1>g, <2>1, <2>2, Zenon DEF FeedRecord, o
    <3>. QED
      BY <1>g, <3>1, <3>2, Zenon
  <2>5. f.primed = "key" => Len(o) >= 3 /\ o[3] = f.out[3] /\ o[3] \in 1 .. m + 1
    <3>. SUFFICES ASSUME f.primed = "key"
                  PROVE  Len(o) >= 3 /\ o[3] = f.out[3] /\ o[3] \in 1 .. m + 1
      OBVIOUS
    <3>1. Len(f.out) >= 3 /\ f.out[3] \in 1 .. m
      BY <1>f, Zenon
    <3>2. 3 \in 1 .. Len(f.out)
      BY <1>r, <3>1
    <3>3. o[3] = f.out[3]
      BY <2>2, <3>2, Zenon
    <3>4. Len(o) = Len(f.out) + 1 /\ Len(f.out) \in Nat
      BY <1>r, <2>2
    <3>. QED
      BY <3>1, <3>3, <3>4, SMT
  <2>6. f.primed = "raw" => Len(o) >= 1
    BY <1>r, <2>2
  <2>. QED
    BY <1>2, <1>f, <1>c, <2>3, <2>4, <2>5, <2>6, Zenon DEF TileOK, x, kind, i
<1>3. CASE f.primed = "no" /\ kind = "key" /\ g.video
  <2>. DEFINE o == <<g.pat, g.pmt, i>>
  <2>1. x = [g EXCEPT !.primed = "key", !.held = << >>, !.out = o]
    BY <1>3, <1>x, <1>g, Zenon DEF Ts!Primes
  <2>2. o \in Seq(Nat) /\ Len(o) = 3 /\ o[3] = i
    BY <1>g, <1>i
  <2>3. EndsAt(o, 3, m + 1)
    BY <2>2 DEF EndsAt
  <2>. HIDE DEF o
  <2>4. x \in FeedRecord /\ x.primed = "key" /\ x.held = << >> /\ x.out = o
    <3>1. x.primed = "key" /\ x.held = << >> /\ x.out = o
      BY <1>g, <2>1, Zenon DEF FeedRecord
    <3>2. << >> \in Seq(Nat)
      BY EmptySeq
    <3>3. x \in FeedRecord
      BY <1>g, <2>1, <2>2, <3>2, Zenon DEF FeedRecord
    <3>. QED
      BY <3>1, <3>3, Zenon
  <2>5. Len(<< >>) <= HELD_CAP /\ Len(o) >= 3
    BY <2>2, TsNumbers
  <2>. QED
    BY <1>3, <1>i, <2>2, <2>3, <2>4, <2>5, Zenon DEF TileOK, x, kind, i
<1>4. CASE f.primed = "no" /\ kind # "lost" /\ ~(kind = "key" /\ g.video) /\ late
  <2>. DEFINE o == Append(f.held, i)
  <2>1. x = [g EXCEPT !.primed = "raw", !.held = << >>, !.out = o]
    BY <1>4, <1>x, <1>g, Zenon
  <2>2. o \in Seq(Nat) /\ Len(o) = Len(f.held) + 1
    BY <1>r, <1>i, AppendProperties
  <2>3. EndsAt(f.held, 1, m) => EndsAt(o, 1, m + 1)
    BY <1>r, EndsAtAppended
  <2>. HIDE DEF o
  <2>4. x \in FeedRecord /\ x.primed = "raw" /\ x.held = << >> /\ x.out = o
    <3>1. x.primed = "raw" /\ x.held = << >> /\ x.out = o
      BY <1>g, <2>1, Zenon DEF FeedRecord
    <3>2. << >> \in Seq(Nat)
      BY EmptySeq
    <3>3. x \in FeedRecord
      BY <1>g, <2>1, <2>2, <3>2, Zenon DEF FeedRecord
    <3>. QED
      BY <3>1, <3>3, Zenon
  <2>5. Len(<< >>) <= HELD_CAP /\ Len(o) >= 1
    BY <1>r, <2>2, TsNumbers
  <2>. QED
    BY <1>4, <1>c, <1>f, <2>3, <2>4, <2>5, Zenon DEF TileOK, x, kind, i
<1>5. CASE f.primed = "no" /\ kind # "lost" /\ ~(kind = "key" /\ g.video) /\ ~late
  <2>. DEFINE h == IF Len(f.held) < HELD_CAP THEN Append(f.held, i) ELSE Append(Tail(f.held), i)
  <2>1. x = [g EXCEPT !.held = h]
    BY <1>5, <1>x, <1>g, Zenon DEF Ts!Holds
  <2>2. /\ h \in Seq(Nat) /\ Len(h) <= HELD_CAP
        /\ EndsAt(f.held, 1, m) => EndsAt(h, 1, m + 1)
    BY <1>r, <1>f, HeldShifts
  <2>. HIDE DEF h
  <2>3. x \in FeedRecord /\ x.primed = "no" /\ x.held = h
    <3>1. x.primed = g.primed /\ x.held = h
      BY <1>g, <2>1, Zenon DEF FeedRecord
    <3>2. x \in FeedRecord
      BY <1>g, <2>1, <2>2, Zenon DEF FeedRecord
    <3>. QED
      BY <1>5, <1>g, <3>1, <3>2, Zenon
  <2>. QED
    BY <1>5, <1>c, <1>f, <2>2, <2>3, Zenon DEF TileOK, x, kind, i
<1>. QED
  BY <1>1, <1>2, <1>3, <1>4, <1>5, <1>r, Zenon DEF x, kind, i

LEMMA TileExtends ==
  ASSUME NEW s, NEW t, NEW m \in Nat, \A k \in 1 .. m : s[k] = t[k], NEW f, TileOK(f, t, m)
  PROVE  TileOK(f, s, m)
<1>1. Clear(s, m) => Clear(t, m)
  BY DEF Clear
<1>. QED
  BY <1>1, Zenon DEF TileOK
-----------------------------------------------------------------------------
(* TsStreams: a chunk through the feed of a tile, and the invariant.       *)

\* What it means to be the feed after each packet of a chunk.
Feeds(f, piece, m) ==
  f = [k \in 0 .. m |-> IF k = 0 THEN feed
                        ELSE Ts!Fed(f[k - 1], Len(stream) + k, piece[k])]

LEMMA FeedsExists ==
  ASSUME NEW piece, NEW n \in Nat
  PROVE  \E f : Feeds(f, piece, n)
<1>. DEFINE T == {m \in Nat : ~ \E f : Feeds(f, piece, m)}
<1>1. ASSUME NEW m \in T PROVE \E i \in T : i < m
  <2>1. m # 0
    <3>. DEFINE f0 == [k \in 0 .. 0 |-> feed]
    <3>1. Feeds(f0, piece, 0)
      BY DEF Feeds
    <3>. QED
      BY <3>1
  <2>2. m - 1 \in Nat /\ m - 1 < m
    BY <2>1
  <2>3. ASSUME m - 1 \notin T PROVE FALSE
    <3>. PICK f : Feeds(f, piece, m - 1)
      BY <2>2, <2>3
    <3>1. \A k \in 0 .. m - 1 :
             f[k] = IF k = 0 THEN feed ELSE Ts!Fed(f[k - 1], Len(stream) + k, piece[k])
      BY Zenon DEF Feeds
    <3>. DEFINE last == Ts!Fed(f[m - 1], Len(stream) + m, piece[m])
                h == [k \in 0 .. m |-> IF k = m THEN last ELSE f[k]]
    <3>2. ASSUME NEW k \in 0 .. m
          PROVE  h[k] = IF k = 0 THEN feed
                        ELSE Ts!Fed(h[k - 1], Len(stream) + k, piece[k])
      <4>1. CASE k = m
        <5>1. h[k] = last /\ k # 0
          BY <4>1, <2>1
        <5>2. k - 1 \in 0 .. m /\ k - 1 # m /\ k - 1 = m - 1
          BY <4>1, <2>2
        <5>3. h[k - 1] = f[m - 1]
          BY <5>2, Zenon
        <5>. QED
          BY <4>1, <5>1, <5>3, Zenon
      <4>2. CASE k # m
        <5>1. k \in 0 .. m - 1 /\ h[k] = f[k]
          BY <4>2, <2>2
        <5>2. CASE k = 0
          BY <5>1, <5>2, <3>1, Zenon
        <5>3. CASE k # 0
          <6>1. k - 1 \in 0 .. m /\ k - 1 # m
            BY <4>2, <5>3
          <6>2. h[k - 1] = f[k - 1]
            BY <6>1, Zenon
          <6>. QED
            BY <5>1, <5>3, <6>2, <3>1, Zenon
        <5>. QED
          BY <5>2, <5>3
      <4>. QED
        BY <4>1, <4>2
    <3>3. Feeds(h, piece, m)
      <4>1. h = [k \in 0 .. m |-> h[k]]
        BY Zenon
      <4>. HIDE DEF h
      <4>. QED
        BY <4>1, <3>2 DEF Feeds
    <3>. QED
      BY <3>3
  <2>. QED
    BY <2>2, <2>3
<1>2. T = {}
  <2>. HIDE DEF T
  <2>1. T \in SUBSET Nat
    BY DEF T
  <2>. QED
    BY <1>1, <2>1, NoLeast
<1>. QED
  BY <1>2

LEMMA TileKnows ==
  ASSUME NEW piece \in Seq(Ts!Kinds), stream \in Seq(Ts!Kinds), late \in BOOLEAN,
         TileOK(feed, stream, Len(stream))
  PROVE  TileOK(Ts!FedAll(piece), stream \o piece, Len(stream) + Len(piece))
<1>. DEFINE s == stream \o piece
            L == Len(stream)
            n == Len(piece)
            f == CHOOSE g : Feeds(g, piece, n)
<1>1. Ts!FedAll(piece) = f[n]
  BY Zenon DEF Ts!FedAll, Feeds
<1>2. Feeds(f, piece, n)
  <2>1. n \in Nat
    OBVIOUS
  <2>. QED
    BY <2>1, FeedsExists, Zenon
<1>. HIDE DEF f
<1>3. \A k \in 0 .. n : f[k] = IF k = 0 THEN feed ELSE Ts!Fed(f[k - 1], L + k, piece[k])
  BY <1>2, Zenon DEF Feeds
<1>4. /\ L \in Nat /\ n \in Nat /\ \A i \in 1 .. L : s[i] = stream[i]
      /\ \A k \in 1 .. n : s[L + k] = piece[k]
  BY Lengthened
<1>. HIDE DEF s, n, L
<1>. DEFINE T == {k \in Nat : k <= n /\ ~TileOK(f[k], s, L + k)}
<1>5. ASSUME NEW k \in T PROVE \E i \in T : i < k
  <2>1. k # 0
    <3>1. f[0] = feed /\ L + 0 = L
      BY <1>3, <1>4
    <3>2. TileOK(feed, s, L)
      BY <1>4, TileExtends DEF L
    <3>. QED
      BY <3>1, <3>2, Zenon
  <2>2. /\ k - 1 \in Nat /\ k - 1 < k /\ k - 1 <= n /\ k \in 0 .. n /\ k \in 1 .. n
        /\ L + (k - 1) \in Nat /\ (L + (k - 1)) + 1 = L + k
    BY <2>1, <1>4
  <2>3. ASSUME k - 1 \notin T PROVE FALSE
    <3>1. TileOK(f[k - 1], s, L + (k - 1))
      BY <2>2, <2>3
    <3>2. TileOK(Ts!Fed(f[k - 1], L + k, s[L + k]), s, L + k)
      BY <2>2, <3>1, TileFed
    <3>3. s[L + k] = piece[k] /\ f[k] = Ts!Fed(f[k - 1], L + k, piece[k])
      BY <1>3, <1>4, <2>1, <2>2, Zenon
    <3>. QED
      BY <3>2, <3>3, Zenon
  <2>. QED
    BY <2>2, <2>3
<1>6. T = {}
  <2>. HIDE DEF T
  <2>1. T \in SUBSET Nat
    BY DEF T
  <2>. QED
    BY <1>5, <2>1, NoLeast
<1>7. TileOK(f[n], s, L + n)
  BY <1>4, <1>6
<1>. QED
  BY <1>1, <1>7, Zenon DEF s, L, n

\* A viewer has its tables and keyframe, and from the keyframe on every packet.
JoinedOK ==
  /\ joined \in Seq(Nat)
  /\ joined # << >> =>
       /\ Len(joined) >= 3 /\ \A j \in 1 .. 3 : joined[j] \in 1 .. Len(stream)
       /\ stream[joined[1]] = "pat" /\ stream[joined[2]] = "pmt" /\ stream[joined[3]] = "key"
       /\ Clear(stream, Len(stream)) /\ MAX_PACKETS <= GOP_CAP
            => EndsAt(joined, 3, Len(stream))

TsInv == /\ stream \in Seq(Ts!Kinds) /\ Len(stream) <= MAX_PACKETS /\ late \in BOOLEAN
         /\ PreOK(Learnt, stream, Len(stream))
         /\ TileOK(feed, stream, Len(stream))
         /\ JoinedOK

LEMMA TsInit == Ts!Init => TsInv
<1>. SUFFICES ASSUME Ts!Init PROVE TsInv
  OBVIOUS
<1>0. /\ stream = << >> /\ pat = 0 /\ pmt = 0 /\ video = FALSE /\ gop = << >>
      /\ feed = Ts!NoFeed /\ late = FALSE /\ joined = << >>
  BY Zenon DEF Ts!Init
<1>1. /\ << >> \in Seq(Ts!Kinds) /\ << >> \in Seq(Nat) /\ Len(<< >>) = 0
      /\ 0 <= MAX_PACKETS /\ 0 <= GOP_CAP /\ 0 <= HELD_CAP /\ 0 \in 0 .. 0
  BY TsNumbers
<1>2. /\ \A m : EndsAt(<< >>, 1, m)
      /\ \A j \in 1 .. 0 : FALSE
  BY DEF EndsAt
<1>3. GopOK(<< >>, << >>, 0)
  BY <1>1, <1>2, Zenon DEF GopOK
<1>4. PreOK(Learnt, << >>, 0)
  BY <1>0, <1>1, <1>3, Zenon DEF PreOK, Learnt
<1>5. TileOK(feed, << >>, 0)
  <2>1. /\ feed.primed = "no" /\ feed.held = << >> /\ feed \in FeedRecord
    BY <1>0, <1>1 DEF Ts!NoFeed, FeedRecord
  <2>2. feed.primed # "key" /\ feed.primed # "raw"
    BY <2>1
  <2>. QED
    BY <1>1, <1>2, <2>1, <2>2, Zenon DEF TileOK
<1>6. JoinedOK
  BY <1>0, <1>1, Zenon DEF JoinedOK
<1>. QED
  BY <1>0, <1>1, <1>4, <1>5, <1>6, Zenon DEF TsInv

LEMMA TsRests == TsInv /\ UNCHANGED tsVars => TsInv'
<1>. SUFFICES ASSUME TsInv, UNCHANGED tsVars PROVE TsInv'
  OBVIOUS
<1>1. /\ stream' = stream /\ pat' = pat /\ pmt' = pmt /\ video' = video /\ gop' = gop
      /\ feed' = feed /\ late' = late /\ joined' = joined
  BY DEF tsVars
<1>2. Learnt' = Learnt
  BY <1>1, Zenon DEF Learnt
<1>3. PreOK(Learnt, stream, Len(stream))'
  BY <1>1, <1>2, Zenon DEF TsInv, PreOK, GopOK, Clear, EndsAt
<1>4. TileOK(feed, stream, Len(stream))'
  BY <1>1, Zenon DEF TsInv, TileOK, Clear, EndsAt
<1>5. JoinedOK'
  BY <1>1, Zenon DEF TsInv, JoinedOK, Clear, EndsAt
<1>. QED
  BY <1>1, <1>3, <1>4, <1>5, Zenon DEF TsInv
LEMMA JoinedGrows ==
  ASSUME TsInv, joined # << >>, NEW n \in Nat \ {0},
         NEW s \in Seq(Ts!Kinds), Len(s) = Len(stream) + n,
         \A i \in 1 .. Len(stream) : s[i] = stream[i]
  PROVE  LET q == joined \o [k \in 1 .. n |-> Len(stream) + k]
         IN  /\ q \in Seq(Nat) /\ Len(q) >= 3
             /\ \A j \in 1 .. 3 : q[j] \in 1 .. Len(s)
             /\ s[q[1]] = "pat" /\ s[q[2]] = "pmt" /\ s[q[3]] = "key"
             /\ Clear(s, Len(s)) /\ MAX_PACKETS <= GOP_CAP => EndsAt(q, 3, Len(s))
<1>. DEFINE L == Len(stream)
            tail == [k \in 1 .. n |-> L + k]
            q == joined \o tail
<1>1. L \in Nat /\ stream \in Seq(Ts!Kinds)
  BY DEF TsInv
<1>2. /\ joined \in Seq(Nat) /\ Len(joined) >= 3 /\ \A j \in 1 .. 3 : joined[j] \in 1 .. L
      /\ stream[joined[1]] = "pat" /\ stream[joined[2]] = "pmt" /\ stream[joined[3]] = "key"
      /\ Clear(stream, L) /\ MAX_PACKETS <= GOP_CAP => EndsAt(joined, 3, L)
  BY Zenon DEF TsInv, JoinedOK
<1>. HIDE DEF L
<1>3. tail \in Seq(Nat) /\ Len(tail) = n /\ \A k \in 1 .. n : tail[k] = L + k
  BY <1>1
<1>. HIDE DEF tail
<1>4. /\ q \in Seq(Nat) /\ Len(q) = Len(joined) + n
      /\ \A i \in 1 .. Len(joined) + n :
           q[i] = IF i <= Len(joined) THEN joined[i] ELSE tail[i - Len(joined)]
  BY <1>2, <1>3, ConcatProperties
<1>. HIDE DEF q
<1>5. ASSUME NEW j \in 1 .. 3
      PROVE  q[j] = joined[j] /\ joined[j] \in 1 .. L /\ q[j] \in 1 .. Len(s)
  <2>1. j <= Len(joined) /\ j \in 1 .. Len(joined) + n
    BY <1>2
  <2>2. q[j] = joined[j] /\ joined[j] \in 1 .. L
    BY <1>2, <1>4, <2>1, Zenon
  <2>. QED
    BY <1>1, <2>2 DEF L
<1>6. s[q[1]] = "pat" /\ s[q[2]] = "pmt" /\ s[q[3]] = "key"
  <2>1. 1 \in 1 .. 3 /\ 2 \in 1 .. 3 /\ 3 \in 1 .. 3
    OBVIOUS
  <2>. QED
    BY <1>2, <1>5, <2>1, Zenon DEF L
<1>7. ASSUME Clear(s, Len(s)), MAX_PACKETS <= GOP_CAP PROVE EndsAt(q, 3, Len(s))
  <2>1. Clear(stream, L)
    <3>1. \A i \in 1 .. L : i \in 1 .. Len(s)
      BY <1>1 DEF L
    <3>. QED
      BY <1>7, <3>1, Zenon DEF Clear, L
  <2>2. EndsAt(joined, 3, L)
    BY <1>2, <1>7, <2>1, Zenon
  <2>3. ASSUME NEW j \in 3 .. Len(q) PROVE q[j] = Len(s) - Len(q) + j
    <3>1. CASE j <= Len(joined)
      <4>1. j \in 3 .. Len(joined) /\ j \in 1 .. Len(joined) + n
        BY <1>2, <3>1
      <4>2. q[j] = joined[j] /\ joined[j] = L - Len(joined) + j
        BY <1>4, <2>2, <3>1, <4>1, Zenon DEF EndsAt
      <4>. QED
        BY <1>1, <1>2, <1>4, <4>2 DEF L
    <3>2. CASE ~(j <= Len(joined))
      <4>1. j - Len(joined) \in 1 .. n
        BY <1>2, <1>4, <3>2
      <4>2. q[j] = L + (j - Len(joined))
        BY <1>2, <1>3, <1>4, <3>2, <4>1
      <4>. QED
        BY <1>1, <1>2, <1>4, <4>2 DEF L
    <3>. QED
      BY <3>1, <3>2
  <2>. QED
    BY <2>3 DEF EndsAt
<1>8. Len(q) >= 3
  BY <1>2, <1>4
<1>. QED
  BY <1>4, <1>5, <1>6, <1>7, <1>8, Zenon DEF q, tail, L

LEMMA TsStep == TsInv /\ Ts!Next => TsInv'
<1>. SUFFICES ASSUME TsInv, Ts!Next PROVE TsInv'
  OBVIOUS
<1>t. /\ stream \in Seq(Ts!Kinds) /\ Len(stream) <= MAX_PACKETS /\ late \in BOOLEAN
      /\ PreOK(Learnt, stream, Len(stream)) /\ TileOK(feed, stream, Len(stream)) /\ JoinedOK
  BY Zenon DEF TsInv
<1>1. CASE Ts!Chunk
  <2>. DEFINE Brings(n, piece) ==
         /\ Len(stream) + n <= MAX_PACKETS
         /\ stream' = stream \o piece
         /\ LET r == Ts!Prerolled(piece)
            IN  pat' = r.pat /\ pmt' = r.pmt /\ video' = r.video /\ gop' = r.gop
         /\ feed' = Ts!FedAll(piece)
         /\ joined' = IF joined = << >> THEN joined
                      ELSE joined \o [k \in 1 .. n |-> Len(stream) + k]
         /\ late' = late
  <2>0. \E n \in 1 .. MAX_CHUNK : \E piece \in [1 .. n -> Ts!Kinds] : Brings(n, piece)
    BY <1>1, Zenon DEF Ts!Chunk
  <2>. PICK n \in 1 .. MAX_CHUNK : \E piece \in [1 .. n -> Ts!Kinds] : Brings(n, piece)
    BY <2>0, Zenon
  <2>. PICK piece \in [1 .. n -> Ts!Kinds] : Brings(n, piece)
    BY Zenon
  <2>1. n \in Nat \ {0} /\ piece \in Seq(Ts!Kinds) /\ Len(piece) = n
    BY TsNumbers
  <2>2. /\ stream' \in Seq(Ts!Kinds) /\ Len(stream') = Len(stream) + n
        /\ \A i \in 1 .. Len(stream) : stream'[i] = stream[i]
    BY <1>t, <2>1, Lengthened
  <2>3. PreOK(Ts!Prerolled(piece), stream', Len(stream'))
    BY <1>t, <2>1, <2>2, PrerollKnows
  <2>4. PreOK(Learnt', stream', Len(stream'))
    <3>1. /\ Learnt'.pat = Ts!Prerolled(piece).pat /\ Learnt'.pmt = Ts!Prerolled(piece).pmt
          /\ Learnt'.video = Ts!Prerolled(piece).video /\ Learnt'.gop = Ts!Prerolled(piece).gop
      BY Zenon DEF Learnt
    <3>. QED
      BY <2>3, <3>1, Zenon DEF PreOK
  <2>5. TileOK(feed', stream', Len(stream'))
    BY <1>t, <2>1, <2>2, TileKnows
  <2>6. JoinedOK'
    <3>1. CASE joined = << >>
      BY <1>t, <3>1, Zenon DEF JoinedOK
    <3>2. CASE joined # << >>
      <4>1. joined' = joined \o [k \in 1 .. n |-> Len(stream) + k]
        BY <3>2, Zenon
      <4>. DEFINE s == stream'
                  q == joined \o [k \in 1 .. n |-> Len(stream) + k]
      <4>2. /\ s \in Seq(Ts!Kinds) /\ Len(s) = Len(stream) + n
            /\ \A i \in 1 .. Len(stream) : s[i] = stream[i]
        BY <2>2, Zenon
      <4>. HIDE DEF s
      <4>3. /\ q \in Seq(Nat) /\ Len(q) >= 3
            /\ \A j \in 1 .. 3 : q[j] \in 1 .. Len(s)
            /\ s[q[1]] = "pat" /\ s[q[2]] = "pmt" /\ s[q[3]] = "key"
            /\ Clear(s, Len(s)) /\ MAX_PACKETS <= GOP_CAP => EndsAt(q, 3, Len(s))
        BY <3>2, <2>1, <4>2, JoinedGrows
      <4>4. joined' = q
        BY <4>1
      <4>. HIDE DEF q
      <4>. QED
        BY <4>3, <4>4, Zenon DEF JoinedOK, s
    <3>. QED
      BY <3>1, <3>2
  <2>7. Len(stream') <= MAX_PACKETS
    BY <2>2, Zenon
  <2>. QED
    BY <1>t, <2>2, <2>4, <2>5, <2>6, <2>7, Zenon DEF TsInv
<1>2. CASE Ts!Joins
  <2>1. /\ stream' = stream /\ pat' = pat /\ pmt' = pmt /\ video' = video /\ gop' = gop
        /\ feed' = feed /\ late' = late
        /\ gop # << >> /\ pat # 0 /\ pmt # 0 /\ joined' = <<pat, pmt>> \o gop
    BY <1>2, <1>t DEF Ts!Joins, Ts!Preroll
  <2>2. PreOK(Learnt', stream', Len(stream')) /\ TileOK(feed', stream', Len(stream'))
    BY <1>t, <2>1, Zenon DEF Learnt
  <2>3. JoinedOK'
    <3>. DEFINE q == <<pat, pmt>> \o gop
    <3>1. /\ pat \in 0 .. Len(stream) /\ pmt \in 0 .. Len(stream)
          /\ pat # 0 => stream[pat] = "pat"
          /\ pmt # 0 => stream[pmt] = "pmt"
          /\ GopOK(gop, stream, Len(stream))
      BY <1>t, Zenon DEF PreOK, Learnt
    <3>2. /\ gop \in Seq(Nat) /\ Len(gop) \in Nat /\ Len(gop) >= 1 /\ gop[1] \in 1 .. Len(stream)
          /\ stream[gop[1]] = "key"
      <4>1. gop \in Seq(Nat) /\ \A j \in 1 .. Len(gop) : gop[j] \in 1 .. Len(stream)
        BY <3>1, Zenon DEF GopOK
      <4>2. Len(gop) \in Nat /\ Len(gop) >= 1 /\ 1 \in 1 .. Len(gop)
        BY <2>1, <4>1, EmptySeq
      <4>. QED
        BY <2>1, <3>1, <4>1, <4>2, Zenon DEF GopOK
    <3>3. <<pat, pmt>> \in Seq(Nat) /\ Len(<<pat, pmt>>) = 2
      BY <3>1
    <3>4. /\ q \in Seq(Nat) /\ Len(q) = 2 + Len(gop)
          /\ q[1] = pat /\ q[2] = pmt
          /\ \A j \in 3 .. Len(q) : q[j] = gop[j - 2]
      <4>1. /\ q \in Seq(Nat) /\ Len(q) = 2 + Len(gop)
            /\ \A i \in 1 .. 2 + Len(gop) :
                 q[i] = IF i <= 2 THEN <<pat, pmt>>[i] ELSE gop[i - 2]
        BY <3>2, <3>3, ConcatProperties
      <4>. HIDE DEF q
      <4>. QED
        BY <3>2, <4>1
    <3>. HIDE DEF q
    <3>5. Len(q) >= 3 /\ q[3] = gop[1]
      BY <3>2, <3>4
    <3>6. \A j \in 1 .. 3 : q[j] \in 1 .. Len(stream)
      <4>1. q[1] \in 1 .. Len(stream) /\ q[2] \in 1 .. Len(stream) /\ q[3] \in 1 .. Len(stream)
        BY <1>t, <2>1, <3>1, <3>2, <3>4, <3>5
      <4>2. \A j \in 1 .. 3 : j = 1 \/ j = 2 \/ j = 3
        OBVIOUS
      <4>. QED
        BY <4>1, <4>2, Zenon
    <3>7. ASSUME Clear(stream, Len(stream)), MAX_PACKETS <= GOP_CAP
          PROVE  EndsAt(q, 3, Len(stream))
      <4>1. EndsAt(gop, 1, Len(stream))
        BY <3>1, <3>7, Zenon DEF GopOK
      <4>2. ASSUME NEW j \in 3 .. Len(q) PROVE q[j] = Len(stream) - Len(q) + j
        <5>1. j - 2 \in 1 .. Len(gop) /\ q[j] = gop[j - 2]
          BY <3>2, <3>4
        <5>2. gop[j - 2] = Len(stream) - Len(gop) + (j - 2)
          BY <4>1, <5>1, Zenon DEF EndsAt
        <5>. QED
          BY <1>t, <3>2, <3>4, <5>1, <5>2
      <4>. QED
        BY <4>2 DEF EndsAt
    <3>. QED
      BY <2>1, <3>1, <3>2, <3>4, <3>5, <3>6, <3>7, Zenon DEF JoinedOK, q
  <2>. QED
    BY <1>t, <2>1, <2>2, <2>3, Zenon DEF TsInv
<1>3. CASE Ts!PrimeTimesOut
  <2>1. /\ stream' = stream /\ pat' = pat /\ pmt' = pmt /\ video' = video /\ gop' = gop
        /\ feed' = feed /\ joined' = joined /\ late' = TRUE
    BY <1>3, Zenon DEF Ts!PrimeTimesOut
  <2>2. PreOK(Learnt', stream', Len(stream')) /\ TileOK(feed', stream', Len(stream'))
    BY <1>t, <2>1, Zenon DEF Learnt
  <2>3. JoinedOK'
    BY <1>t, <2>1, Zenon DEF JoinedOK
  <2>. QED
    BY <1>t, <2>1, <2>2, <2>3, Zenon DEF TsInv
<1>. QED
  BY <1>1, <1>2, <1>3, Zenon DEF Ts!Next

LEMMA EndsConsecutive ==
  ASSUME NEW q \in Seq(Nat), NEW start \in {1, 3}, NEW m \in Nat, EndsAt(q, start, m),
         Len(q) >= start
  PROVE  Ts!Consecutive(SubSeq(q, start, Len(q))) /\ q[Len(q)] = m
<1>. DEFINE p == SubSeq(q, start, Len(q))
<1>1. /\ Len(p) = Len(q) - start + 1
      /\ \A i \in 1 .. Len(q) - start + 1 : p[i] = q[start + i - 1]
  OBVIOUS
<1>. HIDE DEF p
<1>2. \A j \in start .. Len(q) : q[j] = m - Len(q) + j
  BY DEF EndsAt
<1>3. ASSUME NEW k \in 1 .. Len(p) - 1 PROVE p[k + 1] = p[k] + 1
  <2>0. Len(q) \in Nat /\ start \in Nat /\ k \in Nat /\ 1 <= k /\ k <= Len(q) - start
    BY <1>1, <1>3, SMT
  <2>1. /\ k \in 1 .. Len(q) - start + 1 /\ k + 1 \in 1 .. Len(q) - start + 1
        /\ start + k - 1 \in start .. Len(q) /\ start + (k + 1) - 1 \in start .. Len(q)
    BY <2>0, SMT
  <2>2. p[k] = m - Len(q) + (start + k - 1) /\ p[k + 1] = m - Len(q) + (start + (k + 1) - 1)
    BY <1>1, <1>2, <2>1, Zenon
  <2>. QED
    BY <2>2
<1>4. q[Len(q)] = m
  BY <1>2
<1>. QED
  BY <1>3, <1>4 DEF Ts!Consecutive, p

LEMMA TsIsSound == TsInv => Ts!TypeOK /\ Ts!JoinedIsGapless /\ Ts!FeedIsGapless
<1>. SUFFICES ASSUME TsInv PROVE Ts!TypeOK /\ Ts!JoinedIsGapless /\ Ts!FeedIsGapless
  OBVIOUS
<1>t. /\ stream \in Seq(Ts!Kinds) /\ Len(stream) <= MAX_PACKETS /\ late \in BOOLEAN
      /\ PreOK(Learnt, stream, Len(stream)) /\ TileOK(feed, stream, Len(stream)) /\ JoinedOK
  BY Zenon DEF TsInv
<1>c. Ts!Whole => Clear(stream, Len(stream))
  BY <1>t DEF Ts!Whole, Clear, Ts!Range
<1>1. Ts!TypeOK
  <2>1. Ts!Range(stream) \subseteq Ts!Kinds
    BY <1>t DEF Ts!Range
  <2>2. pat \in Ts!Count /\ pmt \in Ts!Count
    <3>1. pat \in 0 .. Len(stream) /\ pmt \in 0 .. Len(stream)
      BY <1>t, Zenon DEF PreOK, Learnt
    <3>. QED
      BY <1>t, <3>1, TsNumbers DEF Ts!Count
  <2>3. video \in BOOLEAN /\ GopOK(gop, stream, Len(stream))
    BY <1>t, Zenon DEF PreOK, Learnt
  <2>4. Ts!Range(gop) \subseteq Ts!Count /\ Len(gop) <= GOP_CAP
    <3>1. gop \in Seq(Nat) /\ Len(gop) <= GOP_CAP /\ \A j \in 1 .. Len(gop) : gop[j] \in 1 .. Len(stream)
      BY <2>3, Zenon DEF GopOK
    <3>2. \A j \in 1 .. Len(gop) : gop[j] \in Ts!Count
      BY <1>t, <3>1, TsNumbers DEF Ts!Count
    <3>. QED
      BY <3>1, <3>2 DEF Ts!Range
  <2>5. feed.primed \in {"no", "key", "raw"} /\ Len(feed.held) <= HELD_CAP
    BY <1>t, Zenon DEF TileOK, FeedRecord
  <2>. QED
    BY <1>t, <2>1, <2>2, <2>3, <2>4, <2>5, Zenon DEF Ts!TypeOK
<1>2. Ts!JoinedIsGapless
  <2>. SUFFICES ASSUME joined # << >>
                PROVE  /\ stream[joined[1]] = "pat" /\ stream[joined[2]] = "pmt"
                       /\ stream[joined[3]] = "key"
                       /\ Ts!Whole /\ MAX_PACKETS <= GOP_CAP
                            => Ts!Consecutive(SubSeq(joined, 3, Len(joined)))
    BY Zenon DEF Ts!JoinedIsGapless
  <2>1. /\ joined \in Seq(Nat) /\ Len(joined) >= 3
        /\ stream[joined[1]] = "pat" /\ stream[joined[2]] = "pmt" /\ stream[joined[3]] = "key"
        /\ Clear(stream, Len(stream)) /\ MAX_PACKETS <= GOP_CAP => EndsAt(joined, 3, Len(stream))
    BY <1>t, Zenon DEF JoinedOK
  <2>2. ASSUME EndsAt(joined, 3, Len(stream))
        PROVE  Ts!Consecutive(SubSeq(joined, 3, Len(joined)))
    <3>1. Len(stream) \in Nat
      BY <1>t
    <3>. QED
      BY <2>1, <2>2, <3>1, EndsConsecutive
  <2>. QED
    BY <1>c, <2>1, <2>2, Zenon
<1>3. Ts!FeedIsGapless
  <2>1. /\ feed.out \in Seq(Nat)
        /\ feed.primed = "key" => /\ Len(feed.out) >= 3 /\ stream[feed.out[3]] = "key"
                                  /\ Clear(stream, Len(stream)) => EndsAt(feed.out, 3, Len(stream))
        /\ feed.primed = "raw" => /\ Len(feed.out) >= 1
                                  /\ Clear(stream, Len(stream)) => EndsAt(feed.out, 1, Len(stream))
    BY <1>t, Zenon DEF TileOK, FeedRecord
  <2>. DEFINE o == feed.out
  <2>2. Len(stream) \in Nat
    BY <1>t
  <2>. HIDE DEF o
  <2>3. ASSUME EndsAt(o, 3, Len(stream)), Len(o) >= 3
        PROVE  Ts!Consecutive(SubSeq(o, 3, Len(o))) /\ o[Len(o)] = Len(stream)
    BY <2>1, <2>2, <2>3, EndsConsecutive DEF o
  <2>4. ASSUME EndsAt(o, 1, Len(stream)), Len(o) >= 1
        PROVE  Ts!Consecutive(o) /\ o[Len(o)] = Len(stream)
    <3>1. SubSeq(o, 1, Len(o)) = o
      BY <2>1 DEF o
    <3>2. Ts!Consecutive(SubSeq(o, 1, Len(o))) /\ o[Len(o)] = Len(stream)
      BY <2>1, <2>2, <2>4, EndsConsecutive DEF o
    <3>. QED
      BY <3>1, <3>2, Zenon
  <2>. QED
    BY <1>c, <2>1, <2>3, <2>4, Zenon DEF Ts!FeedIsGapless, o
<1>. QED
  BY <1>1, <1>2, <1>3
-----------------------------------------------------------------------------
(* Jitter: the bytes of the rate window, a recursive function.             *)

LEMMA JitNumbers == /\ HIST \in Nat \ {0} /\ TARGET \in Nat \ {0} /\ Bursts \subseteq Nat
                    /\ MAX_PUSHED \in Nat
BY PlaybackAssumption DEF PlaybackAssumption

LEMMA TailOfNumbers ==
  ASSUME NEW s \in Seq(Nat), s # << >>
  PROVE  /\ Head(s) \in Nat /\ Tail(s) \in Seq(Nat) /\ Len(s) \in Nat
         /\ Len(Tail(s)) = Len(s) - 1 /\ Len(s) >= 1
<1>1. Len(s) \in Nat \ {0}
  BY EmptySeq
<1>. QED
  BY <1>1, HeadTailProperties

\* What it means to be the total of every sequence of at most n numbers.
TotalsUpTo(f, n) ==
  /\ f \in [Seq(Nat) -> Int]
  /\ \A s \in Seq(Nat) : Len(s) <= n => f[s] = IF s = << >> THEN 0 ELSE Head(s) + f[Tail(s)]

LEMMA TotalsUpToExists ==
  ASSUME NEW n \in Nat
  PROVE  \E f : TotalsUpTo(f, n)
<1>. DEFINE T == {m \in Nat : ~ \E f : TotalsUpTo(f, m)}
<1>1. ASSUME NEW m \in T PROVE \E i \in T : i < m
  <2>1. m # 0
    <3>. DEFINE f0 == [s \in Seq(Nat) |-> 0]
    <3>1. f0 \in [Seq(Nat) -> Int]
      OBVIOUS
    <3>2. ASSUME NEW s \in Seq(Nat), Len(s) <= 0
          PROVE  f0[s] = IF s = << >> THEN 0 ELSE Head(s) + f0[Tail(s)]
      <4>1. s = << >>
        BY <3>2, EmptySeq
      <4>. QED
        BY <4>1
    <3>3. TotalsUpTo(f0, 0)
      BY <3>1, <3>2 DEF TotalsUpTo
    <3>. QED
      BY <3>3
  <2>2. m - 1 \in Nat /\ m - 1 < m
    BY <2>1
  <2>3. ASSUME m - 1 \notin T PROVE FALSE
    <3>. PICK f : TotalsUpTo(f, m - 1)
      BY <2>2, <2>3
    <3>. DEFINE val(s) == IF s = << >> THEN 0 ELSE Head(s) + f[Tail(s)]
                g == [s \in Seq(Nat) |-> val(s)]
    <3>1. ASSUME NEW s \in Seq(Nat) PROVE val(s) \in Int
      <4>1. CASE s = << >>
        BY <4>1
      <4>2. CASE s # << >>
        <5>1. Head(s) \in Nat /\ f[Tail(s)] \in Int
          BY <4>2, TailOfNumbers DEF TotalsUpTo
        <5>. QED
          BY <4>2, <5>1
      <4>. QED
        BY <4>1, <4>2
    <3>2. g \in [Seq(Nat) -> Int] /\ \A s \in Seq(Nat) : g[s] = val(s)
      BY <3>1
    <3>3. ASSUME NEW s \in Seq(Nat), Len(s) <= m PROVE g[s] = IF s = << >> THEN 0 ELSE Head(s) + g[Tail(s)]
      <4>1. CASE s = << >>
        BY <4>1, <3>2
      <4>2. CASE s # << >>
        <5>1. Tail(s) \in Seq(Nat) /\ Len(Tail(s)) <= m - 1
          BY <3>3, <4>2, TailOfNumbers
        <5>2. g[Tail(s)] = f[Tail(s)]
          BY <5>1, <3>2, Zenon DEF TotalsUpTo
        <5>. QED
          BY <3>2, <4>2, <5>2, Zenon
      <4>. QED
        BY <4>1, <4>2
    <3>. HIDE DEF g
    <3>4. TotalsUpTo(g, m)
      BY <3>2, <3>3, Zenon DEF TotalsUpTo
    <3>. QED
      BY <3>4
  <2>. QED
    BY <2>2, <2>3
<1>2. T = {}
  <2>. HIDE DEF T
  <2>1. T \in SUBSET Nat
    BY DEF T
  <2>. QED
    BY <1>1, <2>1, NoLeast
<1>. QED
  BY <1>2

LEMMA TotalsAgree ==
  ASSUME NEW n \in Nat, NEW m \in Nat, NEW f, NEW g, TotalsUpTo(f, n), TotalsUpTo(g, m),
         NEW s \in Seq(Nat), Len(s) <= n, Len(s) <= m
  PROVE  f[s] = g[s]
<1>. DEFINE T == {k \in Nat : k <= n /\ k <= m /\ \E q \in Seq(Nat) : Len(q) = k /\ f[q] # g[q]}
<1>1. ASSUME NEW k \in T PROVE \E i \in T : i < k
  <2>. PICK q \in Seq(Nat) : Len(q) = k /\ f[q] # g[q]
    OBVIOUS
  <2>1. k <= n /\ k <= m
    OBVIOUS
  <2>2. /\ f[q] = IF q = << >> THEN 0 ELSE Head(q) + f[Tail(q)]
        /\ g[q] = IF q = << >> THEN 0 ELSE Head(q) + g[Tail(q)]
    BY <2>1, Zenon DEF TotalsUpTo
  <2>3. q # << >> /\ f[Tail(q)] # g[Tail(q)]
    BY <2>2, Zenon
  <2>4. Tail(q) \in Seq(Nat) /\ Len(Tail(q)) = k - 1 /\ k - 1 \in Nat
    BY <2>3, TailOfNumbers
  <2>5. k - 1 < k /\ k - 1 <= n /\ k - 1 <= m
    BY <2>1, <2>4
  <2>6. \E p \in Seq(Nat) : Len(p) = k - 1 /\ f[p] # g[p]
    BY <2>3, <2>4, Zenon
  <2>. QED
    BY <2>4, <2>5, <2>6, Zenon
<1>2. T = {}
  <2>. HIDE DEF T
  <2>1. T \in SUBSET Nat
    BY DEF T
  <2>. QED
    BY <1>1, <2>1, NoLeast
<1>3. Len(s) \in Nat
  OBVIOUS
<1>. QED
  BY <1>2, <1>3

LEMMA TotalIsNumber == \A s \in Seq(Nat) : Jit!Total[s] \in Int
<1>. DEFINE Any(n) == CHOOSE f : TotalsUpTo(f, n)
            F == [s \in Seq(Nat) |-> Any(Len(s))[s]]
            Is(f) == f = [s \in Seq(Nat) |-> IF s = << >> THEN 0 ELSE Head(s) + f[Tail(s)]]
<1>1. \A n \in Nat : TotalsUpTo(Any(n), n)
  BY TotalsUpToExists, Zenon
<1>. HIDE DEF Any
<1>2. ASSUME NEW s \in Seq(Nat)
      PROVE  F[s] = IF s = << >> THEN 0 ELSE Head(s) + F[Tail(s)]
  <2>1. Len(s) \in Nat /\ F[s] = Any(Len(s))[s] /\ Len(s) <= Len(s)
    OBVIOUS
  <2>2. Any(Len(s))[s] = IF s = << >> THEN 0 ELSE Head(s) + Any(Len(s))[Tail(s)]
    BY <1>1, <2>1, Zenon DEF TotalsUpTo
  <2>3. CASE s = << >>
    BY <2>1, <2>2, <2>3
  <2>4. CASE s # << >>
    <3>. DEFINE t == Tail(s)
    <3>1. t \in Seq(Nat) /\ Len(t) \in Nat /\ Len(t) <= Len(s) /\ Len(t) <= Len(t)
      BY <2>4, TailOfNumbers
    <3>. HIDE DEF t
    <3>2. Any(Len(s))[t] = Any(Len(t))[t]
      BY <1>1, <2>1, <3>1, TotalsAgree
    <3>3. F[t] = Any(Len(t))[t]
      BY <3>1
    <3>. QED
      BY <2>1, <2>2, <2>4, <3>2, <3>3, Zenon DEF t
  <2>. QED
    BY <2>3, <2>4
<1>3. F = [s \in Seq(Nat) |-> F[s]]
  BY Zenon
<1>. HIDE DEF F
<1>4. Is(F)
  BY <1>2, <1>3
<1>5. Jit!Total = CHOOSE f : Is(f)
  BY Zenon DEF Jit!Total
<1>. HIDE DEF Is
<1>6. Is(Jit!Total)
  BY <1>4, <1>5, Zenon
<1>. DEFINE tot == Jit!Total
<1>. HIDE DEF tot
<1>7. \A s \in Seq(Nat) : tot[s] = IF s = << >> THEN 0 ELSE Head(s) + tot[Tail(s)]
  BY <1>6, Zenon DEF Is, tot
<1>. DEFINE T == {k \in Nat : \E q \in Seq(Nat) : Len(q) = k /\ tot[q] \notin Int}
<1>8. ASSUME NEW k \in T PROVE \E i \in T : i < k
  <2>. PICK q \in Seq(Nat) : Len(q) = k /\ tot[q] \notin Int
    OBVIOUS
  <2>1. q # << >>
    BY <1>7
  <2>2. Tail(q) \in Seq(Nat) /\ Len(Tail(q)) = k - 1 /\ k - 1 \in Nat /\ Head(q) \in Nat
    BY <2>1, TailOfNumbers
  <2>3. tot[q] = Head(q) + tot[Tail(q)]
    BY <1>7, <2>1, Zenon
  <2>4. tot[Tail(q)] \notin Int
    BY <2>2, <2>3
  <2>5. k - 1 < k
    BY <2>2
  <2>6. \E p \in Seq(Nat) : Len(p) = k - 1 /\ tot[p] \notin Int
    BY <2>2, <2>4, Zenon
  <2>. QED
    BY <2>2, <2>5, <2>6, Zenon
<1>9. T = {}
  <2>. HIDE DEF T
  <2>1. T \in SUBSET Nat
    BY DEF T
  <2>. QED
    BY <1>8, <2>1, NoLeast
<1>10. ASSUME NEW s \in Seq(Nat) PROVE tot[s] \in Int
  <2>1. Len(s) \in Nat
    OBVIOUS
  <2>. QED
    BY <1>9, <2>1
<1>. QED
  BY <1>10 DEF tot

-----------------------------------------------------------------------------
(* Jitter: the types, amounts as whole numbers.                            *)

JitInv == Jit!TypeOK /\ hist \in Seq(Nat) /\ carry \in Int

LEMMA JitInit == Jit!Init => JitInv
<1>. SUFFICES ASSUME Jit!Init PROVE JitInv
  OBVIOUS
<1>1. /\ buffered \in Nat /\ window \in Nat /\ pushed \in 0 .. MAX_PUSHED
      /\ sincePush \in -1 .. TARGET /\ carry \in Int
  BY JitNumbers, SMT DEF Jit!Init
<1>2. hist \in Seq(Nat) /\ Len(hist) <= HIST
  BY JitNumbers DEF Jit!Init
<1>3. primed \in BOOLEAN /\ quiet \in BOOLEAN
  BY Zenon DEF Jit!Init
<1>. QED
  BY <1>1, <1>2, <1>3, Zenon DEF JitInv, Jit!TypeOK

LEMMA JitRests == JitInv /\ UNCHANGED jitterVars => JitInv'
BY DEF JitInv, jitterVars, Jit!TypeOK

LEMMA SampledIs ==
  ASSUME JitInv
  PROVE  Jit!Sampled \in Seq(Nat) /\ Len(Jit!Sampled) <= HIST /\ Len(Jit!Sampled) \in Nat \ {0}
<1>1. hist \in Seq(Nat) /\ Len(hist) <= HIST /\ window \in Nat /\ Len(hist) \in Nat
  BY DEF JitInv, Jit!TypeOK
<1>2. CASE Len(hist) < HIST
  <2>1. Jit!Sampled = Append(hist, window)
    BY <1>2, Zenon DEF Jit!Sampled
  <2>2. Append(hist, window) \in Seq(Nat) /\ Len(Append(hist, window)) = Len(hist) + 1
    BY <1>1, AppendProperties
  <2>. QED
    BY <1>1, <1>2, <2>1, <2>2, JitNumbers
<1>3. CASE ~(Len(hist) < HIST)
  <2>1. hist # << >>
    BY <1>1, <1>3, JitNumbers
  <2>2. Jit!Sampled = Append(Tail(hist), window)
    BY <1>3, Zenon DEF Jit!Sampled
  <2>3. Tail(hist) \in Seq(Nat) /\ Len(Tail(hist)) = Len(hist) - 1
    BY <1>1, <2>1, TailOfNumbers
  <2>4. Append(Tail(hist), window) \in Seq(Nat) /\ Len(Append(Tail(hist), window)) = Len(hist)
    BY <1>1, <2>3, AppendProperties
  <2>. QED
    BY <1>1, <1>3, <2>2, <2>4, JitNumbers
<1>. QED
  BY <1>2, <1>3

\* A budget is a number, and a drain takes no more than there is.
LEMMA BudgetIsNumber ==
  ASSUME NEW r \in Int, buffered \in Nat, carry \in Int
  PROVE  Jit!Budget(r) \in Int
<1>1. Jit!UNIT \in Nat \ {0}
  BY JitNumbers DEF Jit!UNIT
<1>. DEFINE b == buffered * Jit!UNIT
            t == r * TARGET
<1>2. b \in Int /\ t \in Int
  BY <1>1, JitNumbers
<1>3. \A a \in Int : a \div (2 * TARGET) \in Int
  BY JitNumbers
<1>4. r \div 2 \in Int /\ \A a \in Int : a \div 10 \in Int
  OBVIOUS
<1>5. Jit!Steered(r) \in Int
  <2>. DEFINE x == (b - t) \div (2 * TARGET)
  <2>1. x \in Int
    BY <1>2, <1>3
  <2>2. Jit!Steered(r) = IF r = 0 THEN 0
                         ELSE Jit!Lesser(2 * r, Jit!Greater(r \div 2, r + x))
    BY Zenon DEF Jit!Steered
  <2>. HIDE DEF x
  <2>. QED
    BY <1>4, <2>1, <2>2 DEF Jit!Lesser, Jit!Greater
<1>6. Jit!Bleed(r) \in Int
  <2>. DEFINE x == b - 2 * r * TARGET
  <2>1. x \in Int
    <3>1. 2 * r \in Int
      OBVIOUS
    <3>2. \A a \in Int : a * TARGET \in Int
      BY JitNumbers
    <3>. QED
      BY <1>2, <3>1, <3>2
  <2>2. Jit!Bleed(r) = Jit!Greater(0, x) \div 10
    BY Zenon DEF Jit!Bleed
  <2>. HIDE DEF x
  <2>3. Jit!Greater(0, x) \in Int
    BY <2>1 DEF Jit!Greater
  <2>. QED
    BY <1>4, <2>2, <2>3
<1>. QED
  BY <1>5, <1>6 DEF Jit!Budget

LEMMA JitStep == JitInv /\ Jit!Next => JitInv'
<1>. SUFFICES ASSUME JitInv, Jit!Next PROVE JitInv'
  OBVIOUS
<1>t. /\ buffered \in Nat /\ window \in Nat /\ pushed \in 0 .. MAX_PUSHED
      /\ sincePush \in -1 .. TARGET /\ carry \in Int
      /\ hist \in Seq(Nat) /\ Len(hist) <= HIST
  BY Zenon DEF JitInv, Jit!TypeOK
<1>b. primed \in BOOLEAN /\ quiet \in BOOLEAN
  BY Zenon DEF JitInv, Jit!TypeOK
<1>1. ASSUME NEW n \in Bursts, Jit!Push(n) PROVE JitInv'
  <2>1. /\ buffered' \in Nat /\ window' \in Nat /\ pushed' \in 0 .. MAX_PUSHED
        /\ sincePush' \in -1 .. TARGET
    BY <1>1, <1>t, JitNumbers, SMT DEF Jit!Push
  <2>2. primed' = primed /\ hist' = hist /\ carry' = carry /\ quiet' = quiet
    BY <1>1, Zenon DEF Jit!Push
  <2>. QED
    BY <1>t, <1>b, <2>1, <2>2, Zenon DEF JitInv, Jit!TypeOK
<1>2. CASE Jit!Tick
  <2>. DEFINE r == Jit!Rate(Jit!Sampled)
              b == Jit!Budget(r)
              now == primed \/ (sincePush # -1 /\ sincePush >= TARGET /\ buffered > 0)
              n == IF now /\ buffered > 0 THEN Jit!Lesser(buffered, b \div Jit!UNIT) ELSE 0
  <2>0. Jit!UNIT \in Nat \ {0}
    BY JitNumbers DEF Jit!UNIT
  <2>1. Jit!Sampled \in Seq(Nat) /\ Len(Jit!Sampled) <= HIST /\ Len(Jit!Sampled) \in Nat \ {0}
    BY SampledIs
  <2>2. r \in Int
    <3>1. \A a \in Int : \A d \in Nat \ {0} : a \div d \in Int
      OBVIOUS
    <3>2. Jit!Total[Jit!Sampled] * Jit!UNIT \in Int
      BY <2>0, <2>1, TotalIsNumber
    <3>. QED
      BY <2>1, <3>1, <3>2, Zenon DEF Jit!Rate
  <2>3. b \in Int
    BY <1>t, <2>2, BudgetIsNumber
  <2>4. /\ hist' = Jit!Sampled /\ window' = 0
        /\ sincePush' = IF sincePush = -1 THEN -1 ELSE Jit!Lesser(TARGET, sincePush + 1)
        /\ primed' = now
        /\ buffered' = buffered - n
        /\ carry' = IF now /\ buffered > 0 THEN Jit!Owed(b, n) ELSE carry
        /\ pushed' = pushed /\ quiet' = quiet
    BY <1>2, Zenon DEF Jit!Tick
  <2>5. primed' \in BOOLEAN
    BY <1>b, <2>4, Zenon
  <2>. HIDE DEF b, now, r
  <2>6. n \in Int /\ n <= buffered
    <3>1. b \div Jit!UNIT \in Int
      BY <2>0, <2>3
    <3>2. /\ Jit!Lesser(buffered, b \div Jit!UNIT) \in Int
          /\ Jit!Lesser(buffered, b \div Jit!UNIT) <= buffered
      BY <1>t, <3>1 DEF Jit!Lesser
    <3>3. 0 \in Int /\ 0 <= buffered
      BY <1>t
    <3>. QED
      BY <3>2, <3>3, Zenon
  <2>. HIDE DEF n
  <2>7. buffered' \in Nat
    BY <1>t, <2>4, <2>6
  <2>8. carry' \in Int
    <3>1. Jit!Owed(b, n) \in Int
      <4>1. n * Jit!UNIT \in Int
        BY <2>0, <2>6
      <4>. QED
        BY <2>3, <4>1 DEF Jit!Owed
    <3>. QED
      BY <1>t, <2>4, <3>1, Zenon
  <2>9. sincePush' \in -1 .. TARGET
    BY <1>t, <2>4, JitNumbers, SMT DEF Jit!Lesser
  <2>10. window' \in Nat
    BY <2>4
  <2>. QED
    BY <1>t, <1>b, <2>1, <2>4, <2>5, <2>7, <2>8, <2>9, <2>10, Zenon DEF JitInv, Jit!TypeOK
<1>3. CASE Jit!Empties
  <2>1. /\ buffered' \in Nat /\ window' \in Nat /\ carry' \in Int /\ sincePush' \in -1 .. TARGET
    BY <1>3, <1>t, JitNumbers, SMT DEF Jit!Empties
  <2>2. primed' = FALSE /\ hist' = hist /\ pushed' = pushed /\ quiet' = quiet
    BY <1>3, Zenon DEF Jit!Empties
  <2>. QED
    BY <1>t, <1>b, <2>1, <2>2, Zenon DEF JitInv, Jit!TypeOK
<1>4. CASE Jit!SourceStops
  <2>1. /\ buffered' = buffered /\ primed' = primed /\ sincePush' = sincePush
        /\ window' = window /\ hist' = hist /\ carry' = carry /\ pushed' = pushed /\ quiet' = TRUE
    BY <1>4, Zenon DEF Jit!SourceStops
  <2>. QED
    BY <1>t, <1>b, <2>1, Zenon DEF JitInv, Jit!TypeOK
<1>. QED
  BY <1>1, <1>2, <1>3, <1>4, Zenon DEF Jit!Next

LEMMA JitIsTyped == JitInv => Jit!TypeOK
BY Zenon DEF JitInv
-----------------------------------------------------------------------------
(* The parts together: one moves, the others rest.                         *)

PlaybackInv ==
  /\ TcInv /\ SegInv /\ ShiftInv /\ ReelInv /\ FeedInv /\ FeedRuns /\ RingInv /\ VodInv /\ InpInv
  /\ SeamInv /\ TsInv /\ JitInv

LEMMA PlaybackStarts == AllInit => PlaybackInv
BY TcInit, SegInit, ShiftInit, ReelInit, FeedInit, RingInit, VodInit, InpInit,
   SeamInit, TsInit, JitInit
   DEF AllInit, PlaybackInv

LEMMA PlaybackSteps == PlaybackInv /\ [AllNext]_allVars => PlaybackInv'
<1>. SUFFICES ASSUME PlaybackInv, [AllNext]_allVars PROVE PlaybackInv'
  OBVIOUS
<1>. USE DEF PlaybackInv, AllNext, allVars
<1>1. TcInv'
  BY TcStep, TcRests, Zenon
<1>2. SegInv'
  BY SegStep, SegRests, Zenon
<1>3. ShiftInv'
  BY ShiftStep, ShiftRests, Zenon
<1>4. ReelInv'
  BY ReelStep, ReelRests, Zenon
<1>5. FeedInv' /\ FeedRuns'
  BY FeedStep, FeedRests, Zenon
<1>6. RingInv'
  BY RingStep, RingRests, Zenon
<1>7. VodInv'
  BY VodStep, VodRests, Zenon
<1>8. InpInv'
  BY InpStep, InpRests, Zenon
<1>9. SeamInv' /\ TsInv'
  BY SeamStep, SeamRests, TsStep, TsRests, Zenon
<1>10. JitInv'
  BY JitStep, JitRests, Zenon
<1>. QED
  BY <1>1, <1>2, <1>3, <1>4, <1>5, <1>6, <1>7, <1>8, <1>9, <1>10

\* The invariants of all the parts hold whenever one of them moves and the others rest.
THEOREM PartsKeepTheirInvariants == AllSpec => []PlaybackInv
<1>1. AllInit => PlaybackInv
  BY PlaybackStarts
<1>2. PlaybackInv /\ [AllNext]_allVars => PlaybackInv'
  BY PlaybackSteps
<1>. QED
  BY <1>1, <1>2, PTL DEF AllSpec

\* All variables of all parts have their types.
THEOREM PlaybackTypes == AllSpec => []TypesOK
<1>1. PlaybackInv => TypesOK
  BY TcIsTyped, ShiftIsTyped, ReelIsTyped, FeedIsTyped, RingIsTyped, VodIsTyped, InpIsTyped,
     TsIsSound, JitIsTyped, Zenon DEF PlaybackInv, SegInv, SeamInv, TypesOK
<1>. QED
  BY <1>1, PartsKeepTheirInvariants, PTL

\* Every transcoder has viewers or a grace timer, every segmenter is the session's, and
\* the timeshift buffers hold what the total says, within its bound.
THEOREM RunningThingsAreOwned == AllSpec => []EverythingHasAnOwner
<1>1. PlaybackInv => EverythingHasAnOwner
  BY TcIsTyped, ShiftIsTyped DEF PlaybackInv, SegInv, EverythingHasAnOwner
<1>. QED
  BY <1>1, PartsKeepTheirInvariants, PTL

\* The reel is for viewers, whole, in its own slot and at real time.
THEOREM EveryReelIsWhole == AllSpec => []ReelsAreWhole
<1>1. PlaybackInv => ReelsAreWhole
  BY ReelIsTyped, RingIsTyped, FeedIsTyped DEF PlaybackInv, ReelsAreWhole
<1>. QED
  BY <1>1, PartsKeepTheirInvariants, PTL

\* Joined viewers, tiles, reconnects and reels go on without a gap; a reconnect sends
\* nothing twice while the programme's clock runs on, and drops nothing new also where it
\* wraps or starts again.
THEOREM StreamsRunOn == AllSpec => StreamIsGapless
<1>1. AllSpec => []((Seam!RunsOn => SeamClock) /\ SeamReach)
  <2>1. AllInit => (Seam!RunsOn => SeamClock) /\ SeamReach
    BY SeamClockInit, SeamReachInit, Zenon DEF AllInit
  <2>2. PlaybackInv /\ (Seam!RunsOn => SeamClock) /\ SeamReach /\ [AllNext]_allVars
          => ((Seam!RunsOn => SeamClock) /\ SeamReach)'
    BY SeamClockStep, SeamClockRests, SeamReachStep, SeamReachRests, Zenon
       DEF PlaybackInv, AllNext, allVars
  <2>. QED
    BY <2>1, <2>2, PartsKeepTheirInvariants, PTL DEF AllSpec
<1>2. PlaybackInv => Ts!JoinedIsGapless /\ Ts!FeedIsGapless
  BY TsIsSound DEF PlaybackInv
<1>3. PlaybackInv /\ (Seam!RunsOn => SeamClock) /\ [AllNext]_allVars
        => [Seam!Filter /\ ~armed' /\ Seam!RunsOn => next > known]_(Seam!vars)
  BY SeamSendsNothingTwice, Zenon DEF PlaybackInv
<1>4. PlaybackInv /\ SeamReach /\ [AllNext]_allVars
        => [Seam!Filter /\ Seam!Drops /\ ~Seam!CaughtUp /\ Seam!RunsOrJumps /\ next \in ClockAt
              => next <= far]_(Seam!vars)
  BY SeamCatchesUp, Zenon DEF PlaybackInv
<1>5. [AllNext]_allVars
        => [Seam!Filter /\ Seam!Resumes => next \in PesAt \/ seekBytes' >= MAX_SEEK]_(Seam!vars)
  BY SeamResumesDecodable, Zenon
<1>6. PlaybackInv /\ [AllNext]_allVars
        => [chunk' # chunk =>
              /\ chunk'.from # chunk.to => chunk.to = LENGTH /\ chunk'.from = tailStart
              /\ chunk'.to - chunk'.from <= RATE * (age' - age)]_(Feed!vars)
  BY FeedPlaysInOrder, Zenon DEF PlaybackInv, AllNext, allVars, feederVars, Feed!vars
<1>7. PlaybackInv /\ [AllNext]_allVars
        => [slate /\ ~slate' /\ ~sawLive' =>
              (\A s \in Subs : sub'[s] = "none") \/ Reel!PlainIn(sub') \/ ~h264']_(Reel!vars)
  BY ReelLeaves, Zenon DEF PlaybackInv, AllNext, allVars, slateVars, Reel!vars
<1>. QED
  BY <1>1, <1>2, <1>3, <1>4, <1>5, <1>6, <1>7, PartsKeepTheirInvariants, PTL
     DEF AllSpec, StreamIsGapless, Seam!NothingTwice, Seam!CatchesUp, Seam!ResumesDecodable,
         Feed!PlaysInOrder, Reel!ReelLeavesNobody

\* A transcoder's viewer waits on an ffmpeg that starts, runs or is about to close it.
THEOREM ViewersAreServed == AllSpec => []Tc!AttachedIsServed
<1>1. PlaybackInv => Tc!AttachedIsServed
  BY TcIsTyped DEF PlaybackInv
<1>. QED
  BY <1>1, PartsKeepTheirInvariants, PTL

\* The relay and the tile's feed hold what is theirs, begin nothing for a viewer who left
\* and let go when the client does.
THEOREM HoldersGiveBack == AllSpec => RequestsHoldTheirOwn
<1>1. PlaybackInv => Vod!NothingLeaks /\ Inp!HoldsOne
  BY VodIsTyped, InpIsTyped DEF PlaybackInv
<1>2. PlaybackInv /\ [AllNext]_allVars
        => [stage = "fetching" /\ aborted => stage' # "fallback"]_(Vod!vars)
  BY VodWorksForSomebody, Zenon DEF PlaybackInv, AllNext, allVars, vodVars, Vod!vars
<1>3. PlaybackInv /\ [AllNext]_allVars => [gone' # gone => attached' = 0]_(Inp!vars)
  BY InpLeavesDetached, Zenon DEF PlaybackInv, AllNext, allVars, inputVars, Inp!vars
<1>. QED
  BY <1>1, <1>2, <1>3, PartsKeepTheirInvariants, PTL
     DEF AllSpec, RequestsHoldTheirOwn, Vod!NoWorkForNobody, Inp!LeavesDetached
=============================================================================
