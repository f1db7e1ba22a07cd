------------------------------ MODULE TileInput ------------------------------
(***************************************************************************)
(* persistentKeyframeFeed (src/proxy/tsfeed.ts): the feed of one mosaic    *)
(* tile, which opens its channel again when the upstream ends, and what it *)
(* holds at the muxer (src/proxy/muxer.ts, open).                          *)
(***************************************************************************)
EXTENDS Integers

CONSTANT TRIES   \* dials before the feed ends

VARIABLES
  at,        \* reading, gap (the pause before a dial), dialling, waiting, closed
  tries,     \* dials that failed in a row
  gone,      \* the request was aborted
  attached,  \* subscriptions this feed holds at the muxer
  reader     \* it has a reader of the latest of them

vars == <<at, tries, gone, attached, reader>>

TypeOK == /\ at \in {"reading", "gap", "dialling", "waiting", "closed"}
          /\ tries \in 0 .. TRIES
          /\ gone \in BOOLEAN /\ reader \in BOOLEAN
          /\ attached \in 0 .. 2

Init == at = "reading" /\ tries = 0 /\ gone = FALSE /\ attached = 1 /\ reader = TRUE

\* The upstream ends: the muxer closes its subscribers.
UpstreamEnds == /\ at = "reading" /\ attached > 0
                /\ at' = "gap" /\ attached' = attached - 1 /\ reader' = FALSE
                /\ UNCHANGED <<tries, gone>>

\* A chunk for a consumer who left throws: the reader is let go, not cancelled.
EnqueueThrows == /\ at = "reading" /\ gone
                 /\ at' = "gap" /\ reader' = FALSE
                 /\ UNCHANGED <<tries, gone, attached>>

GapOver == /\ at = "gap"
           /\ at' = IF gone THEN "closed" ELSE "dialling"
           /\ tries' = 0
           /\ UNCHANGED <<gone, attached, reader>>

\* open(): it subscribes and only then listens for an abort.
DialAnswers == /\ at = "dialling"
               /\ \/ at' = "reading" /\ attached' = attached + 1 /\ reader' = TRUE
                     /\ UNCHANGED tries
                  \/ at' = "waiting" /\ tries' = tries + 1 /\ UNCHANGED <<attached, reader>>
               /\ UNCHANGED gone

\* Mutant: the number of dials in a row has no limit.
GivesUp_Never == gone

GivesUp == gone \/ tries = TRIES

WaitOver == /\ at = "waiting"
            /\ at' = IF GivesUp THEN "closed" ELSE "dialling"
            /\ UNCHANGED <<tries, gone, attached, reader>>

\* Mutant: the muxer is not told that the client left.
Released_Kept == attached

\* The listener of the muxer and that of the reader, where there is one, detach.
Released == IF reader THEN attached - 1 ELSE attached

Abort == /\ ~gone /\ gone' = TRUE
         /\ attached' = Released
         /\ UNCHANGED <<at, tries, reader>>

\* A pending read of a reader that was cancelled answers done.
ReadDone == /\ at = "reading" /\ gone /\ attached = 0
            /\ at' = "gap" /\ reader' = FALSE
            /\ UNCHANGED <<tries, gone, attached>>

Next == UpstreamEnds \/ EnqueueThrows \/ GapOver \/ DialAnswers \/ WaitOver \/ Abort \/ ReadDone

Fairness == WF_vars(GapOver) /\ WF_vars(DialAnswers) /\ WF_vars(WaitOver) /\ WF_vars(ReadDone)

Spec     == Init /\ [][Next]_vars
FairSpec == Spec /\ Fairness

-----------------------------------------------------------------------------
\* A feed whose client is there holds one subscription while it reads and none while
\* it dials, however often the upstream ends.
HoldsOne == ~gone => attached = IF at = "reading" THEN 1 ELSE 0

\* A client that leaves detaches the feed from the channel: nothing is left attached by
\* leaving, only by a dial that is answered later.
LeavesDetached == [][gone' # gone => attached' = 0]_vars

\* A feed whose client left ends, unless such a late answer attached it.
FeedEnds == gone ~> (at = "closed" \/ attached > 0)

\* The feed of a client that left holds no viewer slot (muxer.ts:593 "no phantom
\* viewers").  It fails: open() subscribes after the client has left, its listener is added
\* to a signal that has fired already, and the reader is let go instead of cancelled.
NoPhantomViewer == at = "closed" => attached = 0
==============================================================================
