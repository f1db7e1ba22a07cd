------------------------------ MODULE TsStreams ------------------------------
(***************************************************************************)
(* Two consumers of one transport stream: the rolling preroll that lets a  *)
(* new viewer start on a keyframe (src/proxy/tspreroll.ts), and the feed   *)
(* of a mosaic tile that is held back until it can start on one            *)
(* (keyframeAlignedStream, src/proxy/tsfeed.ts).                           *)
(*                                                                         *)
(* A packet is its kind; the stream is all packets so far, and a buffer is *)
(* a sequence of positions in it.  The upstream cuts it into chunks.       *)
(***************************************************************************)
EXTENDS Integers, Sequences, Functions

CONSTANTS MAX_PACKETS,  \* bound: packets of the stream
          MAX_CHUNK,    \* bound: packets of a chunk
          GOP_CAP,      \* MAX_GOP_BYTES
          HELD_CAP      \* the hold buffer of the feed

\* PAT, PMT, a video packet with the random access indicator, any other packet,
\* and one without its sync byte.
Kinds == {"pat", "pmt", "key", "other", "lost"}

VARIABLES
  stream,             \* the kinds of all packets so far
  pat, pmt, video,    \* preroll: latest PAT and PMT, video PIDs known
  gop,                \* preroll: packets since the last keyframe
  feed,               \* tile feed: the same, what it holds and what it emitted
  late,               \* PRIME_TIMEOUT_MS is over
  joined              \* history: what a viewer who attached was given and when

vars == <<stream, pat, pmt, video, gop, feed, late, joined>>

Count  == 0 .. MAX_PACKETS
NoFeed == [pat |-> 0, pmt |-> 0, video |-> FALSE, primed |-> "no",
           held |-> << >>, out |-> << >>]

TypeOK == /\ Len(stream) <= MAX_PACKETS /\ Range(stream) \subseteq Kinds
          /\ {pat, pmt} \subseteq Count /\ video \in BOOLEAN
          /\ Range(gop) \subseteq Count /\ Len(gop) <= GOP_CAP
          /\ feed.primed \in {"no", "key", "raw"}
          /\ Len(feed.held) <= HELD_CAP
          /\ late \in BOOLEAN

Init == /\ stream = << >> /\ pat = 0 /\ pmt = 0 /\ video = FALSE /\ gop = << >>
        /\ feed = NoFeed /\ late = FALSE /\ joined = << >>

-----------------------------------------------------------------------------
(* TsPreroll.push: packets of a chunk up to the first without sync.        *)

Grown(g, i, kind, known) ==
  IF kind = "key" /\ known THEN <<i>>
  ELSE IF g # << >> /\ Len(g) < GOP_CAP THEN Append(g, i) ELSE g

Learns(r, i, kind) ==
  LET known == r.video \/ (kind = "pmt" /\ r.pat # 0)
  IN  [pat   |-> IF kind = "pat" THEN i ELSE r.pat,
       pmt   |-> IF kind = "pmt" /\ r.pat # 0 THEN i ELSE r.pmt,
       video |-> known,
       gop   |-> Grown(r.gop, i, kind, known)]

\* How many packets come before the first without sync.
UpToLoss(chunk) == CHOOSE n \in 0 .. Len(chunk) :
  /\ \A k \in 1 .. n : chunk[k] # "lost"
  /\ n < Len(chunk) => chunk[n + 1] = "lost"

Prerolled(chunk) ==
  LET After[k \in 0 .. Len(chunk)] ==
        IF k = 0 THEN [pat |-> pat, pmt |-> pmt, video |-> video, gop |-> gop]
        ELSE Learns(After[k - 1], Len(stream) + k, chunk[k])
  IN  After[UpToLoss(chunk)]

\* preroll(): what a new viewer is given, null until a keyframe was seen.
Preroll == IF gop = << >> \/ pat = 0 \/ pmt = 0 THEN << >> ELSE <<pat, pmt>> \o gop

-----------------------------------------------------------------------------
(* keyframeAlignedStream: every packet with sync, one at a time.           *)

\* Mutant: the packets held back follow the keyframe instead of being dropped.
Primes_WithHeld(f, i) == [f EXCEPT !.primed = "key", !.held = << >>,
                                   !.out = <<f.pat, f.pmt, i>> \o f.held]

Primes(f, i) == [f EXCEPT !.primed = "key", !.held = << >>, !.out = <<f.pat, f.pmt, i>>]

Holds(f, i) == [f EXCEPT !.held =
  IF Len(f.held) < HELD_CAP THEN Append(f.held, i) ELSE Append(Tail(f.held), i)]

Fed(f, i, kind) ==
  LET g == [f EXCEPT !.pat   = IF kind = "pat" THEN i ELSE @,
                     !.pmt   = IF kind = "pmt" /\ f.pat # 0 THEN i ELSE @,
                     !.video = @ \/ (kind = "pmt" /\ f.pat # 0)]
  IN  IF kind = "lost" THEN f
      ELSE IF g.primed # "no" THEN [g EXCEPT !.out = Append(@, i)]
      ELSE IF kind = "key" /\ g.video THEN Primes(g, i)
      ELSE IF late THEN [g EXCEPT !.primed = "raw", !.held = << >>, !.out = Append(g.held, i)]
      ELSE Holds(g, i)

FedAll(chunk) ==
  LET After[k \in 0 .. Len(chunk)] ==
        IF k = 0 THEN feed ELSE Fed(After[k - 1], Len(stream) + k, chunk[k])
  IN  After[Len(chunk)]

-----------------------------------------------------------------------------
Chunk == \E n \in 1 .. MAX_CHUNK : \E chunk \in [1 .. n -> Kinds] :
  /\ Len(stream) + n <= MAX_PACKETS
  /\ stream' = stream \o chunk
  /\ LET r == Prerolled(chunk)
     IN  pat' = r.pat /\ pmt' = r.pmt /\ video' = r.video /\ gop' = r.gop
  /\ feed' = FedAll(chunk)
  /\ joined' = IF joined = << >> THEN joined
               ELSE joined \o [k \in 1 .. n |-> Len(stream) + k]
  /\ UNCHANGED late

\* attach: the preroll, then every region that follows.
Joins == /\ joined = << >> /\ Preroll # << >>
         /\ joined' = Preroll
         /\ UNCHANGED <<stream, pat, pmt, video, gop, feed, late>>

PrimeTimesOut == /\ ~late /\ late' = TRUE
                 /\ UNCHANGED <<stream, pat, pmt, video, gop, feed, joined>>

Next == Chunk \/ Joins \/ PrimeTimesOut
Spec == Init /\ [][Next]_vars

-----------------------------------------------------------------------------
Consecutive(s) == \A k \in 1 .. Len(s) - 1 : s[k + 1] = s[k] + 1
Whole == "lost" \notin Range(stream)

\* A viewer who attaches gets PAT, PMT and a keyframe and from there every packet
\* of the stream, each once, wherever the chunks were cut; true of a stream that
\* loses no sync and a GOP that fits the buffer.
JoinedIsGapless == joined # << >> =>
  /\ stream[joined[1]] = "pat" /\ stream[joined[2]] = "pmt" /\ stream[joined[3]] = "key"
  /\ Whole /\ MAX_PACKETS <= GOP_CAP => Consecutive(SubSeq(joined, 3, Len(joined)))

\* A tile starts on PAT, PMT and the first usable keyframe and misses nothing
\* after it; one that gave up waiting replays all it still held, in order.
FeedIsGapless ==
  /\ feed.primed = "key" /\ Whole =>
       /\ stream[feed.out[3]] = "key"
       /\ Consecutive(SubSeq(feed.out, 3, Len(feed.out)))
       /\ feed.out[Len(feed.out)] = Len(stream)
  /\ feed.primed = "raw" /\ Whole =>
       Consecutive(feed.out) /\ feed.out[Len(feed.out)] = Len(stream)
=============================================================================
