------------------------------- MODULE Overlap -------------------------------
(***************************************************************************)
(* OverlapGate (src/proxy/overlap.ts): drops what a provider replays after *)
(* a reconnect, by the programme clock (PCR) of its packets, and resumes   *)
(* at the start of a video PES packet.                                     *)
(*                                                                         *)
(* The programme is the positions 0 .. LAST; a connection delivers them in *)
(* order from some position on, cut into chunks anywhere, also within a    *)
(* packet.  An action is what one packet adds to the call of filter that   *)
(* holds it; the source is opened again only between two calls.            *)
(***************************************************************************)
EXTENDS Integers

CONSTANTS LAST,        \* the last position of the programme
          ClockAt,     \* positions whose packet carries a PCR
          PesAt,       \* positions where a video PES packet starts
          FirstPcrs,   \* clocks the programme may begin with
          Resets,      \* positions where it may begin again from zero, LAST + 1: never
          PCR_WRAP,
          SANE_BACKWARD,
          MAX_SEEK     \* MAX_RESUME_SEEK_BYTES, in packets

VARIABLES
  first, resetAt,  \* the programme: its clock at position 0, where the clock starts again
  next,      \* the position the connection delivers next
  chunk,     \* where in a chunk that is
  newest,    \* last: the newest PCR ingested, -1 when none
  armed, seeking, seekBytes,
  \* history, of this source
  out,       \* the latest position that went downstream
  known,     \* the latest of those whose clock was read
  far        \* the latest position delivered

vars == <<first, resetAt, next, chunk, newest, armed, seeking, seekBytes, out, known, far>>

\* Between two chunks, at the start of a packet or within one; in one that is read, or in
\* one whose rest is not.
Cuts  == {"none", "cut"}
Ways  == Cuts \cup {"read", "rest"}

Before == -1 .. LAST

TypeOK == /\ first \in FirstPcrs /\ resetAt \in Resets
          /\ next \in 0 .. LAST + 1 /\ chunk \in Ways
          /\ newest \in -1 .. PCR_WRAP - 1
          /\ armed \in BOOLEAN /\ seeking \in BOOLEAN
          /\ seekBytes \in 0 .. MAX_SEEK
          /\ out \in Before /\ known \in Before /\ far \in Before
          /\ seeking => armed

Init == /\ first \in FirstPcrs /\ resetAt \in Resets
        /\ next = 0 /\ chunk = "none" /\ newest = -1
        /\ armed = FALSE /\ seeking = FALSE /\ seekBytes = 0
        /\ out = -1 /\ known = -1 /\ far = -1

Pcr(n) == (IF n < resetAt THEN first + n ELSE n - resetAt) % PCR_WRAP

\* A forward wrap is ahead, and so is a step back too large for a replay.
IsAhead(pcr) ==
  LET d == pcr - newest
      e == IF d < -(PCR_WRAP \div 2) THEN d + PCR_WRAP ELSE d
  IN  newest = -1 \/ e > 0 \/ e < -SANE_BACKWARD

Learned(n) == IF n \in ClockAt /\ IsAhead(Pcr(n)) THEN Pcr(n) ELSE newest

Later(n, than) == IF n > than THEN n ELSE than

-----------------------------------------------------------------------------
(* filter                                                                  *)

\* The chunk goes on, or ends with this packet or within the one after it.
GoesOn(ways) == chunk' \in IF next = LAST THEN {"none"} ELSE Cuts \cup ways

\* Not armed: scan reads the clocks of the packets that are whole in their chunk.
Passes == /\ ~armed /\ chunk \in {"none", "read"}
          /\ newest' = Learned(next)
          /\ known' = IF next \in ClockAt THEN Later(next, known) ELSE known
          /\ out' = Later(next, out)
          /\ GoesOn({"read"})
          /\ UNCHANGED <<armed, seeking, seekBytes>>

\* A packet that straddles two chunks is not read, and neither is the rest of the second
\* one unless it shows three sync bytes; nor is what follows in the chunk that resumed.
PassesUnread == /\ ~armed /\ chunk \in {"cut", "rest"}
                /\ out' = Later(next, out)
                /\ GoesOn(IF chunk = "cut" THEN {"read", "rest"} ELSE {"rest"})
                /\ UNCHANGED <<newest, known, armed, seeking, seekBytes>>

CaughtUp == seeking \/ (next \in ClockAt /\ IsAhead(Pcr(next)))
SoughtNow == IF seeking THEN seekBytes ELSE 0

Restarts == next \in PesAt \/ SoughtNow >= MAX_SEEK

\* Armed: a straddling packet is put together and read like any other.  The packet to
\* resume at goes down with all that is left of its chunk.
Resumes == /\ armed /\ CaughtUp /\ Restarts
           /\ newest' = Learned(next)
           /\ armed' = FALSE /\ seeking' = FALSE /\ seekBytes' = SoughtNow
           /\ known' = IF next \in ClockAt THEN Later(next, known) ELSE known
           /\ out' = Later(next, out)
           /\ GoesOn({"rest"})

Drops == /\ armed /\ ~(CaughtUp /\ Restarts)
         /\ newest' = IF CaughtUp THEN Learned(next) ELSE newest
         /\ seeking' = CaughtUp
         /\ seekBytes' = IF CaughtUp THEN SoughtNow + 1 ELSE seekBytes
         /\ GoesOn({"read"})
         /\ UNCHANGED <<armed, out, known>>

Filter == /\ next <= LAST
          /\ next' = next + 1 /\ far' = Later(next, far)
          /\ Passes \/ PassesUnread \/ Resumes \/ Drops
          /\ UNCHANGED <<first, resetAt>>

-----------------------------------------------------------------------------
\* arm: the source is opened again; it starts with recent history, or later than
\* where it broke off.
Reconnect == /\ chunk \in Cuts /\ chunk' = "none"
             /\ \E n \in 0 .. LAST : next' = n
             /\ armed' = (newest # -1 \/ armed)
             /\ seeking' = FALSE /\ seekBytes' = 0
             /\ UNCHANGED <<first, resetAt, newest, out, known, far>>

\* reset: another source, whose positions count from zero again.
FailOver == /\ chunk \in Cuts /\ chunk' = "none"
            /\ next' = 0 /\ newest' = -1 /\ armed' = FALSE
            /\ seeking' = FALSE /\ seekBytes' = 0
            /\ out' = -1 /\ known' = -1 /\ far' = -1
            /\ UNCHANGED <<first, resetAt>>

Next == Filter \/ Reconnect \/ FailOver
Spec == Init /\ [][Next]_vars

-----------------------------------------------------------------------------
\* The programme's clock neither wraps nor starts again, and no replay is so long that a
\* step back over it is taken for either.
RunsOn == resetAt > LAST /\ first + LAST < PCR_WRAP /\ LAST <= SANE_BACKWARD

\* It may wrap, or start again once, by more than a replay goes back.
RunsOrJumps == \/ resetAt > LAST
               \/ first > LAST + SANE_BACKWARD /\ first + LAST < PCR_WRAP

\* Whatever goes down after a reconnect is later than all that was relayed before, as far as
\* its clock was read and ran on.  Footage whose clock was not read may come twice: the
\* packets between two clocks, those that straddle chunks, the rest of the chunk that
\* resumed last.
NothingTwice == [][Filter /\ ~armed' /\ RunsOn => next > known]_vars

\* And nothing new is taken for a replay, also when the clock wraps or starts again: a
\* packet that is dropped before the clock has caught up was delivered before, or has no
\* clock.
CatchesUp == [][Filter /\ Drops /\ ~CaughtUp /\ RunsOrJumps /\ next \in ClockAt
                  => next <= far]_vars

\* The relay resumes where a decoder can, unless it gave up looking for it.
ResumesDecodable == [][Filter /\ Resumes => next \in PesAt \/ seekBytes' >= MAX_SEEK]_vars

\* These fail.  Footage whose clock was not read comes twice, although the clock runs on;
\* and after a wrap, or a new start of the clock, a replay of what came before looks ahead.
NothingTwiceAtAll == [][Filter /\ ~armed' /\ RunsOn => next > out]_vars
NothingTwiceOnJumps == [][Filter /\ ~armed' /\ RunsOrJumps => next > known]_vars
=============================================================================
