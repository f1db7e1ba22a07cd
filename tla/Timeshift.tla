------------------------------ MODULE Timeshift ------------------------------
(***************************************************************************)
(* The timeshift buffers (src/proxy/timeshift.ts): per channel a ring of   *)
(* chunks with absolute indices, one recording subscription to the muxer,  *)
(* the readers with their cursors, and the total over all buffers.         *)
(*                                                                         *)
(* A chunk counts one unit of memory.  The muxer answers an open within    *)
(* the macrotask, so replay() and the start of its recording are one step. *)
(***************************************************************************)
EXTENDS Integers, FiniteSets

CONSTANTS Channels,
          Players,       \* replay readers
          OWN_CAP,       \* HARD_MEMORY_CAP
          GLOBAL_CAP,    \* GLOBAL_MEMORY_CAP
          MAX_HEAD       \* bound: chunks ever appended to one buffer

VARIABLES
  buffers,      \* the channels that have a buffer
  evicted,      \* chunks dropped off the front
  head,         \* absolute index one past the newest chunk
  recording,    \* channels with a subscription
  ended,        \* buffers whose recording is over for good
  idleTimer,    \* buffers whose teardown timer is armed
  globalBytes,
  player        \* of a reader: its channel, cursor and where its pull stands

vars == <<buffers, evicted, head, recording, ended, idleTimer, globalBytes, player>>

Away    == [state |-> "away"]
Reading == [state : {"pulling", "parked", "closed"}, on : Channels, idx : 0 .. MAX_HEAD]

TypeOK == /\ buffers \subseteq Channels /\ recording \subseteq buffers
          /\ ended \subseteq buffers /\ idleTimer \subseteq buffers
          /\ evicted \in [Channels -> 0 .. MAX_HEAD]
          /\ head \in [Channels -> 0 .. MAX_HEAD]
          /\ \A c \in Channels : evicted[c] <= head[c]
          /\ recording \cap ended = {}
          /\ player \in [Players -> Reading \cup {Away}]

Init == /\ buffers = {} /\ recording = {} /\ ended = {} /\ idleTimer = {}
        /\ evicted = [c \in Channels |-> 0] /\ head = [c \in Channels |-> 0]
        /\ globalBytes = 0
        /\ player = [r \in Players |-> Away]

Readers(c) == {r \in Players : player[r].state # "away" /\ player[r].on = c}

\* wake(): a pull that waits looks again.
Woken(c, pl) == [r \in Players |->
  IF pl[r].state = "parked" /\ pl[r].on = c THEN [pl[r] EXCEPT !.state = "pulling"] ELSE pl[r]]

-----------------------------------------------------------------------------
(* replay                                                                  *)

\* ensureRecording: an ended buffer never records again.
Records(c) ==
  IF c \in recording \cup ended THEN UNCHANGED <<recording, ended>>
  ELSE \/ recording' = recording \cup {c} /\ UNCHANGED ended
       \/ ended' = ended \cup {c} /\ UNCHANGED recording      \* no source

\* The timer is cleared, and the reader starts anywhere from the oldest chunk to
\* the live edge.  A new buffer counts from zero.
Replay(r, c) ==
  /\ player[r].state = "away"
  /\ buffers' = buffers \cup {c}
  /\ idleTimer' = idleTimer \ {c}
  /\ Records(c)
  /\ \E i \in evicted[c] .. head[c] :
       player' = [IF ended' # ended THEN Woken(c, player) ELSE player
                    EXCEPT ![r] = [state |-> "pulling", on |-> c, idx |-> i]]
  /\ UNCHANGED <<evicted, head, globalBytes>>

\* A reader behind the eviction jumps to the oldest chunk; at the live edge it
\* is closed when the recording is over, and waits otherwise.
AfterPull(p) ==
  LET i == IF p.idx < evicted[p.on] THEN evicted[p.on] ELSE p.idx
  IN  IF i < head[p.on]
        THEN [p EXCEPT !.idx = i + 1]
        ELSE [p EXCEPT !.idx = i, !.state = IF p.on \in ended THEN "closed" ELSE "parked"]

Pull(r) == /\ player[r].state = "pulling"
           /\ player' = [player EXCEPT ![r] = AfterPull(@)]
           /\ UNCHANGED <<buffers, evicted, head, recording, ended, idleTimer, globalBytes>>

-----------------------------------------------------------------------------
(* The recording                                                           *)

\* Mutant: an eviction that forgets the total it shares with the other buffers.
Evicts_OwnOnly(c, n) ==
  LET len == head[c] + 1 - evicted[c]
  IN  /\ n < len
      /\ len - n > 1 => len - n <= OWN_CAP

\* append drops the n oldest chunks: those too old, and more while its own or the
\* common ceiling is passed and more than one is left.
Evicts(c, n) ==
  LET len == head[c] + 1 - evicted[c]
  IN  /\ n < len
      /\ len - n > 1 => len - n <= OWN_CAP /\ globalBytes + 1 - n <= GLOBAL_CAP

Appends(c) ==
  /\ c \in recording /\ head[c] < MAX_HEAD
  /\ head' = [head EXCEPT ![c] = @ + 1]
  /\ \E n \in 0 .. MAX_HEAD :
       /\ Evicts(c, n)
       /\ evicted' = [evicted EXCEPT ![c] = @ + n]
       /\ globalBytes' = globalBytes + 1 - n
  /\ player' = Woken(c, player)
  /\ UNCHANGED <<buffers, recording, ended, idleTimer>>

UpstreamEnds(c) ==
  /\ c \in recording
  /\ recording' = recording \ {c} /\ ended' = ended \cup {c}
  /\ player' = Woken(c, player)
  /\ UNCHANGED <<buffers, evicted, head, idleTimer, globalBytes>>

-----------------------------------------------------------------------------
(* drop, and the teardown of an idle buffer                                *)

Leave(r) ==
  /\ player[r].state # "away"
  /\ player' = [player EXCEPT ![r] = Away]
  /\ idleTimer' = IF Readers(player[r].on) = {r} THEN idleTimer \cup {player[r].on}
                                                 ELSE idleTimer
  /\ UNCHANGED <<buffers, evicted, head, recording, ended, globalBytes>>

Teardown(c) ==
  /\ c \in idleTimer /\ Readers(c) = {}
  /\ buffers' = buffers \ {c} /\ recording' = recording \ {c}
  /\ ended' = ended \ {c} /\ idleTimer' = idleTimer \ {c}
  /\ globalBytes' = globalBytes - (head[c] - evicted[c])
  /\ head' = [head EXCEPT ![c] = 0] /\ evicted' = [evicted EXCEPT ![c] = 0]
  /\ UNCHANGED player

Next == \/ \E c \in Channels : Appends(c) \/ UpstreamEnds(c) \/ Teardown(c)
        \/ \E r \in Players : Pull(r) \/ Leave(r)
        \/ \E r \in Players, c \in Channels : Replay(r, c)

\* The teardown timer fires, and a player that does not pause pulls.
Fairness == /\ \A c \in Channels : WF_vars(Teardown(c))
            /\ \A r \in Players : WF_vars(Pull(r))

Spec     == Init /\ [][Next]_vars
FairSpec == Spec /\ Fairness

-----------------------------------------------------------------------------
Length(c) == head[c] - evicted[c]

\* The sum of the lengths of all buffers.
Held(len) ==
  LET Sum[cs \in SUBSET Channels] ==
        IF cs = {} THEN 0
        ELSE LET c == CHOOSE c \in cs : TRUE IN len[c] + Sum[cs \ {c}]
  IN  Sum[Channels]

\* The total is what the buffers hold, and passes its ceiling by at most the one
\* chunk that each buffer keeps whatever the pressure.
TotalAddsUp ==
  /\ globalBytes = Held([c \in Channels |-> Length(c)])
  /\ globalBytes <= GLOBAL_CAP + Cardinality(buffers)
  /\ \A c \in Channels : Length(c) <= OWN_CAP \/ Length(c) = 1

\* No wake-up is lost: a reader waits only at the live edge of a buffer that may
\* still grow, and one is closed only when it was given all there is.
WaitsAtLiveEdge == \A r \in Players :
  /\ player[r].state = "parked" => /\ player[r].on \in recording
                                   /\ player[r].idx = head[player[r].on]
  /\ player[r].state = "closed" => player[r].idx = head[player[r].on]

\* Exactly the buffers nobody reads are about to be torn down.
UnreadIsTimed == \A c \in Channels : c \in idleTimer <=> c \in buffers /\ Readers(c) = {}

\* A buffer that nobody reads goes, with its subscription; a reader of an ended
\* buffer is closed.
BufferIsReleased ==
  /\ \A c \in Channels : (c \in idleTimer) ~> (c \notin buffers \/ Readers(c) # {})
  /\ \A r \in Players : (player[r].state = "pulling" /\ player[r].on \in ended)
                          ~> (player[r].state \in {"closed", "away"})
=============================================================================
