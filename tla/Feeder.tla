------------------------------- MODULE Feeder --------------------------------
(***************************************************************************)
(* SlateFeeder (src/slate/feeder.ts): plays a reel at real time and loops  *)
(* its tail.  Positions are packets, time is in ticks, and RATE packets    *)
(* play per tick; a late tick catches up.                                  *)
(***************************************************************************)
EXTENDS Integers

CONSTANTS LENGTH,      \* whole packets of the reel
          TAILS,       \* tailStartByte / PACKET as the manifest may give it
          STARTS,      \* startByte / PACKET
          RATE,
          MAX_TICKS,   \* maxMs
          MAX_LATE     \* bound: ticks that one late tick stands for

VARIABLES
  tailStart,
  pos, segmentStart,
  epoch,        \* ticks since segmentStart began to play
  age,          \* ticks since start()
  running,
  chunk         \* history: first and last packet of the last push

vars == <<tailStart, pos, segmentStart, epoch, age, running, chunk>>

Least(a, b)    == IF a < b THEN a ELSE b
Greatest(a, b) == IF a > b THEN a ELSE b

StartAt(s, tail) == Least(s, Greatest(0, tail - 1))

TypeOK == /\ {tailStart, pos, segmentStart} \subseteq 0 .. LENGTH
          /\ epoch \in 0 .. MAX_TICKS + MAX_LATE /\ age \in 0 .. MAX_TICKS + MAX_LATE
          /\ running \in BOOLEAN

Init == \E s \in STARTS, t \in TAILS :
          /\ tailStart = Least(LENGTH, t)
          /\ pos = StartAt(s, tailStart) /\ segmentStart = StartAt(s, tailStart)
          /\ epoch = 0 /\ age = 0 /\ running = TRUE
          /\ chunk = [from |-> pos, to |-> pos]

Expires(late) == /\ age + late >= MAX_TICKS
                 /\ running' = FALSE /\ age' = age + late
                 /\ UNCHANGED <<tailStart, pos, segmentStart, epoch, chunk>>

\* Mutant: the loop keeps the epoch, and plays the tail in one burst.
Rewind_SameEpoch(late) ==
  pos' = tailStart /\ segmentStart' = tailStart /\ epoch' = epoch + late

Rewind(late) == pos' = tailStart /\ segmentStart' = tailStart /\ epoch' = 0

Plays(late) ==
  LET target == Least(LENGTH, segmentStart + RATE * (epoch + late)) IN
  /\ age + late < MAX_TICKS
  /\ chunk' = [from |-> pos, to |-> Greatest(pos, target)]
  /\ age' = age + late
  /\ IF Greatest(pos, target) >= LENGTH
       THEN Rewind(late)
       ELSE /\ pos' = Greatest(pos, target) /\ epoch' = epoch + late
            /\ UNCHANGED segmentStart
  /\ UNCHANGED <<tailStart, running>>

Tick == running /\ \E late \in 1 .. MAX_LATE : Expires(late) \/ Plays(late)

Next == Tick
Spec == Init /\ [][Next]_vars

-----------------------------------------------------------------------------
\* The reel plays at real time: what was pushed since the last rewind is never
\* ahead of the clock, and once the countdown is over nothing before the tail is
\* shown again.
PlaysAtRealTime ==
  /\ pos <= segmentStart + RATE * epoch
  /\ segmentStart >= tailStart => pos >= tailStart

\* Pushes follow one another without a gap, except from the end to the tail, and none is
\* longer than the time since the one before.
PlaysInOrder == [][chunk' # chunk =>
  /\ chunk'.from # chunk.to => chunk.to = LENGTH /\ chunk'.from = tailStart
  /\ chunk'.to - chunk'.from <= RATE * (age' - age)]_vars
=============================================================================
