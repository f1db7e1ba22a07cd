-------------------------------- MODULE Jitter --------------------------------
(***************************************************************************)
(* JitterBuffer (src/proxy/jitter.ts): bursts in, a steady rate out, with  *)
(* a proportional controller that holds a target depth.                    *)
(*                                                                         *)
(* Time is the drain tick.  Amounts that the code keeps as fractions of a  *)
(* byte are integers in units of 1 / UNIT byte.                            *)
(***************************************************************************)
EXTENDS Integers, Sequences

CONSTANTS HIST,        \* ticks of the rate window (histLen)
          TARGET,      \* targetMs, in ticks
          Bursts,      \* sizes of what may arrive between two ticks
          MAX_PUSHED   \* bound: bytes pushed in all

\* Divisible by whatever the window and the controller divide by (HIST up to 4).
UNIT == 240 * TARGET

VARIABLES
  buffered,      \* bytes held
  primed,
  sincePush,   \* ticks since firstPushAt, -1 when unset
  window,      \* windowBytes
  hist,        \* bytes of the last ticks, oldest first
  carry,       \* in units
  pushed, emitted,   \* history: bytes in all, bytes of the last tick
  quiet        \* nothing is pushed any more

vars == <<buffered, primed, sincePush, window, hist, carry, pushed, emitted, quiet>>

TypeOK == /\ buffered \in Nat /\ window \in Nat /\ pushed \in 0 .. MAX_PUSHED
          /\ primed \in BOOLEAN /\ quiet \in BOOLEAN
          /\ sincePush \in -1 .. TARGET
          /\ Len(hist) <= HIST

Init == /\ buffered = 0 /\ primed = FALSE /\ sincePush = -1 /\ window = 0 /\ hist = << >>
        /\ carry = 0 /\ pushed = 0 /\ emitted = 0 /\ quiet = FALSE

Lesser(a, b)  == IF a < b THEN a ELSE b
Greater(a, b) == IF a > b THEN a ELSE b
Total[s \in Seq(Nat)] == IF s = << >> THEN 0 ELSE Head(s) + Total[Tail(s)]

-----------------------------------------------------------------------------
Push(n) == /\ ~quiet /\ pushed + n <= MAX_PUSHED
           /\ buffered' = buffered + n /\ window' = window + n /\ pushed' = pushed + n
           /\ sincePush' = IF sincePush = -1 THEN 0 ELSE sincePush
           /\ UNCHANGED <<primed, hist, carry, emitted, quiet>>

Sampled == IF Len(hist) < HIST THEN Append(hist, window) ELSE Append(Tail(hist), window)

\* Mean input of a tick, over the window; units.
Rate(h) == (Total[h] * UNIT) \div Len(h)

\* rate * factor, factor = 1 + (buffered - target) / (2 target) clamped to [1/2, 2].
Steered(r) == IF r = 0 THEN 0
  ELSE Lesser(2 * r, Greater(r \div 2, r + (buffered * UNIT - r * TARGET) \div (2 * TARGET)))

\* A tenth of what is held beyond twice the target.
Bleed(r) == Greater(0, buffered * UNIT - 2 * r * TARGET) \div 10

Budget(r) == Steered(r) + carry + Bleed(r)

\* Mutant: a budget of less than a byte is forgotten.
Owed_Lost(b, sent) == IF b < UNIT THEN 0 ELSE b - sent * UNIT

Owed(b, sent) == b - sent * UNIT

Tick == LET r   == Rate(Sampled)
            now == primed \/ (sincePush # -1 /\ sincePush >= TARGET /\ buffered > 0)
            b   == Budget(r)
            n   == IF now /\ buffered > 0 THEN Lesser(buffered, b \div UNIT) ELSE 0
        IN  /\ hist' = Sampled /\ window' = 0
            /\ sincePush' = IF sincePush = -1 THEN -1 ELSE Lesser(TARGET, sincePush + 1)
            /\ primed' = now
            /\ buffered' = buffered - n /\ emitted' = n
            /\ carry' = IF now /\ buffered > 0 THEN Owed(b, n) ELSE carry
            /\ UNCHANGED <<pushed, quiet>>

\* flush at the end of a source emits what is held; reset on failover drops it.
Empties == /\ buffered' = 0 /\ carry' = 0 /\ primed' = FALSE /\ sincePush' = -1
           /\ window' \in {window, 0}
           /\ UNCHANGED <<hist, pushed, emitted, quiet>>

SourceStops == ~quiet /\ quiet' = TRUE
               /\ UNCHANGED <<buffered, primed, sincePush, window, hist, carry, pushed, emitted>>

Next == (\E n \in Bursts : Push(n)) \/ Tick \/ Empties \/ SourceStops

\* The drain timer fires.
Fairness == WF_vars(buffered > 0 /\ Tick)

Spec     == Init /\ [][Next]_vars
FairSpec == Spec /\ Fairness

-----------------------------------------------------------------------------
\* Nothing stays behind when the source falls silent for good: the rate decays to
\* zero and the last bytes are still paced out.
SilentSourceDrains == quiet ~> buffered = 0
===============================================================================
