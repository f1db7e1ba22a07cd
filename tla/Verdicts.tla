------------------------------ MODULE Verdicts ------------------------------
(***************************************************************************)
(* The health verdict of a provider (health/verdict.ts): the probe loop    *)
(* collects outcomes and folds them into the verdict every ten minutes     *)
(* (health/probe.ts).  One provider; verdicts do not mix.  A round is one  *)
(* step; the rounds are kept to say what the verdict should be.            *)
(***************************************************************************)
EXTENDS Naturals, Sequences

CONSTANTS MIN_PROBED,
          MAX_PROBES,  \* bound: outcomes per round
          MAX_ROUNDS   \* bound: rounds that are recorded

VARIABLES
  verdict, cleanRounds,
  rounds       \* the class of each round that had enough samples (history)

vars == <<verdict, cleanRounds, rounds>>

Classes == {"few", "down", "degraded", "unclear", "clean"}
TypeOK ==
  /\ verdict \in {"healthy", "degraded", "down"}
  /\ cleanRounds \in 0..1 /\ rounds \in Seq(Classes \ {"few"}) /\ Len(rounds) <= MAX_ROUNDS

Init == verdict = "healthy" /\ cleanRounds = 0 /\ rounds = <<>>

-----------------------------------------------------------------------------
\* The thresholds of a round: 100 %, 80 %, 50 %.
Class(probed, fails) ==
         IF probed < MIN_PROBED THEN "few" ELSE
         IF fails = probed THEN "down" ELSE
         IF 5 * fails >= 4 * probed THEN "degraded" ELSE
         IF 2 * fails < probed THEN "clean" ELSE "unclear"

\* updateVerdicts: <<verdict, clean rounds>> after a round of class k.
Recovery == IF cleanRounds = 1 THEN <<"healthy", 0>> ELSE <<verdict, 1>>

\* Mutant: an unclear round keeps the clean one before it.
Folded_Banked(k) ==
  CASE k \in {"down", "degraded"} -> <<k, 0>>
    [] k = "clean" /\ verdict # "healthy" -> Recovery
    [] OTHER -> <<verdict, cleanRounds>>

Folded(k) ==
  CASE k \in {"down", "degraded"} -> <<k, 0>>
    [] k = "clean" /\ verdict # "healthy" -> Recovery
    [] k = "unclear" -> <<verdict, 0>>
    [] OTHER -> <<verdict, cleanRounds>>

\* flushVerdictsIfDue: a round ends in which some probes had a measured result; its
\* outcomes are forgotten.
Round(probed, fails) ==
  LET k == Class(probed, fails) IN
  /\ verdict' = Folded(k)[1] /\ cleanRounds' = Folded(k)[2]
  /\ rounds' = IF k # "few" /\ Len(rounds) < MAX_ROUNDS THEN Append(rounds, k) ELSE rounds
Rounds == \E p \in 1..MAX_PROBES : \E f \in 0..p : Round(p, f)

\* A restart of the program, or _resetVerdicts.
Reset == /\ verdict' = "healthy" /\ cleanRounds' = 0 /\ rounds' = <<>>

Next == Rounds \/ Reset
Spec == Init /\ [][Next]_vars

-----------------------------------------------------------------------------
\* What the header of verdict.ts says of the rounds so far: the last bad round decides,
\* unless two clean ones followed each other after it; rounds with few samples count for
\* nothing.
Bad == {i \in DOMAIN rounds : rounds[i] \in {"down", "degraded"}}
Earned ==
  IF Bad = {} THEN "healthy"
  ELSE LET b == CHOOSE i \in Bad : \A k \in Bad : k <= i
       IN IF \E i \in b + 1..Len(rounds) - 1 : rounds[i] = "clean" /\ rounds[i + 1] = "clean"
            THEN "healthy" ELSE rounds[b]

\* The verdict, kept by one state and one counter, is the one the rounds earned: no
\* progress towards recovery is banked across a round that was not clean
\* (verdict.ts:33-39), and none is lost to one that did not count.
VerdictIsEarned == Len(rounds) < MAX_ROUNDS => verdict = Earned
=============================================================================
