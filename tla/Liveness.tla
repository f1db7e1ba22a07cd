------------------------------ MODULE Liveness ------------------------------
(***************************************************************************)
(* Channels backed by a broadcaster (health/liveness.ts): every three      *)
(* minutes the service is asked who is on air, streams are marked live or  *)
(* dead, the channel's "live now" line is set, and a change is pushed to   *)
(* the media servers ten seconds later.  A poll reads the streams, waits   *)
(* for one answer after the other, and writes in one turn; a slow poll and *)
(* its successor overlap.  Both logins here are sources of one channel.    *)
(***************************************************************************)
EXTENDS Naturals

CONSTANTS Logins,   \* the logins 1, 2, ... in the order of their streams
          Titles,   \* what a broadcast can be called
          Polls,    \* polls that may be under way at once
          Off,      \* off air, no line
          Silent,   \* no answer
          None,     \* no push in flight
          MAX_EDITS \* bound: broadcasts that begin, end or are renamed

VARIABLES
  air,       \* air[l]: what login l broadcasts
  live,      \* live[l]: its stream is marked live
  customNow, \* the channel's line
  at,        \* at[p]: the login poll p asks for next, 0: there is no such poll
  found,     \* found[p]: the marks it read when it began
  said,      \* said[p]: the answers it has
  pushTimer, \* a push is due in ten seconds
  push,      \* the line that the push in flight read
  shown,     \* what the media server shows
  missed,    \* the last push that was due found one in flight and was not made
  was,       \* was[l]: on air or off, as it has been so far
  edits

vars == <<air, live, customNow, at, found, said, pushTimer, push, shown, missed,
          was, edits>>
world == <<air, was, edits>>
polls == <<at, found, said>>
pushes == <<pushTimer, push, shown, missed>>

States == Titles \cup {Off}
TypeOK ==
  /\ air \in [Logins -> States] /\ live \in [Logins -> BOOLEAN] /\ customNow \in States
  /\ at \in [Polls -> Logins \cup {0}] /\ found \in [Polls -> [Logins -> BOOLEAN]]
  /\ said \in [Polls -> [Logins -> States \cup {Silent}]] /\ pushTimer \in BOOLEAN
  /\ push \in States \cup {None} /\ shown \in States /\ missed \in BOOLEAN
  /\ was \in [Logins -> SUBSET BOOLEAN] /\ edits \in 0..MAX_EDITS

Unasked == [l \in Logins |-> Silent]
Unread == [l \in Logins |-> FALSE]
Init ==
  /\ air \in [Logins -> {Off, CHOOSE t \in Titles : TRUE}]
  /\ live = [l \in Logins |-> air[l] # Off] /\ was = [l \in Logins |-> {live[l]}]
  /\ customNow = Off /\ at = [p \in Polls |-> 0] /\ found = [p \in Polls |-> Unread]
  /\ said = [p \in Polls |-> Unasked] /\ pushTimer = FALSE /\ push = None /\ shown = Off
  /\ missed = FALSE /\ edits = 0

-----------------------------------------------------------------------------
\* A poll begins: it reads the streams.
Tick(p) == /\ at[p] = 0 /\ at' = [at EXCEPT ![p] = 1] /\ found' = [found EXCEPT ![p] = live]
           /\ UNCHANGED <<said, live, customNow, pushes, world>>

\* Mutant: no answer counts as off the air.
Unanswered_Off == Off

\* The next chunk is answered, or not: nothing is recorded then.
Unanswered == Silent
Heard(p, answer) == /\ said' = [said EXCEPT ![p][at[p]] = answer]
                    /\ at' = [at EXCEPT ![p] = @ + 1]
Ask(p, ok) ==
  /\ at[p] # 0 /\ at[p] + 1 \in Logins
  /\ Heard(p, IF ok THEN air[at[p]] ELSE Unanswered)
  /\ UNCHANGED <<found, live, customNow, pushes, world>>

\* The last one is, and everything is written: marks that differ from what the poll
\* read, and the line, which the last login that was answered for decides.
Answers(p, last) == [said[p] EXCEPT ![at[p]] = last]
Known(a) == {l \in Logins : a[l] # Silent}

\* Mutant: what goes live is not marked.
Marked_Unread(p, a) == [l \in Logins |-> IF l \in Known(a) /\ found[p][l] THEN a[l] # Off
                                                                      ELSE live[l]]

Marked(p, a) == [l \in Logins |-> IF l \in Known(a) /\ found[p][l] # (a[l] # Off)
                                    THEN a[l] # Off ELSE live[l]]
Line(a) == IF Known(a) = {} THEN customNow
           ELSE a[CHOOSE l \in Known(a) : \A k \in Known(a) : k <= l]

\* Mutant: a change of the line alone is not pushed.
Changed_Marks(p, a) == \E l \in Known(a) : found[p][l] # (a[l] # Off)

Changed(p, a) == \/ \E l \in Known(a) : found[p][l] # (a[l] # Off)
                 \/ Line(a) # customNow
Settle(p, ok) ==
  /\ at[p] # 0 /\ at[p] + 1 \notin Logins
  /\ LET a == Answers(p, IF ok THEN air[at[p]] ELSE Unanswered)
     IN /\ live' = Marked(p, a) /\ customNow' = Line(a)
        /\ pushTimer' = (pushTimer \/ Changed(p, a))
  /\ at' = [at EXCEPT ![p] = 0] /\ found' = [found EXCEPT ![p] = Unread]
  /\ said' = [said EXCEPT ![p] = Unasked]
  /\ UNCHANGED <<push, shown, missed, world>>

\* The push timer fires: the push reads the line, but a server that is being pushed to
\* is left out.  The guide's own cycle pushes every six hours.
Begins == IF push = None THEN push' = customNow /\ missed' = FALSE
                         ELSE missed' = TRUE /\ UNCHANGED push
Fire == /\ pushTimer /\ pushTimer' = FALSE /\ Begins
        /\ UNCHANGED <<shown, live, customNow, polls, world>>
Cycle == /\ push = None /\ Begins
         /\ UNCHANGED <<pushTimer, shown, live, customNow, polls, world>>
Pushed == /\ push # None /\ shown' = push /\ push' = None
          /\ UNCHANGED <<pushTimer, missed, live, customNow, polls, world>>

\* A broadcast begins, ends or gets another title.
Air(l, t) == /\ edits < MAX_EDITS /\ edits' = edits + 1 /\ t # air[l]
             /\ air' = [air EXCEPT ![l] = t] /\ was' = [was EXCEPT ![l] = @ \cup {t # Off}]
             /\ UNCHANGED <<live, customNow, polls, pushes>>

Next == \/ \E p \in Polls : Tick(p) \/ \E ok \in BOOLEAN : Ask(p, ok) \/ Settle(p, ok)
        \/ Fire \/ Cycle \/ Pushed \/ \E l \in Logins : \E t \in States : Air(l, t)

\* Polls recur, requests end and not all of them fail; pushes are made and end.
Fairness ==
  /\ \A p \in Polls :
       WF_vars(Tick(p)) /\ WF_vars(\E ok \in BOOLEAN : Ask(p, ok) \/ Settle(p, ok))
  /\ \A l \in Logins :
       SF_vars(\E p \in Polls : at[p] = l /\ (Ask(p, TRUE) \/ Settle(p, TRUE)))
  /\ WF_vars(Fire) /\ WF_vars(Pushed)
Spec == Init /\ [][Next]_vars /\ Fairness

-----------------------------------------------------------------------------
\* "A network blip: say nothing rather than declare everyone offline" (liveness.ts:81): a
\* stream is marked only as its login has been.  And no change of the line is lost: what
\* Emby does not show has a push due or in flight, or was left out of one for the push
\* that was in flight then.
MarksAreHeard ==
  /\ \A l \in Logins : live[l] \in was[l]
  /\ customNow = shown \/ pushTimer \/ push # None \/ missed

\* The marks follow the broadcasts, although polls overlap, answers fail, and a mark may
\* be written by a poll that heard and read something older.
LivenessFollows == \A l \in Logins : <>[](live[l] = (air[l] # Off))
=============================================================================
