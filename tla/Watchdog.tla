------------------------------ MODULE Watchdog ------------------------------
(***************************************************************************)
(* The watchdog of the background loops (health/watchdog.ts) and the       *)
(* alerts it sends (alerts.ts).  Every half minute it looks at the loops   *)
(* in turn; one that has not beaten for three intervals is restarted, and  *)
(* at the third time the process exits and its container starts it anew.   *)
(* An alert that was delivered is not sent again for an hour.              *)
(***************************************************************************)
EXTENDS Naturals, FiniteSets

CONSTANTS Loops,      \* 1, 2, ... in the order they were registered
          MAX_EXITS   \* bound: exits of the process

Rungs == {"restart", "exit"}
Kinds == Loops \X Rungs  \* the dedup key; the attempt's number is a digit and drops out

VARIABLES
  wedged,   \* loops that do not beat
  overdue,  \* loops whose last beat is three intervals back
  strikes,  \* strikes[l]
  leaving,  \* the loop the process is about to exit for, 0: none
  sending,  \* alerts on their way
  sent,     \* lastSent: alerts remembered as delivered within the hour
  failed,   \* alerts that did not get through when last tried (history)
  exits

vars == <<wedged, overdue, strikes, leaving, sending, sent, failed, exits>>

TypeOK ==
  /\ wedged \subseteq Loops /\ overdue \subseteq Loops /\ strikes \in [Loops -> 0..2]
  /\ leaving \in Loops \cup {0} /\ sending \in SUBSET Kinds /\ sent \in SUBSET Kinds
  /\ failed \in SUBSET Kinds /\ exits \in 0..MAX_EXITS

Init ==
  /\ wedged = {} /\ overdue = {} /\ strikes = [l \in Loops |-> 0] /\ leaving = 0
  /\ sending = {} /\ sent = {} /\ failed = {} /\ exits = 0

-----------------------------------------------------------------------------
\* A loop's tick: the beat clears its strikes.
Beat(l) == /\ l \notin wedged
           /\ overdue' = overdue \ {l} /\ strikes' = [strikes EXCEPT ![l] = 0]
           /\ UNCHANGED <<wedged, leaving, sending, sent, failed, exits>>

\* sendAlert: those that were delivered within the hour are left out.
Alert(kinds) == sending' = sending \cup (kinds \ sent)

\* Mutant: a loop has one restart more.
Spent_OneLate(l) == strikes[l] = 3
Spent(l) == strikes[l] = 2

\* Mutants: a restart costs no strike; the alerts of a loop share one window.
Struck_Forgets(l) == strikes[l]
ExitKind_Shared == "restart"

Struck(l) == strikes[l] + 1
ExitKind == "exit"

\* A tick of the watchdog: loops that are overdue are struck and restarted, each with a
\* full window to beat again, up to the first that was restarted twice in vain; for that
\* one the process exits, once its alert had five seconds.
Tick(cured) ==
  LET spent == {l \in overdue : Spent(l)}
      first == IF spent = {} THEN 0 ELSE CHOOSE l \in spent : \A k \in spent : l <= k
      hit   == {l \in overdue \ spent : first = 0 \/ l < first}
  IN /\ leaving = 0 /\ cured \subseteq hit /\ overdue # {}
     /\ strikes' = [l \in Loops |-> IF l \in hit THEN Struck(l) ELSE strikes[l]]
     /\ overdue' = overdue \ hit /\ wedged' = wedged \ cured /\ leaving' = first
     /\ Alert({<<l, "restart">> : l \in hit}
              \cup IF first = 0 THEN {} ELSE {<<first, ExitKind>>})
     /\ UNCHANGED <<sent, failed, exits>>

\* The exit; the container starts a process that remembers nothing.
Exit == /\ leaving # 0 /\ exits < MAX_EXITS /\ exits' = exits + 1
        /\ wedged' = {} /\ overdue' = {} /\ strikes' = [l \in Loops |-> 0] /\ leaving' = 0
        /\ sending' = {} /\ sent' = {} /\ failed' = {}

\* An alert gets through and is remembered, or does not and is tried when it is due again.
Remembered(k, ok) == sent' = IF ok THEN sent \cup {k} ELSE sent
Arrive(k, ok) ==
  /\ k \in sending /\ sending' = sending \ {k} /\ Remembered(k, ok)
  /\ failed' = IF ok THEN failed \ {k} ELSE failed \cup {k}
  /\ UNCHANGED <<wedged, overdue, strikes, leaving, exits>>

\* A loop wedges; three of its intervals pass; the hour of an alert passes (not in
\* the five seconds of an exit).
Wedge(l) == /\ l \notin wedged /\ wedged' = wedged \cup {l}
            /\ UNCHANGED <<overdue, strikes, leaving, sending, sent, failed, exits>>
Late(l) == /\ l \in wedged \ overdue /\ overdue' = overdue \cup {l}
           /\ UNCHANGED <<wedged, strikes, leaving, sending, sent, failed, exits>>
Hour(k) == /\ k \in sent /\ leaving = 0 /\ sent' = sent \ {k}
           /\ UNCHANGED <<wedged, overdue, strikes, leaving, sending, failed, exits>>

Next == \/ Exit \/ \E c \in SUBSET Loops : Tick(c)
        \/ \E l \in Loops : Beat(l) \/ Wedge(l) \/ Late(l)
        \/ \E k \in Kinds : Hour(k) \/ \E ok \in BOOLEAN : Arrive(k, ok)

\* The watchdog's timer goes on, loops that run beat, time passes.
Fairness == /\ WF_vars(\E c \in SUBSET Loops : Tick(c)) /\ WF_vars(Exit)
            /\ \A l \in Loops : WF_vars(Beat(l)) /\ WF_vars(Late(l))
Spec == Init /\ [][Next]_vars /\ Fairness

-----------------------------------------------------------------------------
\* The process never exits silently: its exit was told, is being told, or could not be;
\* no alert of another loop or of the loop's own restarts hides it (watchdog.ts:11-19).
ExitIsTold == leaving # 0 => <<leaving, "exit">> \in sending \cup sent \cup failed

\* A loop that wedges is set going again, by its restart or by the exit, whatever the
\* other loops do (within the bound on exits).
WedgeIsCured == \A l \in Loops : []<>(l \notin wedged \/ exits = MAX_EXITS)
=============================================================================
