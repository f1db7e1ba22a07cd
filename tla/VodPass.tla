------------------------------- MODULE VodPass -------------------------------
(***************************************************************************)
(* The seekable VOD relay (src/api/vodrange.ts): one request that holds a  *)
(* provider slot, its upstream fetch and body, and a viewer who may leave  *)
(* between any two steps.  The caller took the slot, and falls back to the *)
(* remux path when it is told so.                                          *)
(***************************************************************************)
EXTENDS Integers

VARIABLES
  method,     \* GET, HEAD, or HEAD that is probed with a one-byte range
  stage,      \* where vodPassthrough stands
  aborted,    \* the viewer is gone
  listening,  \* the abort listener is registered
  upstream,   \* the body of the upstream response
  charged     \* provider slots this request holds

vars == <<method, stage, aborted, listening, upstream, charged>>

Answers == {"served", "gone", "fallback"}

TypeOK == /\ method \in {"GET", "HEAD", "probe"}
          /\ stage \in {"called", "fetching", "answered", "refused", "relaying"} \cup Answers
          /\ aborted \in BOOLEAN /\ listening \in BOOLEAN
          /\ upstream \in {"none", "open", "cancelled", "read"}
          /\ charged \in -1 .. 1

Init == /\ method \in {"GET", "HEAD", "probe"}
        /\ stage = "called" /\ aborted \in BOOLEAN /\ listening = FALSE
        /\ upstream = "none" /\ charged = 1

\* Mutant: a release without the guard that makes it happen once.
Release_Again == charged' = charged - 1

\* release: only the first call counts.
Release == charged' = IF charged = 1 THEN 0 ELSE charged

DropBody == upstream' = IF upstream = "open" THEN "cancelled" ELSE upstream

ViewerLeaves ==
  /\ ~aborted /\ stage \notin Answers
  /\ aborted' = TRUE
  /\ IF listening THEN DropBody /\ Release ELSE UNCHANGED <<upstream, charged>>
  /\ UNCHANGED <<method, stage, listening>>

\* The signal is looked at before any work is begun.
Begins == /\ stage = "called"
          /\ IF aborted THEN stage' = "gone" /\ Release ELSE stage' = "fetching" /\ UNCHANGED charged
          /\ UNCHANGED <<method, aborted, listening, upstream>>

\* The fetch throws, also because the signal was passed to it.
FetchThrows == /\ stage = "fetching"
               /\ Release
               /\ stage' = IF aborted THEN "gone" ELSE "fallback"
               /\ UNCHANGED <<method, aborted, listening, upstream>>

\* Headers arrive, with a status that is good or not, perhaps just before the viewer
\* leaves.
HeadersArrive == /\ stage = "fetching" /\ ~aborted
                 /\ stage' \in {"answered", "refused"} /\ upstream' = "open"
                 /\ UNCHANGED <<method, aborted, listening, charged>>

\* The status is looked at before the signal.
BadStatus == /\ stage = "refused"
             /\ DropBody /\ Release
             /\ stage' = "fallback"
             /\ UNCHANGED <<method, aborted, listening>>

\* Mutant: the abort that came with the headers is not looked for.
GoneMeanwhile_Unseen == stage = "answered" /\ aborted /\ stage' = "relaying" /\ listening' = TRUE
                        /\ UNCHANGED <<method, aborted, upstream, charged>>

\* An abort listener registered now would never be called.
GoneMeanwhile == /\ stage = "answered" /\ aborted
                 /\ DropBody /\ Release
                 /\ stage' = "gone"
                 /\ UNCHANGED <<method, aborted, listening>>

HeadServed == /\ stage = "answered" /\ ~aborted /\ method # "GET"
              /\ DropBody /\ Release
              /\ stage' = "served"
              /\ UNCHANGED <<method, aborted, listening>>

Relays == /\ stage = "answered" /\ ~aborted /\ method = "GET"
          /\ stage' = "relaying" /\ listening' = TRUE
          /\ UNCHANGED <<method, aborted, upstream, charged>>

\* The body ends, fails, or its consumer cancels; a cancelled reader ends too.
BodyEnds == /\ stage = "relaying" /\ listening
            /\ \/ upstream' = IF upstream = "open" THEN "read" ELSE upstream
               \/ DropBody
            /\ Release
            /\ listening' = FALSE
            /\ stage' = "served"
            /\ UNCHANGED <<method, aborted>>

Next == \/ ViewerLeaves \/ Begins \/ FetchThrows \/ HeadersArrive \/ BadStatus
        \/ GoneMeanwhile \/ HeadServed \/ Relays \/ BodyEnds

Spec == Init /\ [][Next]_vars

-----------------------------------------------------------------------------
\* Once the viewer is gone and the relay knows it, or the request is answered,
\* its slot was returned exactly once and no upstream body is left open.
NothingLeaks ==
  /\ charged >= 0
  /\ (stage \in Answers \/ (stage = "relaying" /\ aborted)) => charged = 0 /\ upstream # "open"

\* No remux is begun for a viewer who left before the upstream answered.
NoWorkForNobody == [][stage = "fetching" /\ aborted => stage' # "fallback"]_vars
=============================================================================
