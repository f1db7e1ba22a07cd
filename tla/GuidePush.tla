----------------------------- MODULE GuidePush ------------------------------
(***************************************************************************)
(* The guide push into Emby (sync/embyguide.ts) and the plugin at the      *)
(* other end (emby-plugin/Guide/GuideWriter.cs).  Only channels whose      *)
(* programmes changed are sent, one request per chunk (here: a channel).   *)
(* A request may be lost, or its answer; what was sent and not answered is *)
(* applied before the next push or never (an assumption: a request that    *)
(* timed out may wait longer at the plugin's lock).                        *)
(***************************************************************************)
EXTENDS Naturals, FiniteSets

CONSTANTS Channels,
          MAX_K,      \* longest backoff step
          Versions,   \* programme sets of a channel, 1, 2, ...
          REVERTS     \* bound: a channel's programmes may become what they were before

VARIABLES
  content,    \* content[c]: its programmes, as guideRows computes them
  known,      \* known[c]: the fingerprint stored, 0 if none or if a marker is stored
  notFound,   \* notFound[c]: consecutive "channel not found" answers, the marker's k + 1
  waiting,    \* the marker's retry time is still ahead
  phase,      \* of the push in flight: "idle", "ping", "send"
  pending,    \* channels still to be sent, with what was read for them
  batch,
  exists,     \* channels Emby has
  shown,      \* shown[c]: the programmes Emby shows
  indexed,    \* channels in the plugin's index
  indexFresh  \* younger than a minute and not invalidated by a miss

vars == <<content, known, notFound, waiting, phase, pending, batch, exists, shown,
          indexed, indexFresh>>
emby == <<exists, shown, indexed, indexFresh>>

TypeOK ==
  /\ content \in [Channels -> Versions] /\ known \in [Channels -> Versions \cup {0}]
  /\ notFound \in [Channels -> 0..MAX_K] /\ waiting \in [Channels -> BOOLEAN]
  /\ phase \in {"idle", "ping", "send"} /\ pending \subseteq Channels
  /\ batch \in [Channels -> Versions \cup {0}] /\ exists \subseteq Channels
  /\ shown \in [Channels -> Versions \cup {0}] /\ indexed \subseteq exists
  /\ indexFresh \in BOOLEAN

Init ==
  /\ content = [c \in Channels |-> 1] /\ known = [c \in Channels |-> 0]
  /\ notFound = [c \in Channels |-> 0] /\ waiting = [c \in Channels |-> FALSE]
  /\ phase = "idle" /\ pending = {} /\ batch = [c \in Channels |-> 0]
  /\ exists = {} /\ shown = [c \in Channels |-> 0] /\ indexed = {} /\ indexFresh = FALSE

-----------------------------------------------------------------------------
\* A push begins, unless one is in flight for the server.
Begin == /\ phase = "idle" /\ phase' = "ping"
         /\ UNCHANGED <<content, known, notFound, waiting, pending, batch, emby>>

\* Without the plugin there is no push.
NoPlugin == /\ phase = "ping" /\ phase' = "idle"
            /\ UNCHANGED <<content, known, notFound, waiting, pending, batch, emby>>

\* Mutant: a marked channel is not sent again.
Unsent_Marked == {c \in Channels : notFound[c] = 0 /\ known[c] # content[c]}

\* What has to be sent: what differs from the stored fingerprint, and what was not found
\* before, once its backoff is over.
Unsent == {c \in Channels : IF notFound[c] # 0 THEN ~waiting[c] ELSE known[c] # content[c]}

Ping == /\ phase = "ping"
        /\ pending' = Unsent
        /\ batch' = [c \in Channels |-> IF c \in Unsent THEN content[c] ELSE 0]
        /\ phase' = IF Unsent = {} THEN "idle" ELSE "send"
        /\ UNCHANGED <<content, known, notFound, waiting, emby>>

Sent(c) == /\ phase = "send" /\ c \in pending
           /\ pending' = pending \ {c} /\ batch' = [batch EXCEPT ![c] = 0]
           /\ phase' = IF pending = {c} THEN "idle" ELSE "send"

\* Mutant: the index is kept when a channel is missing from it.
Index_Kept(c) == indexed' = (IF indexFresh THEN indexed ELSE exists) /\ indexFresh' = TRUE

\* The plugin looks the channel up in its index, built anew once it is old; a miss makes
\* the index be built again for the next request.
Index(c) == /\ indexed' = IF indexFresh THEN indexed ELSE exists
            /\ indexFresh' = (c \in (IF indexFresh THEN indexed ELSE exists))

\* Mutant: a chunk counts as shown whatever the answer.
Stored_Unanswered(c, answered) == known' = [known EXCEPT ![c] = batch[c]]
                                  /\ notFound' = [notFound EXCEPT ![c] = 0]

Stored(c, answered) ==
  IF answered
    THEN known' = [known EXCEPT ![c] = batch[c]] /\ notFound' = [notFound EXCEPT ![c] = 0]
    ELSE UNCHANGED <<known, notFound>>

\* The channel's programmes are written; the fingerprint is stored if the answer arrives.
Written(c, answered) ==
  /\ Sent(c) /\ Index(c) /\ c \in indexed'
  /\ shown' = [shown EXCEPT ![c] = batch[c]]
  /\ Stored(c, answered)
  /\ waiting' = [waiting EXCEPT ![c] = IF answered THEN FALSE ELSE @]
  /\ UNCHANGED <<content, exists>>

\* The plugin does not know the channel: a longer backoff each time.
Missing(c) ==
  /\ Sent(c) /\ Index(c) /\ c \notin indexed'
  /\ notFound' = [notFound EXCEPT ![c] = IF @ < MAX_K THEN @ + 1 ELSE @]
  /\ known' = [known EXCEPT ![c] = 0] /\ waiting' = [waiting EXCEPT ![c] = TRUE]
  /\ UNCHANGED <<content, exists, shown>>

\* The request is lost, or the plugin fails on this channel: nothing is stored.
Lost(c) == /\ Sent(c) /\ Stored(c, FALSE) /\ UNCHANGED <<content, waiting, emby>>

\* Programmes change; Emby gets the channel; backoff and index age.
Retitle(c) ==
  /\ \E v \in Versions \ {content[c]} :
       /\ REVERTS \/ v = content[c] + 1
       /\ content' = [content EXCEPT ![c] = v]
  /\ UNCHANGED <<known, notFound, waiting, phase, pending, batch, emby>>
Appear(c) == /\ c \notin exists /\ exists' = exists \cup {c}
             /\ UNCHANGED <<content, known, notFound, waiting, phase, pending, batch, shown,
                            indexed, indexFresh>>
Elapse(c) == /\ waiting[c] /\ waiting' = [waiting EXCEPT ![c] = FALSE]
             /\ UNCHANGED <<content, known, notFound, phase, pending, batch, emby>>
Expire == /\ indexFresh /\ indexFresh' = FALSE
          /\ UNCHANGED <<content, known, notFound, waiting, phase, pending, batch, exists,
                         shown, indexed>>

Next == \/ Begin \/ NoPlugin \/ Ping \/ Expire
        \/ \E c \in Channels : \/ (\E a \in BOOLEAN : Written(c, a)) \/ Missing(c) \/ Lost(c)
                               \/ Retitle(c) \/ Appear(c) \/ Elapse(c)

\* Pushes recur, requests end, backoffs pass, and not every request is lost.  The index
\* ages as well, but nothing here relies on when.
Fairness ==
  /\ WF_vars(Begin) /\ SF_vars(Ping)
  /\ \A c \in Channels : /\ SF_vars(Written(c, TRUE) \/ Missing(c)) /\ WF_vars(Elapse(c))
                         /\ WF_vars(Lost(c))
Spec == Init /\ [][Next]_vars /\ Fairness

-----------------------------------------------------------------------------
\* A stored fingerprint is never ahead of Emby: it stands for programmes Emby got.
\* (REVERTS = FALSE: versions are in the order of time.)
KnownWasShown == \A c \in Channels : known[c] <= shown[c]

\* The guide arrives: what a channel's programmes are for good is what Emby shows in the
\* end, once it has the channel, although requests and answers are lost, pushes are
\* skipped while one is in flight, and a channel Emby does not have is backed off from.
\* With REVERTS it fails: a chunk that was applied but not answered "keeps its old
\* fingerprints and is retried next push" (embyguide.ts:189), yet when the programmes
\* become what they were, the old fingerprint matches and nothing is sent.
GuideArrives ==
  \A c \in Channels : \A v \in Versions :
    <>[](content[c] = v) /\ []<>(c \in exists) => <>[](shown[c] = v)
=============================================================================
