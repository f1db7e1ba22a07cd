------------------------------ MODULE Episodes ------------------------------
(***************************************************************************)
(* The cached episode list of one series (ingest/vod.ts) and two that      *)
(* refresh and read it on their own: the .strm mirror of the show          *)
(* (ingest/vodlibrary.ts) and the grabs that Sonarr drops into the watch   *)
(* folder (ingest/blackhole.ts).  A fetch is a wait: the other may have    *)
(* replaced the list when the answer is applied.                           *)
(***************************************************************************)
EXTENDS Naturals, FiniteSets

CONSTANTS Eps,
          Grabs, EpisodeOf,  \* files in the watch folder, and the episode each wants
          MAX_ATTEMPTS,
          MAX_NOW            \* bound: moments an episode can be first seen at

Readers  == {"library", "grabs"}
NoAnswer == {0}              \* no list of episodes, which are 1, 2, ...: the request failed

VARIABLES
  aired,      \* the provider's list
  firstSeen,  \* firstSeen[e]: when the cached episode was first seen, 0 if not cached
  cacheAge,   \* of the list: 0 under a minute, 1, or 2 older than the refresh interval
  now,
  fetch,      \* fetch[r]: "idle", "waits" for the provider, "has" an answer
  answer,
  strms,      \* episodes mirrored in the show's folder
  nzb,        \* nzb[g]: "none", "waiting", "done" (its .strm is handed over) or "error"
  attempts,   \* attempts[g]: failed tries
  grabbing    \* the file the watcher is busy with, or none

vars == <<aired, firstSeen, cacheAge, now, fetch, answer, strms, nzb, attempts, grabbing>>

Cached == {e \in Eps : firstSeen[e] # 0}

TypeOK ==
  /\ aired \subseteq Eps /\ firstSeen \in [Eps -> 0..MAX_NOW] /\ now \in 1..MAX_NOW
  /\ cacheAge \in 0..2 /\ fetch \in [Readers -> {"idle", "waits", "has"}]
  /\ answer \in [Readers -> (SUBSET Eps) \cup {NoAnswer}] /\ strms \subseteq Eps
  /\ nzb \in [Grabs -> {"none", "waiting", "done", "error"}]
  /\ attempts \in [Grabs -> 0..MAX_ATTEMPTS] /\ grabbing \subseteq Grabs

Init ==
  /\ aired = {} /\ firstSeen = [e \in Eps |-> 0] /\ cacheAge = 2 /\ now = 1
  /\ fetch = [r \in Readers |-> "idle"] /\ answer = [r \in Readers |-> {}]
  /\ strms = {} /\ nzb = [g \in Grabs |-> "none"] /\ attempts = [g \in Grabs |-> 0]
  /\ grabbing = {}

-----------------------------------------------------------------------------
\* The provider answers: its list, a body without episodes, or not at all.
Answer(r, a) ==
  /\ fetch[r] = "waits"
  /\ fetch' = [fetch EXCEPT ![r] = "has"] /\ answer' = [answer EXCEPT ![r] = a]
  /\ UNCHANGED <<aired, firstSeen, cacheAge, now, strms, nzb, attempts, grabbing>>

\* Mutant: an empty body replaces the cache.
Stored_Any(a) ==
  IF a = NoAnswer THEN UNCHANGED <<firstSeen, cacheAge>>
  ELSE /\ firstSeen' = [e \in Eps |-> IF e \notin a THEN 0
                                      ELSE IF firstSeen[e] # 0 THEN firstSeen[e] ELSE now]
       /\ cacheAge' = 0

\* The answer replaces the list, in one turn of the event loop.  What was cached keeps
\* the moment it was first seen; a list without episodes replaces none that has some,
\* and leaves the age, so the next call tries again.
Stored(a) ==
  IF a = NoAnswer \/ (a = {} /\ Cached # {}) THEN UNCHANGED <<firstSeen, cacheAge>>
  ELSE /\ firstSeen' = [e \in Eps |-> IF e \notin a THEN 0
                                      ELSE IF firstSeen[e] # 0 THEN firstSeen[e] ELSE now]
       /\ cacheAge' = 0

Released(r) == /\ fetch' = [fetch EXCEPT ![r] = "idle"]
               /\ answer' = [answer EXCEPT ![r] = {}]

-----------------------------------------------------------------------------
\* The mirror reaches the show: an old list is fetched again first.
LibraryAsks ==
  /\ fetch["library"] = "idle" /\ cacheAge = 2
  /\ fetch' = [fetch EXCEPT !["library"] = "waits"]
  /\ UNCHANGED <<aired, firstSeen, cacheAge, now, answer, strms, nzb, attempts, grabbing>>

\* Mutant: files are only added.
Mirrored_Adds(cached) == strms' = strms \cup cached

\* It writes the files of the cached episodes and removes the others.
Mirrored(cached) == strms' = cached

LibraryMirrors ==
  /\ \/ fetch["library"] = "has" /\ Stored(answer["library"]) /\ Released("library")
     \/ /\ fetch["library"] = "idle" /\ cacheAge < 2
        /\ UNCHANGED <<firstSeen, cacheAge, fetch, answer>>
  /\ Mirrored({e \in Eps : firstSeen'[e] # 0})
  /\ UNCHANGED <<aired, now, nzb, attempts, grabbing>>

-----------------------------------------------------------------------------
\* The .strm goes to the folder Sonarr imports from and the nzb is deleted; a file that
\* cannot be resolved is tried again, and parked the third time.
HandsOver(g) == nzb' = [nzb EXCEPT ![g] = "done"] /\ attempts' = [attempts EXCEPT ![g] = 0]

\* Mutant: a grab without a file waits for ever.
TriesAgain_Forever(g) == UNCHANGED <<nzb, attempts>>

TriesAgain(g) ==
  IF attempts[g] + 1 >= MAX_ATTEMPTS
    THEN nzb' = [nzb EXCEPT ![g] = "error"] /\ attempts' = [attempts EXCEPT ![g] = 0]
    ELSE UNCHANGED nzb /\ attempts' = [attempts EXCEPT ![g] = @ + 1]

\* The watcher, which is never in two ticks at once, comes to a file of ours.
Take(g) ==
  /\ grabbing = {} /\ nzb[g] = "waiting"
  /\ \/ /\ EpisodeOf[g] \in Cached /\ HandsOver(g) /\ UNCHANGED <<fetch, grabbing>>
     \/ /\ EpisodeOf[g] \notin Cached /\ cacheAge = 0 /\ TriesAgain(g)
        /\ UNCHANGED <<fetch, grabbing>>
     \/ /\ EpisodeOf[g] \notin Cached /\ cacheAge > 0
        /\ grabbing' = {g} /\ fetch' = [fetch EXCEPT !["grabs"] = "waits"]
        /\ UNCHANGED <<nzb, attempts>>
  /\ UNCHANGED <<aired, firstSeen, cacheAge, now, answer, strms>>

Resolve(g) ==
  /\ grabbing = {g} /\ fetch["grabs"] = "has"
  /\ Stored(answer["grabs"]) /\ Released("grabs")
  /\ IF firstSeen'[EpisodeOf[g]] # 0 THEN HandsOver(g) ELSE TriesAgain(g)
  /\ grabbing' = {}
  /\ UNCHANGED <<aired, now, strms>>

\* Sonarr drops a grab; an episode airs or goes; time passes.
Drop(g) == /\ nzb[g] = "none" /\ nzb' = [nzb EXCEPT ![g] = "waiting"]
           /\ UNCHANGED <<aired, firstSeen, cacheAge, now, fetch, answer, strms, attempts,
                          grabbing>>
Airs(e) == /\ aired' = (aired \ {e}) \cup ({e} \ aired)
           /\ UNCHANGED <<firstSeen, cacheAge, now, fetch, answer, strms, nzb, attempts,
                          grabbing>>
Ages == /\ cacheAge < 2 /\ cacheAge' = cacheAge + 1
        /\ now' = IF now < MAX_NOW THEN now + 1 ELSE now
        /\ UNCHANGED <<aired, firstSeen, fetch, answer, strms, nzb, attempts, grabbing>>

Next == \/ \E r \in Readers : \E a \in {aired, {}, NoAnswer} : Answer(r, a)
        \/ LibraryAsks \/ LibraryMirrors \/ Ages
        \/ \E g \in Grabs : Take(g) \/ Resolve(g) \/ Drop(g)
        \/ \E e \in Eps : Airs(e)

\* The library pass and the watcher recur; requests end; some answers are good.
Fairness ==
  /\ WF_vars(LibraryAsks) /\ WF_vars(LibraryMirrors) /\ WF_vars(Ages)
  /\ \A r \in Readers : SF_vars(Answer(r, aired))
  /\ \A g \in Grabs : WF_vars(Take(g)) /\ WF_vars(Resolve(g))
Spec == Init /\ [][Next]_vars /\ Fairness

-----------------------------------------------------------------------------
\* A refresh never empties a list (vod.ts:158-162), whichever reader asked and however
\* late its answer comes, and an episode that stays keeps the moment it was first seen,
\* which the RSS feed is built on (vod.ts:128).
CacheIsKept ==
  [][/\ Cached # {} => \E e \in Eps : firstSeen'[e] # 0
     /\ \A e \in Cached : firstSeen'[e] \in {0, firstSeen[e]}]_vars

\* Every grab is handed over or parked (blackhole.ts:21); what a provider lists, or
\* takes off its list while others remain, reaches the show's folder.
GrabsSettle == \A g \in Grabs : []<>(nzb[g] # "waiting")
ShowFollows ==
  \A e \in Eps : /\ <>[](e \in aired) => <>[](e \in strms)
                 /\ <>[](aired # {} /\ e \notin aired) => <>[](e \notin strms)
=============================================================================
