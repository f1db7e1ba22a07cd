-------------------------------- MODULE Jobs --------------------------------
(***************************************************************************)
(* The schedulers of the guide and of the lineup (epg/scheduler.ts,        *)
(* ingest/scheduler.ts) and the mutex of their memory-heavy jobs           *)
(* (scheduler/bigjob.ts).  A scheduler is a timer that a tick re-arms when *)
(* it is done.  The watchdog re-arms the timer of one whose tick takes too *)
(* long, so ticks of one loop overlap; a flag per job keeps its runs apart.*)
(* Reading a setting or a due time is one turn of the event loop.  The     *)
(* check after boot, a tick that arms no timer, is left out.               *)
(***************************************************************************)
EXTENDS Naturals, FiniteSets

CONSTANTS Runs,  \* ticks that may be in progress at once
          None   \* no tick, or a promise that is settled

Schedulers == {"epg", "sync"}
Jobs  == {"epg", "lineup", "vod"}

\* The jobs a tick of each loop considers, in their order.
Order == [epg |-> <<"epg">>, sync |-> <<"lineup", "vod">>]
LoopOf(j) == IF j = "epg" THEN "epg" ELSE "sync"
After(j)  == IF j = "lineup" THEN <<"vod">> ELSE <<>>

VARIABLES
  armed,    \* armed[l]: the loop's timer is set
  onRun,    \* onRun[j]: the job's `running` flag
  due,      \* due[j]: its interval has passed since it last succeeded
  job,      \* job[r]: what tick r is busy with, None: there is no such tick
  doing,    \* doing[r]: "queued" for the mutex, "runs", or the work "after" the job
  pred,     \* pred[r]: the promise its job is chained to, None: settled
  chain     \* the promise the next job will be chained to

vars == <<armed, onRun, due, job, doing, pred, chain>>

TypeOK ==
  /\ armed \in [Schedulers -> BOOLEAN] /\ onRun \in [Jobs -> BOOLEAN]
  /\ due \in [Jobs -> BOOLEAN] /\ job \in [Runs -> Jobs \cup {None}]
  /\ doing \in [Runs -> {"none", "queued", "runs", "after"}]
  /\ pred \in [Runs -> Runs \cup {None}] /\ chain \in Runs \cup {None}

Init ==
  /\ armed = [l \in Schedulers |-> TRUE] /\ onRun = [j \in Jobs |-> FALSE]
  /\ due = [j \in Jobs |-> TRUE] /\ job = [r \in Runs |-> None]
  /\ doing = [r \in Runs |-> "none"] /\ pred = [r \in Runs |-> None] /\ chain = None

-----------------------------------------------------------------------------
\* Mutant: the chain is not moved on.
Enqueue_Unchained(r) == pred' = [pred EXCEPT ![r] = chain] /\ UNCHANGED chain

\* withBigJob: the job runs when the one before it has settled; it is what the next
\* one will wait for.
Enqueue(r) == pred' = [pred EXCEPT ![r] = chain] /\ chain' = r

\* Mutant: a job that runs already is started again.
Proceeds_Anyway(r, l, list, flags) ==
  LET open == {i \in DOMAIN list : due[list[i]]}
  IN IF open = {}
       THEN /\ job' = [job EXCEPT ![r] = None] /\ doing' = [doing EXCEPT ![r] = "none"]
            /\ onRun' = flags /\ armed' = [armed EXCEPT ![l] = TRUE]
            /\ UNCHANGED <<pred, chain>>
       ELSE LET j == list[CHOOSE i \in open : \A k \in open : i <= k]
            IN /\ job' = [job EXCEPT ![r] = j] /\ doing' = [doing EXCEPT ![r] = "queued"]
               /\ onRun' = [flags EXCEPT ![j] = TRUE] /\ Enqueue(r)
               /\ armed' = [armed EXCEPT ![l] = @ /\ job[r] # None]

\* A tick takes up the first job that is due and not running; with none left it ends
\* and arms the timer.  flags: the `running` flags as it finds them.
Proceeds(r, l, list, flags) ==
  LET open == {i \in DOMAIN list : due[list[i]] /\ ~flags[list[i]]}
  IN IF open = {}
       THEN /\ job' = [job EXCEPT ![r] = None] /\ doing' = [doing EXCEPT ![r] = "none"]
            /\ onRun' = flags /\ armed' = [armed EXCEPT ![l] = TRUE]
            /\ UNCHANGED <<pred, chain>>
       ELSE LET j == list[CHOOSE i \in open : \A k \in open : i <= k]
            IN /\ job' = [job EXCEPT ![r] = j] /\ doing' = [doing EXCEPT ![r] = "queued"]
               /\ onRun' = [flags EXCEPT ![j] = TRUE] /\ Enqueue(r)
               /\ armed' = [armed EXCEPT ![l] = @ /\ job[r] # None]

\* Ticks have no names: a new one takes the first that is free.
Free(r) == job[r] = None /\ r = CHOOSE q \in Runs : job[q] = None

\* The timer fires.
Tick(l, r) ==
  /\ armed[l] /\ Free(r)
  /\ Proceeds(r, l, Order[l], onRun)
  /\ UNCHANGED due

\* The mutex is free for r's job.
Start(r) ==
  /\ doing[r] = "queued" /\ pred[r] = None
  /\ doing' = [doing EXCEPT ![r] = "runs"]
  /\ UNCHANGED <<armed, onRun, due, job, pred, chain>>

\* Mutant: a job that throws leaves the chain behind it.
Settled_IfOk(r, ok) ==
  IF ok THEN /\ pred' = [q \in Runs |-> IF pred[q] = r THEN None ELSE pred[q]]
             /\ chain' = IF chain = r THEN None ELSE chain
        ELSE UNCHANGED <<pred, chain>>

\* The job ends, well or badly: the chain goes on either way.
Settled(r, ok) ==
  /\ pred' = [q \in Runs |-> IF pred[q] = r THEN None ELSE pred[q]]
  /\ chain' = IF chain = r THEN None ELSE chain

\* A guide refresh or lineup sync that succeeds is no longer due, one that failed stays
\* due and nothing comes after it but the `finally`.  The VOD pass goes on to the library
\* either way.
Ends(r, ok) ==
  /\ doing[r] = "runs"
  /\ doing' = [doing EXCEPT ![r] = "after"]
  /\ due' = [due EXCEPT ![job[r]] = @ /\ (~ok \/ job[r] = "vod")]
  /\ Settled(r, ok)
  /\ UNCHANGED <<armed, onRun, job>>

\* The downstream push and the convergence ladder, whose errors are caught, or the
\* library are through.  A library that could not be rebuilt leaves the VOD pass due.
Finish(r, ok) ==
  /\ doing[r] = "after"
  /\ due' = [due EXCEPT ![job[r]] = @ /\ (~ok \/ job[r] # "vod")]
  /\ LET j == job[r]
     IN Proceeds(r, LoopOf(j), After(j), [onRun EXCEPT ![j] = FALSE])

\* The watchdog finds no beat for three intervals: the timer is not armed because a tick
\* is still busy.  stop() and start() arm it again; the busy tick goes on.
Restart(l) ==
  /\ ~armed[l]
  /\ armed' = [armed EXCEPT ![l] = TRUE]
  /\ UNCHANGED <<onRun, due, job, doing, pred, chain>>

\* The interval of job j has passed.
Due(j) == /\ ~due[j] /\ due' = [due EXCEPT ![j] = TRUE]
          /\ UNCHANGED <<armed, onRun, job, doing, pred, chain>>

Next == \/ \E l \in Schedulers : Restart(l) \/ \E r \in Runs : Tick(l, r)
        \/ \E r \in Runs : \/ Start(r)
                           \/ \E ok \in BOOLEAN : Ends(r, ok) \/ Finish(r, ok)
        \/ \E j \in Jobs : Due(j)

\* Timers fire and jobs end: their fetches have time limits.
Fairness ==
  /\ \A l \in Schedulers : WF_vars(\E r \in Runs : Tick(l, r))
  /\ \A r \in Runs : /\ WF_vars(Start(r))
                     /\ WF_vars(\E ok \in BOOLEAN : Ends(r, ok))
                     /\ WF_vars(\E ok \in BOOLEAN : Finish(r, ok))
Spec == Init /\ [][Next]_vars /\ Fairness

-----------------------------------------------------------------------------
\* Of the memory-heavy jobs one at a time runs, in the order they were queued
\* (bigjob.ts:17); of each job there is at most one run, although a watchdog restart
\* lets ticks overlap; and no loop dies: its timer is armed or a tick of it, which will
\* arm it, is busy.
OneBigJob ==
  /\ Cardinality({r \in Runs : doing[r] = "runs"}) <= 1
  /\ \A j \in Jobs : Cardinality({r \in Runs : job[r] = j}) = IF onRun[j] THEN 1 ELSE 0
  /\ \A l \in Schedulers : armed[l] \/ \E r \in Runs : job[r] # None /\ LoopOf(job[r]) = l

\* Whatever is due gets its turn, again and again until it succeeds: no job that fails, no
\* long one and no restart of its loop keeps it from running.
DueIsRun == \A j \in Jobs :
  []<>(~due[j] \/ \E r \in Runs : job[r] = j /\ doing[r] = "runs")
=============================================================================
