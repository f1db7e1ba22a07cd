------------------------------ MODULE Supervisor ------------------------------
(***************************************************************************)
(* SupervisedProc (src/proxy/supervisor.ts): one long-running process kept *)
(* up for its owner.  restart() queues a serialized kill -> prepare ->     *)
(* spawn cycle, an unexpected exit is retried after a delay, and a process *)
(* that falls silent is restarted by a watchdog.                           *)
(*                                                                         *)
(* wanted is the owner's wantRunning(); the owner changes it at any time.  *)
(* A process sent SIGTERM ends, at the latest of the SIGKILL that follows  *)
(* 1.5 s later, and does so before killAndWait gives up.                   *)
(***************************************************************************)
EXTENDS Integers

CONSTANTS Procs,       \* operating system processes; one that is gone is reused
          None,
          MAX_RETRIES  \* bound: retry timers pending at a time

VARIABLES
  wanted,    \* wantRunning()
  stopped, queued,
  step,      \* where the running cycle is, "idle" when none runs (busy)
  old,       \* the process the cycle waits for
  cur,       \* this.proc
  state,     \* of every process
  retries, handle,   \* pending retry timers; retryTimer holds one of them
  watched,   \* the watchdog interval is set
  failed     \* history: the last cycle ended without a spawn it should have made

supVars == <<stopped, queued, step, old, cur, state, retries, handle, watched, failed>>

Live == {"up", "out", "mute"}   \* started, producing, silent for good

TypeOK == /\ wanted \in BOOLEAN
          /\ {stopped, queued, handle, watched, failed} \subseteq BOOLEAN
          /\ step \in {"idle", "killing", "preparing"}
          /\ {old, cur} \subseteq Procs \cup {None}
          /\ state \in [Procs -> Live \cup {"gone", "term"}]
          /\ retries \in 0 .. MAX_RETRIES

SupInit == /\ stopped = TRUE /\ queued = FALSE /\ step = "idle"
           /\ old = None /\ cur = None /\ state = [p \in Procs |-> "gone"]
           /\ retries = 0 /\ handle = FALSE /\ watched = FALSE /\ failed = FALSE

Pending   == queued \/ step # "idle"
Running   == cur # None
Producing == Running /\ state[cur] = "out"

Terminated(p) == IF p = None THEN state ELSE [state EXCEPT ![p] = "term"]

-----------------------------------------------------------------------------
(* The owner's calls.                                                      *)

Restart == /\ stopped' = FALSE /\ queued' = TRUE
           /\ UNCHANGED <<step, old, cur, state, retries, handle, watched, failed>>

\* Mutant: stop leaves the process to the exit handler.
Stop_KeepsProc ==
  /\ stopped' = TRUE
  /\ retries' = IF handle THEN retries - 1 ELSE retries
  /\ handle' = FALSE /\ watched' = FALSE
  /\ cur' = None
  /\ UNCHANGED <<state, queued, step, old, failed>>

Stop == /\ stopped' = TRUE
        /\ retries' = IF handle THEN retries - 1 ELSE retries
        /\ handle' = FALSE /\ watched' = FALSE
        /\ cur' = None /\ state' = Terminated(cur)
        /\ UNCHANGED <<queued, step, old, failed>>

-----------------------------------------------------------------------------
(* cycle: killAndWait, beforeSpawn, spawn.                                 *)

CycleBegins == /\ queued /\ step = "idle"
               /\ queued' = FALSE /\ step' = "killing"
               /\ old' = cur /\ cur' = None /\ state' = Terminated(cur)
               /\ UNCHANGED <<stopped, retries, handle, watched, failed>>

\* killAndWait returns: nothing to kill, or the process has exited.
Killed == /\ step = "killing"
          /\ old \in Procs => state[old] = "gone"
          /\ old' = None
          /\ step' = IF stopped \/ ~wanted THEN "idle" ELSE "preparing"
          /\ failed' = FALSE
          /\ UNCHANGED <<stopped, queued, cur, state, retries, handle, watched>>

\* beforeSpawn throws, cmd() is null or the spawn fails: no retry.
PrepareFails == /\ step = "preparing" /\ ~stopped
                /\ step' = "idle" /\ failed' = TRUE
                /\ UNCHANGED <<stopped, queued, old, cur, state, retries, handle, watched>>

StoppedMeanwhile == /\ step = "preparing" /\ stopped
                    /\ step' = "idle"
                    /\ UNCHANGED <<stopped, queued, old, cur, state, retries, handle,
                                   watched, failed>>

\* Mutant: nobody watches the output of a respawned process.
Spawns_Unwatched ==
  /\ step = "preparing" /\ ~stopped
  /\ step' = "idle"
  /\ \E p \in Procs : /\ state[p] = "gone"
                      /\ cur' = p /\ state' = [state EXCEPT ![p] = "up"]
  /\ UNCHANGED <<stopped, queued, old, retries, handle, watched, failed>>

Spawns == /\ step = "preparing" /\ ~stopped
          /\ step' = "idle"
          /\ \E p \in Procs : /\ state[p] = "gone"
                              /\ cur' = p /\ state' = [state EXCEPT ![p] = "up"]
          /\ watched' = TRUE
          /\ UNCHANGED <<stopped, queued, old, retries, handle, failed>>

-----------------------------------------------------------------------------
(* The process, and the timers.                                            *)

Output(p) == /\ state[p] = "up" /\ state' = [state EXCEPT ![p] = "out"]
             /\ UNCHANGED <<stopped, queued, step, old, cur, retries, handle, watched, failed>>

FallsSilent(p) == /\ state[p] \in {"up", "out"} /\ state' = [state EXCEPT ![p] = "mute"]
                  /\ UNCHANGED <<stopped, queued, step, old, cur, retries, handle, watched,
                                 failed>>

\* A process that was told to end, or was swapped out, ends: onExit returns.
EndsAsTold(p) == /\ p # cur /\ state[p] # "gone"
                 /\ state' = [state EXCEPT ![p] = "gone"]
                 /\ UNCHANGED <<stopped, queued, step, old, cur, retries, handle, watched,
                                failed>>

\* An unexpected exit.  onDown comes first and may change what is wanted.
Crashes == /\ cur # None
           /\ state' = [state EXCEPT ![cur] = "gone"]
           /\ cur' = None /\ watched' = FALSE
           /\ IF stopped \/ ~wanted' THEN UNCHANGED <<retries, handle>>
              ELSE /\ retries < MAX_RETRIES
                   /\ retries' = retries + 1 /\ handle' = TRUE
           /\ UNCHANGED <<stopped, queued, step, old, failed>>

\* Mutant: the timer that fired stays the one to be cleared.
RetryFires_HandleKept ==
  /\ retries > 0
  /\ retries' = retries - 1
  /\ IF cur = None /\ ~Pending /\ ~stopped /\ wanted
     THEN queued' = TRUE ELSE UNCHANGED queued
  /\ UNCHANGED <<stopped, step, old, cur, state, handle, watched, failed>>

RetryFires == /\ retries > 0
              /\ retries' = retries - 1 /\ handle' = FALSE
              /\ IF cur = None /\ ~Pending /\ ~stopped /\ wanted
                 THEN queued' = TRUE ELSE UNCHANGED queued
              /\ UNCHANGED <<stopped, step, old, cur, state, watched, failed>>

\* Silent past the limit; so is a process that is too slow to start.
WatchdogFires == /\ watched /\ cur # None /\ ~Pending /\ state[cur] = "mute"
                 /\ IF wanted THEN Restart ELSE Stop

Changes == UNCHANGED supVars   \* the owner's wantRunning() changes

ProcSteps(p) == Output(p) \/ FallsSilent(p) \/ EndsAsTold(p)
Cycle        == CycleBegins \/ Killed \/ PrepareFails \/ StoppedMeanwhile \/ Spawns

Next == \/ Restart \/ Stop \/ Cycle \/ Crashes \/ RetryFires \/ WatchdogFires \/ Changes
        \/ \E p \in Procs : ProcSteps(p)

\* What any owner's supervisor does; wanted is the owner's and changes as it will.
Supervised == SupInit /\ [][Next]_supVars

-----------------------------------------------------------------------------
\* Every process that was not told to end is the supervisor's current one, so it
\* can be stopped, and the current one is watched for silence.
NoStray == /\ \A p \in Procs : state[p] \in Live <=> p = cur
           /\ cur # None => watched

\* Two generations of the process never exist at once (supervisor.ts:9).
\* It fails: stop() tells the process to end and forgets it, and the next start waits for
\* no process it does not know.
OneGeneration == \A p, q \in Procs : state[p] # "gone" /\ state[q] # "gone" => p = q
===============================================================================
