--------------------------------- MODULE Dvr ---------------------------------
(***************************************************************************)
(* The DVR engine (src/dvr/recorder.ts): the recordings table, the map of  *)
(* running recordings, the writers that drain a muxer subscription into a  *)
(* file, cancel, series rules, pruning, crash, shutdown and recovery.      *)
(*                                                                         *)
(* The database answers within the macrotask that asks it, and the muxer   *)
(* opens a channel without waiting for the network, so a tick, a cancel    *)
(* and a recovery each run without interruption.  A writer does not: it    *)
(* waits for bytes and for the disk, and closes its books long after a     *)
(* tick or a cancel has told it to stop.                                   *)
(*                                                                         *)
(* A row is an id that is used once (AUTOINCREMENT): a programme that is   *)
(* cancelled and booked again is a new row.  Times are instants 0 .. LAST. *)
(***************************************************************************)
EXTENDS Integers, FiniteSets, SequencesExt

CONSTANTS Programmes,        \* (channel, start) pairs, of which a row books one
          Free,              \* no programme, no writer
          StartAt, EndAt,    \* startTime - pad and endTime of a programme
          PAD_END,           \* padEndSec
          MAX_IDS,           \* bound: rows ever inserted
          Writers,           \* writers, a finished one is used again
          Limits,            \* what dvr.maxConcurrentRecordings may be
          DUE_LIMIT,         \* rows a tick looks at
          MaxKept,           \* completed recordings that dvr.maxGB has room for
          LAST,              \* bound: the last instant
          MAX_REBOOTS,       \* bound: ends of the process
          MAX_FAULTS         \* bound: updates that fail

Ids == 1 .. MAX_IDS

ASSUME DvrAssumption ==
  /\ Free \notin Programmes \cup Writers
  /\ IsFiniteSet(Programmes) /\ IsFiniteSet(Writers)
  /\ StartAt \in [Programmes -> Nat] /\ EndAt \in [Programmes -> Nat]
  /\ \A p \in Programmes : StartAt[p] < EndAt[p]
  /\ {PAD_END, MAX_IDS, DUE_LIMIT, MaxKept, LAST, MAX_REBOOTS, MAX_FAULTS} \subseteq Nat
  /\ Limits \subseteq Nat

VARIABLES
  now,
  maxConcurrent, \* the setting
  \* sqlite and the disk
  status,     \* of each row; "none" before its insert and after its delete
  programme,  \* what a row books
  rule,       \* a series rule matches the programmes
  file,       \* none, trivial or past the threshold of a real recording
  \* the process
  running,    \* FALSE once shutdown has begun
  active,     \* Map<id, entry>: the writer whose AbortController the entry holds
  writer,     \* the writers with their muxer subscriptions
  \* history
  reboots, faults,
  unclosed    \* rows whose last update failed

dbVars  == <<status, programme, rule>>
memVars == <<running, active, writer>>
history == <<reboots, faults, unclosed>>
vars    == <<now, maxConcurrent, dbVars, file, memVars, history>>

Statuses == {"none", "scheduled", "recording", "completed", "failed"}
\* abandoned: subscribed, but the start threw before anybody read.
WriterType == [id : Ids \cup {0}, phase : {"idle", "writing", "abandoned"},
               subscribed : BOOLEAN, real : BOOLEAN]
Idle == [id |-> 0, phase |-> "idle", subscribed |-> FALSE, real |-> FALSE]

TypeOK == /\ now \in 0 .. LAST /\ maxConcurrent \in Limits
          /\ status \in [Ids -> Statuses]
          /\ programme \in [Ids -> Programmes \cup {Free}]
          /\ \A a, b \in {i \in Ids : status[i] # "none"} :
               programme[a] = programme[b] => a = b
          /\ rule \in BOOLEAN
          /\ file \in [Ids -> {"none", "trivial", "real"}]
          /\ running \in BOOLEAN
          /\ active \in [Ids -> Writers \cup {Free}]
          /\ writer \in [Writers -> WriterType]
          /\ reboots \in 0 .. MAX_REBOOTS /\ faults \in 0 .. MAX_FAULTS
          /\ unclosed \subseteq Ids

Init == /\ maxConcurrent \in Limits
        /\ now = 0 /\ reboots = 0 /\ faults = 0 /\ unclosed = {}
        /\ status = [i \in Ids |-> "none"] /\ programme = [i \in Ids |-> Free]
        /\ rule \in BOOLEAN
        /\ file = [i \in Ids |-> "none"]
        /\ running = TRUE
        /\ active = [i \in Ids |-> Free]
        /\ writer = [w \in Writers |-> Idle]

-----------------------------------------------------------------------------
Active(act)     == {i \in Ids : act[i] # Free}
StartOf(db, i)  == StartAt[db.programme[i]]
StopOf(db, i)   == EndAt[db.programme[i]] + PAD_END
Table           == [status |-> status, programme |-> programme]

\* Mutant: without the unique index every tick books a programme again.
Bookable_Again(p) == TRUE

\* The unique index on (channel, start): a row that is there turns down a repeat.
Bookable(p) == \A i \in Ids : status[i] # "none" => programme[i] # p

\* The rows that the next inserts make for these programmes, in whatever order the
\* database returned them, as far as there are ids.
Bookings(ps) ==
  LET new    == {p \in ps : Bookable(p)}
      unused == {i \in Ids : programme[i] = Free}
  IN  {f \in UNION {[ids -> new] : ids \in SUBSET unused} :
         /\ IsInjective(f)
         /\ \A i \in DOMAIN f, j \in unused \ DOMAIN f : i < j
         /\ DOMAIN f = unused \/ Range(f) = new}

\* scheduleRecording of each of them.
Inserted(f) == [status    |-> [i \in Ids |-> IF i \in DOMAIN f THEN "scheduled" ELSE status[i]],
                programme |-> [i \in Ids |-> IF i \in DOMAIN f THEN f[i] ELSE programme[i]]]

\* Abort detaches from the muxer, which closes the stream.  Nobody reads what a
\* failed start left behind: without its subscription it is gone.
Closed(wr, ws) == [w \in Writers |->
  IF w \notin ws THEN wr[w]
  ELSE IF wr[w].phase = "abandoned" THEN Idle ELSE [wr[w] EXCEPT !.subscribed = FALSE]]

-----------------------------------------------------------------------------
(* One tick.                                                               *)

\* materializeRules: what begins from now on.
Upcoming == IF rule THEN {p \in Programmes : now <= StartAt[p]} ELSE {}
Materialized == {Inserted(f) : f \in Bookings(Upcoming)}

\* Mutant: the entry is dropped but its subscription is not aborted.
Aborted_Never(ids) == writer

\* The subscriptions of these running recordings are aborted.
Aborted(ids) == Closed(writer, {active[i] : i \in ids} \ {Free})

\* Mutant: what has run out is looked up among the rows that are recording.
Finished_ByRow == {i \in Ids : status[i] = "recording" /\ now >= StopOf(Table, i)}

\* Running recordings whose window has ended.
Finished == {i \in Active(active) : now >= StopOf(Table, i)}

Before(db, i, j) == \/ StartOf(db, i) < StartOf(db, j)
                    \/ StartOf(db, i) = StartOf(db, j) /\ i < j

\* The first DUE_LIMIT scheduled rows, due or not.
Due(db) == LET rows == {i \in Ids : db.status[i] = "scheduled"}
           IN  {i \in rows : Cardinality({j \in rows : Before(db, j, i)}) < DUE_LIMIT}

\* Mutant: the limit is looked at once, before the loop.
Full_Once(act, started) == Cardinality(Active(act)) >= maxConcurrent
Full(act, started) == Cardinality(Active(act) \cup started) >= maxConcurrent

Missed(db, i) == now >= StopOf(db, i)

\* The loop over the due rows while the muxer has a source for those in "source":
\* what it starts and what it finds missed before the limit ends it.
Round(db, act, source) ==
  LET open == {i \in Due(db) \cap source : now >= StartOf(db, i) /\ ~Missed(db, i)}
      room(i) == ~Full(act, {j \in open : Before(db, j, i)})
  IN  [started |-> {i \in open : room(i)},
       missed |-> {i \in Due(db) : Missed(db, i) /\ room(i)}]

\* The same when the update of row k, of those started, throws.
Thrown(db, r, k) == [started |-> {i \in r.started : i = k \/ Before(db, i, k)},
                     missed |-> {i \in r.missed : Before(db, i, k)}]

\* Mutant: the row is not marked when its recording starts.
Marked_Not == "scheduled"
Marked == "recording"

\* Mutant: a row whose window has passed is left as it is.
Visited_Past(db, r, threw) ==
  [i \in Ids |-> IF i \in r.started \ threw THEN Marked ELSE db.status[i]]

\* The rows after the loop.
Visited(db, r, threw) == [i \in Ids |-> IF i \in r.missed THEN "failed"
                                 ELSE IF i \in r.started \ threw THEN Marked
                                 ELSE db.status[i]]

\* prune: the completed recordings, oldest first, that there is no room for.
Pruned(db, st) ==
  LET done == {i \in Ids : st[i] = "completed"}
      newer(i) == {j \in done : \/ StopOf(db, j) > StopOf(db, i)
                                \/ StopOf(db, j) = StopOf(db, i) /\ j > i}
  IN  {i \in done : Cardinality(newer(i)) >= MaxKept}

\* A writer for each of these rows; a tick that would need more of them is out of bounds.
Staffed(rows, wr) ==
  LET fits == {f \in [rows -> {w \in Writers : wr[w] = Idle}] : IsInjective(f)}
  IN  IF fits = {} THEN {} ELSE {CHOOSE f \in fits : TRUE}

\* What the tick leaves, db with the rules' rows, r the loop, threw the row at
\* which it threw, if any: that one subscribed but nobody came to read.
Ticked(db, act, wr, r, threw) ==
  \E st \in {Visited(db, r, threw)}, new \in Staffed(r.started, wr) :
  \E gone \in {IF threw = {} THEN Pruned(db, st) ELSE {}} :
    /\ programme' = db.programme
    /\ status' = [i \in Ids |-> IF i \in gone THEN "none" ELSE st[i]]
    /\ active' = [i \in Ids |-> IF i \in r.started THEN new[i] ELSE act[i]]
    /\ writer' = [w \in Writers |->
         IF \E i \in r.started : new[i] = w
         THEN LET i == CHOOSE j \in r.started : new[j] = w IN
              [id |-> i, phase |-> IF i \in threw THEN "abandoned" ELSE "writing",
               subscribed |-> TRUE, real |-> FALSE]
         ELSE wr[w]]
    /\ file' = [i \in Ids |-> IF i \in gone THEN "none"
                              ELSE IF i \in r.started \ threw THEN "trivial" ELSE file[i]]

Tick ==
  /\ running
  /\ \E db \in Materialized,
        act \in {[i \in Ids |-> IF i \in Finished THEN Free ELSE active[i]]},
        wr \in {Aborted(Finished)} :
     \E source \in SUBSET Due(db) : \E r \in {Round(db, act, source)} :
       \/ Ticked(db, act, wr, r, {}) /\ UNCHANGED faults
       \/ \E k \in r.started :
            /\ faults < MAX_FAULTS /\ faults' = faults + 1
            /\ Ticked(db, act, wr, Thrown(db, r, k), {k})
  /\ UNCHANGED <<now, maxConcurrent, rule, running, reboots, unclosed>>

-----------------------------------------------------------------------------
(* A writer.                                                               *)

Reads(w) == writer[w].phase = "writing" /\ writer[w].subscribed /\ active[writer[w].id] # Free

\* More than the threshold has come in.
Receives(w) == /\ Reads(w) /\ ~writer[w].real
               /\ writer' = [writer EXCEPT ![w].real = TRUE]
               /\ file' = [file EXCEPT ![writer[w].id] = "real"]
               /\ UNCHANGED <<now, maxConcurrent, dbVars, running, active, history>>

\* The muxer has no source left for the channel and closes the stream.
UpstreamEnds(w) == /\ writer[w].subscribed
                   /\ writer' = IF writer[w].phase = "writing" THEN Closed(writer, {w})
                                ELSE [writer EXCEPT ![w].subscribed = FALSE]
                   /\ UNCHANGED <<now, maxConcurrent, dbVars, file, running, active, history>>

\* Mutant: whatever was captured counts as a recording.
Verdict_Generous(w) == "completed"
Verdict(w) == IF writer[w].real THEN "completed" ELSE "failed"

\* The read loop has ended and the disk has answered; an update that fails is
\* swallowed, and one of a row that was deleted meanwhile changes nothing.
Finalizes(w) ==
  LET i == writer[w].id IN
  /\ writer[w].phase = "writing" /\ ~Reads(w)
  /\ writer' = [writer EXCEPT ![w] = IF @.subscribed THEN [@ EXCEPT !.phase = "abandoned"]
                                     ELSE Idle]
  /\ active' = [active EXCEPT ![i] = Free]
  /\ \/ /\ status' = IF status[i] = "none" THEN status ELSE [status EXCEPT ![i] = Verdict(w)]
        /\ UNCHANGED <<faults, unclosed>>
     \/ /\ faults < MAX_FAULTS /\ faults' = faults + 1
        /\ unclosed' = unclosed \cup {i} /\ UNCHANGED status
  /\ UNCHANGED <<now, maxConcurrent, programme, rule, file, running, reboots>>

-----------------------------------------------------------------------------
(* The API, the clock and the end of the process.                          *)

\* The guide's Record button.
Schedule(p) == /\ running
               /\ \E f \in Bookings({p}) :
                    /\ DOMAIN f # {}
                    /\ status' = Inserted(f).status /\ programme' = Inserted(f).programme
               /\ UNCHANGED <<now, maxConcurrent, rule, file, memVars, history>>

\* cancelRecording: stop if running, delete the row and the file.
Cancel(i) == /\ running
             /\ status[i] # "none" \/ active[i] # Free
             /\ writer' = Aborted({i})
             /\ active' = [active EXCEPT ![i] = Free]
             /\ status' = [status EXCEPT ![i] = "none"]
             /\ file' = IF status[i] = "none" THEN file ELSE [file EXCEPT ![i] = "none"]
             /\ UNCHANGED <<now, maxConcurrent, programme, rule, running, history>>

\* deleteRule; with alsoCancelScheduled its scheduled rows go, files and running
\* recordings are not looked at.  Which rows a rule made is left open.
DeleteRule ==
  /\ running /\ rule /\ rule' = FALSE
  /\ \E made \in SUBSET {i \in Ids : status[i] = "scheduled"} :
       status' = [i \in Ids |-> IF i \in made THEN "none" ELSE status[i]]
  /\ UNCHANGED <<now, maxConcurrent, programme, file, memVars, history>>

\* stopDvr and muxer.shutdown.  Writers may or may not finalize before the
\* database is closed and the process ends.
Shutdown == /\ running /\ reboots < MAX_REBOOTS
            /\ running' = FALSE
            /\ active' = [i \in Ids |-> Free]
            /\ writer' = Closed(writer, Writers)
            /\ UNCHANGED <<now, maxConcurrent, dbVars, file, history>>

\* Mutant: a recording whose window is still open is left to itself.
Recovered_OverOnly(i, disk) ==
  IF now >= EndAt[programme[i]] THEN IF disk[i] = "real" THEN "completed" ELSE "failed"
  ELSE status[i]

\* The verdict on a row that the previous process left "recording".
Recovered(i, disk) ==
  IF now < EndAt[programme[i]] THEN "scheduled"
  ELSE IF disk[i] = "real" THEN "completed" ELSE "failed"

\* Mutant: the recovery does not ask for rows that are recording.
Interrupted_All == {i \in Ids : status[i] # "none"}

\* The rows it looks at.
Interrupted == {i \in Ids : status[i] = "recording"}

\* The process is gone, with what its writers had not flushed, and startDvr of
\* the next one recovers.
Boot ==
  LET written == {writer[w].id : w \in {v \in Writers : writer[v].phase = "writing"}}
  IN  /\ reboots < MAX_REBOOTS /\ reboots' = reboots + 1
      /\ \E lost \in SUBSET {i \in written : file[i] = "real"} :
           file' = [i \in Ids |-> IF i \in lost THEN "trivial" ELSE file[i]]
      /\ status' = [i \in Ids |-> IF i \in Interrupted THEN Recovered(i, file')
                                  ELSE status[i]]
      /\ running' = TRUE
      /\ active' = [i \in Ids |-> Free] /\ writer' = [w \in Writers |-> Idle]
      /\ unclosed' = {}
      /\ UNCHANGED <<now, maxConcurrent, programme, rule, faults>>

TimePasses == /\ now < LAST /\ now' = now + 1
              /\ UNCHANGED <<maxConcurrent, dbVars, file, memVars, history>>

Next == \/ Tick
        \/ \E w \in Writers : Receives(w) \/ UpstreamEnds(w) \/ Finalizes(w)
        \/ \E p \in Programmes : Schedule(p)
        \/ \E i \in Ids : Cancel(i)
        \/ DeleteRule
        \/ Shutdown \/ Boot
        \/ TimePasses

Spec == Init /\ [][Next]_vars

\* The interval fires, time passes, the disk answers and the container restarts.
FairSpec == /\ Spec
            /\ WF_vars(Tick) /\ WF_vars(TimePasses)
            /\ WF_vars(~running /\ Boot)
            /\ WF_vars(\E w \in Writers : Finalizes(w))

-----------------------------------------------------------------------------
(* Properties.                                                             *)

Subscribed == {w \in Writers : writer[w].subscribed}
Held       == {active[i] : i \in Active(active)}

\* No "two writers clobbering one file": while a writer has not closed its file,
\* even long after it was told to stop, no other writer opens it.
OneWriterPerFile ==
  \A v, w \in Writers : /\ writer[v].phase = "writing" /\ writer[w].phase = "writing"
                        /\ writer[v].id = writer[w].id
                        => v = w

\* "concurrency-capped": recordings hold at most maxConcurrent subscriptions, but
\* for one more with every start that failed half-way.
WithinConcurrency == Cardinality(Subscribed) <= maxConcurrent + faults

\* Whatever ends a recording (window, cancel, upstream), it leaves no subscription
\* behind that nobody can abort: each such one costs a failed update.
OrphansCostAFault == Cardinality(Subscribed \ Held) <= faults

\* A row is "recording" only as long as some writer is at work on it, crashes and
\* shutdowns included, unless the update that should have closed it failed.
NoRowIsStuck ==
  \A i \in Ids : running /\ status[i] = "recording"
                 => i \in unclosed \/ \E w \in Writers : writer[w] # Idle /\ writer[w].id = i

\* "Completed" is playable: its file is there and past the threshold, whether its
\* writer or the recovery said so, and neither pruning nor cancel took it away.
CompletedIsPlayable == \A i \in Ids : status[i] = "completed" => file[i] = "real"

\* Writers and subscriptions: no two writers on one file, no more subscriptions than the
\* limit, none that nobody can abort, but for those that a failing update costs.
WritersAreBounded == OneWriterPerFile /\ WithinConcurrency /\ OrphansCostAFault

\* A row's status is what became of it: somebody is at work on a "recording" row, and a
\* "completed" one has its file.
StatusIsTrue == NoRowIsStuck /\ CompletedIsPlayable

\* Once a recording has ended it is not started again, whatever ticks,
\* writers that come late and recoveries do.
EndedIsFinal ==
  [][\A i \in Ids : status[i] \in {"completed", "failed"}
                    => status'[i] \in {status[i], "none"}]_vars

\* No recording outlives its window for good: in the end no subscription is held,
\* not even that of a start that failed, unless a second start hides it.
SubscriptionsEnd == <>[](Subscribed \cap Held = {})

\* Every scheduled or running recording comes to a verdict or is deleted, through
\* missing sources, crashes and restarts, unless an update has failed.
RowsSettle ==
  [](faults = 0) => <>[](\A i \in Ids : status[i] \notin {"scheduled", "recording"})
=============================================================================
