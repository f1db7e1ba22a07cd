------------------------------- MODULE Guide --------------------------------
(***************************************************************************)
(* The guide's data: the sync of the feeds (epg/merge.ts), the table of    *)
(* programmes, and the snapshot the web app reads (epg/snapshot.ts).       *)
(* Syncs are serialised; a feed is read in batches and read again when its *)
(* socket drops; what it delivered stays.  A title is a version.  A row is *)
(* <<feed, title>>, None where there is no row.  An hour is the step of    *)
(* time; slot s ends before hour s.                                        *)
(***************************************************************************)
EXTENDS Naturals, Sequences, FiniteSets

CONSTANTS Slots,     \* (channel, start time) pairs, the table's key: 1, 2, ...
          Feeds,     \* feeds 1, 2, ... in their order
          Requests,  \* syncs: the scheduler's, an admin's
          None,
          ATTEMPTS,  \* EPG_FETCH_ATTEMPTS
          BEHIND,    \* hours a row is kept after it left the window
          MAX_EDITS  \* bound: changes of the feeds, hours that pass

VARIABLES
  listed,    \* listed[f][s]: the title feed f has, 0 if it does not list the slot
  table,     \* the rows
  hour,      \* the window's start
  queue,     \* the syncs that were asked for and have not ended; the first one runs
  reading,   \* the feed it reads, 0: it has not begun
  attempt,
  unread,    \* unread[s]: what this attempt has yet to read
  batch,     \* what is parsed and not written
  told,      \* told[s]: the last that any feed of this sync said of the slot
  snap,      \* the snapshot: its rows and its window's start, None if there is none
  cached,    \* the browser's copy, with its ETag
  edits

vars == <<listed, table, hour, queue, reading, attempt, unread, batch, told, snap, cached,
          edits>>
feeds == <<listed, hour, edits>>
sync == <<queue, reading, attempt, unread, batch, told>>
reads == <<snap, cached>>

Empty == [s \in Slots |-> None]
Programmes == 1..MAX_EDITS + 1
Tables == [Slots -> (Feeds \X Programmes) \cup {None}]
Shots == [rows: Tables, start: 0..MAX_EDITS] \cup {None}

TypeOK ==
  /\ listed \in [Feeds -> [Slots -> Programmes \cup {0}]] /\ table \in Tables
  /\ hour \in 0..MAX_EDITS /\ queue \in Seq(Requests) /\ reading \in Feeds \cup {0}
  /\ attempt \in 0..ATTEMPTS /\ unread \in Tables /\ batch \in Tables /\ told \in Tables
  /\ snap \in Shots /\ cached \in Shots /\ edits \in 0..MAX_EDITS

Init ==
  /\ listed = [f \in Feeds |-> [s \in Slots |-> 1]] /\ table = Empty /\ hour = 0
  /\ queue = <<>> /\ reading = 0 /\ attempt = 0 /\ unread = Empty /\ batch = Empty
  /\ told = Empty /\ snap = None /\ cached = None /\ edits = 0

-----------------------------------------------------------------------------
\* syncEpgFromUrls: behind the one that runs.
Ask(r) == /\ \A i \in DOMAIN queue : queue[i] # r
          /\ queue' = Append(queue, r)
          /\ UNCHANGED <<table, reading, attempt, unread, batch, told, feeds, reads>>

\* The upserts of a flush, one transaction.
Over(new, old) == [s \in Slots |-> IF new[s] # None THEN new[s] ELSE old[s]]

\* Mutant: rows that are there are kept.
Flushed_Fills == Over(table, batch)

Flushed == Over(batch, table)

\* A feed is opened, for the first time or again, and read from its beginning.
Open(f, n) ==
  /\ reading' = f /\ attempt' = n /\ batch' = Empty
  /\ unread' = [s \in Slots |-> IF listed[f][s] = 0 THEN None ELSE <<f, listed[f][s]>>]

Begin == /\ queue # <<>> /\ reading = 0 /\ Open(1, 1) /\ told' = Empty
         /\ UNCHANGED <<table, queue, feeds, reads>>

\* The next programme is parsed into the batch; a full batch is written.
Parse(s) == /\ unread[s] # None /\ \A o \in Slots : o < s => unread[o] = None
            /\ unread' = [unread EXCEPT ![s] = None]
            /\ batch' = [batch EXCEPT ![s] = unread[s]]
            /\ told' = [told EXCEPT ![s] = unread[s]]
            /\ UNCHANGED <<table, queue, reading, attempt, feeds, reads>>
Write == /\ batch # Empty /\ table' = Flushed /\ batch' = Empty
         /\ UNCHANGED <<queue, reading, attempt, unread, told, feeds, reads>>

\* Rows that ended long ago go.
Ended(s) == s + BEHIND <= hour

\* Mutant: what the feeds did not tell is removed.
Pruned_Untold(rows) == [s \in Slots |-> IF told[s] = None THEN None ELSE rows[s]]

Pruned(rows) == [s \in Slots |-> IF Ended(s) THEN None ELSE rows[s]]

\* Mutant: the snapshot is kept.
Invalidated_Never == UNCHANGED snap

\* The feed is done with: the tail is written.  The next one follows, or the sync ends
\* and the snapshot is dropped.
Invalidated == snap' = None
Onward ==
  /\ table' = Pruned(Flushed)
  /\ IF reading + 1 \in Feeds
       THEN Open(reading + 1, 1) /\ UNCHANGED <<queue, snap>>
       ELSE /\ queue' = Tail(queue) /\ reading' = 0 /\ attempt' = 0 /\ batch' = Empty
            /\ unread' = Empty /\ Invalidated
  /\ UNCHANGED <<told, feeds, cached>>

\* It is read to its end.
Done == reading # 0 /\ unread = Empty /\ Onward

\* Mutant: a feed is tried without end.
Retries_Always == TRUE

\* The socket drops: the tail is written and the feed tried again, or it is given up.
Retries == attempt < ATTEMPTS
Again == /\ reading # 0 /\ Retries
         /\ table' = Flushed
         /\ Open(reading, IF attempt < ATTEMPTS THEN attempt + 1 ELSE attempt)
         /\ UNCHANGED <<queue, told, feeds, reads>>
GiveUp == reading # 0 /\ ~Retries /\ Onward

-----------------------------------------------------------------------------
\* A snapshot holds the rows that reach into the window; its ETag is the window's start
\* and the number of rows.
Shown == [s \in Slots |-> IF s <= hour THEN None ELSE table[s]]
ETag(shot) == <<shot.start, Cardinality({s \in Slots : shot.rows[s] # None})>>

\* GET /api/guide: the snapshot is built if there is none; the browser gets it, or is
\* told that its own copy is still good.
Snapshot == IF snap # None THEN snap ELSE [rows |-> Shown, start |-> hour]
NotModified(shot) == cached # None /\ ETag(cached) = ETag(shot)
Get == /\ snap' = Snapshot
       /\ cached' = IF NotModified(Snapshot) THEN cached ELSE Snapshot
       /\ UNCHANGED <<table, sync, feeds>>

\* The snapshot's five minutes are over.
Expire == /\ snap # None /\ snap' = None
          /\ UNCHANGED <<table, sync, feeds, cached>>

\* A feed retitles, adds or drops a programme; an hour passes.
Edit(f, s) == /\ edits < MAX_EDITS /\ edits' = edits + 1
              /\ \E t \in {0, edits + 2} \ {listed[f][s]} : listed' = [listed EXCEPT ![f][s] = t]
              /\ UNCHANGED <<table, hour, sync, reads>>
Pass == /\ hour < MAX_EDITS /\ hour' = hour + 1
        /\ UNCHANGED <<listed, edits, table, sync, reads>>

Next == \/ \E r \in Requests : Ask(r)
        \/ \E s \in Slots : Parse(s) \/ \E f \in Feeds : Edit(f, s)
        \/ Begin \/ Write \/ Done \/ Again \/ GiveUp \/ Get \/ Expire \/ Pass

\* Feeds are read to an end: what is downloaded is parsed, sockets drop or feeds end.
Fairness == /\ WF_vars(Begin) /\ \A s \in Slots : WF_vars(Parse(s))
            /\ WF_vars(Done \/ Again \/ GiveUp)
Spec == Init /\ [][Next]_vars /\ Fairness

-----------------------------------------------------------------------------
\* "One bad feed must never blank the whole guide" (merge.ts:227): a row goes only when
\* its programme ended long ago; and when a sync ends, whatever its feeds dropped and
\* however often, each slot shows what the last feed that mentioned it said.
GuideStands ==
  [][/\ \A s \in Slots : table[s] # None /\ ~Ended(s) => table'[s] # None
     /\ Len(queue') < Len(queue) =>
          \A s \in Slots : told[s] # None /\ ~Ended(s) => table'[s] = told[s]]_vars

\* What is served is the table: outside of a sync, a snapshot differs from it only in
\* rows that left the window since.
SnapshotIsTrue ==
  snap # None /\ reading = 0 => \A s \in Slots : s > hour => snap.rows[s] = table[s]

\* Every sync ends, although one waits for the other and feeds that drop are read again:
\* no feed holds the chain.
SyncsEnd == \A r \in Requests :
  []<>(\A i \in DOMAIN queue : queue[i] # r)

\* "So unchanged requests get a 304" (snapshot.ts:11): a browser that is told that its
\* copy is good has the rows of the snapshot.  It fails: the ETag (snapshot.ts:77) is the
\* window's start and the number of rows, so rows that changed and did not become more
\* or fewer are not sent before the hour is over.
NotModifiedIsTrue == snap # None /\ NotModified(snap) => cached.rows = snap.rows
=============================================================================
