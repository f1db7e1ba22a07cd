# Phospharr: specifications and proofs

Phospharr puts several IPTV subscriptions behind one tuner. It shares a small
number of upstream connections ("slots") among many viewers, keeps a catalogue of
channels and their health, and keeps the copies that media servers such as Emby
hold of its lineup in step. All of it is one Bun process with a sqlite file. Its
difficulty is not parallelism but what happens between two `await`s: timers,
sockets, viewers leaving, other callers of the same function, and a process that
may die at any of them.

Paths below are relative to the repository's `src/` directory unless they start
with `docs/` or `emby-plugin/`.

## 1. The system's parts

| part | state it keeps | operations | talks to | hard behaviour | what makes it correct |
|---|---|---|---|---|---|
| slot pool `scheduler/pool.ts` | `used`, `max` per provider | acquire, release, setBudget, totalFree | muxer, prewarm, health probe, VOD routes | anonymous counters: a release nobody owned takes somebody else's slot; a budget may shrink below use | every used slot has one holder; a provider never carries more upstreams than its budget |
| selector `scheduler/selector.ts` | streams marked live | selectStream, rankedStreams, markLive, markDead | pool, verdicts, database | a peek at a slot that is gone at the acquire | multiplexes onto live sources; null only when nothing is free |
| muxer `proxy/muxer.ts`, `cooldown.ts`, `reconnect.ts` | muxes by stream, their subscribers, timers, budgets; cooling channels | open, attach, detach, run (failover, reconnect), teardown, watchdog | selector, pool, source, every output | run() sleeps while it is torn down, evicted, joined; two opens at once | one upstream per source, nobody stranded, no slot leaked |
| warm ring `proxy/prewarm.ts`, `warmevict.ts` | holds, oldest first | warm, release, evictOne, onTune | muxer | a hold looks like a viewer | never costs a real viewer anything |
| health probe `health/probe.ts` | generation, round outcomes | loop iteration, probeOne | pool, breaker, verdicts, watchdog, database | hung probes, superseded loops | polite tenant; every slot given back |
| circuit breaker `health/breaker.ts` | streak and opening time per provider | recordProbe, breakerOpen | probe | stragglers of a batch | an outage does not condemn the catalogue |
| watchdog, alerts `health/watchdog.ts`, `alerts.ts` | last beat and strikes per loop, alerts of the last hour | beat, tick, sendAlert | every loop | a restart cannot cancel the wedged loop; an exit cuts its own alert short | restarts, then exits, and says so |
| verdicts `health/verdict.ts` | verdict and clean rounds per provider | updateVerdicts | probe, selector | hysteresis over rounds | no flapping, recovery possible |
| liveness `health/liveness.ts` | none but stream rows | poll of Twitch and YouTube | database | partial answers | unknown is not dead |
| convergence `sync/converge.ts` | `sync_state` row per server, `inFlight` | the ladder: refresh, verify, rebuild, re-add, reset | Emby, reconciler, schedulers | lost answers, crash between delete and add, rows read before an await | a tuner host that was deleted comes back |
| reconciler `sync/reconciler.ts` | last fingerprints, run guard | five-minute pass | convergence, favourites, guide push | overlaps scheduled passes | does not escalate |
| transcoder `proxy/transcode.ts` | one ffmpeg per channel, subscribers | open, attach, detach, teardown | muxer | visible before it has started | a dead one is replaced |
| timeshift `proxy/timeshift.ts` | chunks, readers, global bytes | open, append, evict, teardown | muxer | readers against eviction and end | bounded memory, readers end |
| HLS `proxy/hls.ts` | sessions, starts under way | playlist, segment, reap | muxer through HTTP | reuse of a directory | one segmenter per channel |
| slate `slate/*.ts` | ring of reels, manifest; a reel under way per cold channel | build, load, hold, feed, strand | muxer | files replaced while they are read; live arrives in between | a whole reel or none, never over live |
| bytes `proxy/ts.ts`, `tspreroll.ts`, `tsfeed.ts`, `overlap.ts`, `jitter.ts` | cached tables and group of pictures, clock position, drain rate | push, preroll, filter, tick | muxer, mosaic | loss, wrap and jump of clocks | who joins starts on a keyframe and misses nothing |
| mosaic `proxy/compositor.ts`, `tilefeed.ts` | layout, viewers, grid process, tile processes | setState, open, reap, restore | supervisor, muxer | changes during a restart | the grid shows what was picked last |
| VOD relay `api/vodrange.ts` | one slot and one upstream body per request | vodPassthrough | pool, provider | the viewer leaves at any await | nothing leaks |
| supervisor `proxy/supervisor.ts` | child, retry timer, intent | restart, stop, exit, watchdog | compositor, tile feeds | four sources of restarts | one child at a time |
| DVR `dvr/recorder.ts` | recordings, rules, active writers | tick, start, finalise, cancel, recover, prune | muxer, database, disk | crash in a window, async finalise | no recording lost or recorded twice |
| ingest `ingest/sync.ts`, `scheduler.ts`, `scheduler/bigjob.ts` | channels, streams, numbers, run guards | full sync, group sync | providers, pool | overlapping syncs prune | numbers stick, watched channels keep their streams |
| matching `canonical/*.ts` | names known in this sync | matchCanonical | ingest | order of a listing, what the last sync forgot | duplicates together, siblings apart |
| VOD catalogue `ingest/vod.ts`, `vodlibrary.ts`, `blackhole.ts` | titles, episodes, files, grabs | sync, rebuild, prune, resolve | providers, media server, Sonarr | partial answers, two rebuilds | nothing wanted is deleted |
| EPG `epg/*.ts`, guide push `sync/embyguide.ts` | programmes, snapshot | refresh, merge, push | feeds, Emby plugin | hung refresh, partial push | guide becomes fresh again |
| favourites `sync/favorites.ts` | favourite channels per server | poll, replace | Emby | late and partial answers | a failed poll erases nothing |
| egress `net/*.ts` | tunnel entries, helpers, timers | start, stop, redial, monitor | source, probe | killed helpers live on, timers fire late | no stray helper, the tunnel comes back |
| API, auth, shares, chat, settings, analytics, UI, Android | rows and caches | CRUD, rendering | everything | little | unit tests |

`PROJECT.json` lists each part with its files and status, and the hazards of the
code with the line at which each one bites.

## 2. Modules

The core, one module (or more) per part and one run or more each:

| module | models | composed with |
|---|---|---|
| `SlotPool` | `scheduler/pool.ts` | the base of `Selector` and `Health` |
| `Selector` | `scheduler/selector.ts` | extends `SlotPool` |
| `SlotLedger` | the abstract promise of the pool: a connection takes a slot within the budget and gives back only its own | refined by `Muxer` |
| `Muxer` | `proxy/muxer.ts`, `cooldown.ts`, `reconnect.ts`, `prewarm.ts`, `warmevict.ts` | extends `Selector`; `INSTANCE SlotLedger` |
| `MuxerProofs`, `ConvergeProofs`, `HealthProofs`, `DvrProofs`, `MosaicProofs` | theorems about the module they are named after | extend it |
| `PlaybackProofs`, `UpkeepProofs` | theorems about `MCPlayback` and `MCUpkeep`, part by part | extend it |
| `Converge` | `sync/converge.ts`, the reconciler's gate | stands alone |
| `Health` | `health/probe.ts`, `breaker.ts`, its entry of `watchdog.ts` | extends `SlotPool` |
| `Dvr` | `dvr/recorder.ts` | stands alone |
| `Supervisor` | `proxy/supervisor.ts` | instantiated by `Mosaic` as `Grid` |
| `Mosaic` | `proxy/compositor.ts`, `tilefeed.ts` | owns the grid's `Supervisor` |

Playback, eleven modules that `MCPlayback` brings together:

| module | models |
|---|---|
| `Transcode` | `proxy/transcode.ts`: the entry, the objects behind it, their ffmpeg and viewers |
| `Hls` | `proxy/hls.ts`: the session, the segmenters that hold or held it, the directory |
| `Timeshift` | `proxy/timeshift.ts`: chunks with absolute indices, readers, the memory of all buffers |
| `Slate` | the reel of one mux, `proxy/muxer.ts` and `slate/gate.ts` |
| `Feeder` | `slate/feeder.ts`: a reel at real time, looping its tail |
| `ReelCache` | `slate/builder.ts`, `slate/cache.ts`: builds that replace files, tunes that read them |
| `VodPass` | `api/vodrange.ts`: one request and what it holds |
| `TileInput` | the persistent feed of a tile, `proxy/tsfeed.ts`, and its subscription at the muxer |
| `TsStreams` | `proxy/tspreroll.ts` and the keyframe-aligned feed of `proxy/tsfeed.ts` |
| `Overlap` | `proxy/overlap.ts`: dropping what a provider replays |
| `Jitter` | `proxy/jitter.ts`: bursts in, a steady rate out |

Upkeep, fourteen parts that `MCUpkeep` brings together (the reconciler's climb of the
ladder is `Converge`):

| module | models |
|---|---|
| `Ingest` | `ingest/sync.ts`, `content/lineup.ts`, `content/filter.ts`: full and scoped syncs of a provider |
| `Jobs` | `epg/scheduler.ts`, `ingest/scheduler.ts`, `scheduler/bigjob.ts` |
| `Matcher` | `canonical/matcher.ts` within a sync; also a run of its own |
| `Catalog` | `ingest/vod.ts`, `syncVod` |
| `Mirror` | `ingest/vodlibrary.ts`, the movies |
| `Episodes` | `ingest/vod.ts`, `ensureEpisodes`, with its readers in `vodlibrary.ts` and `blackhole.ts` |
| `Reconciler` | `sync/reconciler.ts` |
| `GuidePush` | `sync/embyguide.ts` and the plugin's `GuideWriter.cs` |
| `Guide` | `epg/merge.ts`, `epg/snapshot.ts`, `epg/window.ts` |
| `Favorites` | `sync/favorites.ts` |
| `Liveness` | `health/liveness.ts` |
| `Verdicts` | `health/verdict.ts` |
| `Tunnel` | `net/tunnel.ts` and the API handlers that drive it |
| `Watchdog` | `health/watchdog.ts`, `alerts.ts` |

`MCMuxer`, `MCDvr`, `MCMosaic` are instances with their views and
symmetries; `Converge`, `Health` and `Matcher` are run as they are and hold what their
configuration needs. `MCPlayback` and `MCUpkeep` instantiate parts that share no
state with one another: the variable `part`, chosen at the start, says which one moves;
the others rest in an initial state, so the state space is the sum of the parts' and not
their product. Nothing is lost by that, since no part's action reads another's variables.

The properties a run lists are named conjunctions over the parts, spelled out with what
they say in the MC modules. Each conjunct is a property of the module it comes from and
has a comment there.

Definitions whose names end in `_Something` and that stand before the definition
they vary (`CanReconnect_Unwanted` before `CanReconnect`) are deliberately wrong
variants. Nothing uses them; each shows that some property notices the mistake it
stands for. `PROJECT.json` names one per property; every conjunct of a conjunction has
at least one of its own, which violates it in the run that checks it.

### Muxer

A mux is a function value per field of `ChannelMux`. `phase` is the await at which
its `run()` stands: `silent` and `pulling` are inside `pump()`, `nap` is the 200 ms
sleep before `nextSource`, `backoff` the sleep of `reconnectSame`, `closing` a pump
whose upstream was aborted and has not unwound, `idle` a mux that was constructed
but lost its slot, `ended` a `run()` that returned. `Muxer.open` is split at its
awaits (`select`, `reselect`, `dial`, `undo`). The database is `bun:sqlite`, whose
calls finish at once, so these awaits give way to other opens of the same
macrotask but not to timers or sockets: that is `Settled`, and `OpensOverlap` says
whether several clients arrive in one macrotask.

Everything that ends a mux goes through one operator, `Drop(Q, D)`: consumers `Q`
leave, muxes `D` are torn down; timers, keys, live marks and slots follow. This is
where the code's single `teardown` funnel is visible, and where a wrong
`started` flag costs or leaks a slot.

What is abstracted: bytes, jitter and overlap buffers, the slate (`Slate`; its
only effect on this state is a viewer that leaves), the resolver's child processes, and the
time between two events except where the code compares it with a constant
(`longRun`, the keep-warm timer against the 200 ms nap).

### Converge

One Emby server, the playlists that should have a tuner host there, two callers.
`saved` is the row of `sync_state`; each pass carries `row`, the copy it read. The lineup
goes through editions; what is compared is `Hash[edition]`, any function, since
a fingerprint is a hash of the content and comes back when a lineup is changed back. The
ladder is split at every Emby call. A call may work, throw, or take effect with
its answer lost. The history variables `failing` and `rebuilds` record what really
happened, so that the row can be compared with it.

### Health

Streams in order of their last probe, `due` of them due. A loop is the async
function of one generation. `Iterate` is one turn up to the last await: the
generation check, the heartbeat, the selection of a batch and the start of all its
probes. `ProbeEnds` is what a probe does after its last await, its `finally`
included, and with the last one the loop continues. An `ffprobe` that does not come
back is `hung`; a sample itself is cut off by its timeout, so only a probe that got
enough bytes hangs and a hung one never ends with a dead verdict. `condemned`, `windows`
and `wedges` are history: dead verdicts since the provider's last sign of life, and how often
its breaker has closed by the clock, or the process has started again, since then.

### Dvr

Rows of the recordings table by id; `programme` is the (channel, start) pair the row
books, and the unique index allows one living row per pair. `writer` holds the async
writers with their muxer subscriptions, `active` the entry through which one can be
aborted. The database answers at once and the muxer opens without waiting, so a tick
(rules, stop, start loop, prune), a cancel, a shutdown and a recovery are one action
each; `source` and the thrown row say which openings find a source and which update
fails. Only a writer has steps of its own: bytes past the threshold, the end of its
upstream, and `Finalizes`, which comes when the disk has answered. `faults` and
`unclosed` are history. Padding before the start is part of `StartAt`; sizes are
trivial or real, so `dvr.maxGB` is a number of recordings. A tick inserts the rows of its
rules in any order, since the database lists programmes in none; a writer that is idle is
used again, and `Writers` bounds how many are at work at once (`Staffed`). `Boot` is the end of a
process (crash or the end of a shutdown) and the next one's recovery.

### Supervisor and Mosaic

`Supervisor` is one `SupervisedProc`: `queued` and `step` are the chain of restarts (one may
wait behind the one that runs, which stands at the awaits of kill or prepare); `cur` is the process it
holds and `state[p]` what every process does, also after the object forgot it.
`Mosaic` surrounds it with the selection, its persisted copy, viewers, the warm-up and the
idle reaper, and the tile feeds. A reboot starts from the persisted copy.

### The playback modules

Each is a file's state with its `await`s and callbacks as separate actions, against an
abstract muxer that opens, refuses or ends. A process that was killed goes on until it
exits, and its exit handler runs then, whoever holds the entry by that time. The byte
filters see a stream as a sequence of packets that carry only what the filter reads (is
it a table, a keyframe; its clock; does a PES packet start here), and every cut of that
stream into chunks. `Overlap` takes a step per packet and keeps where in its chunk that
packet stands: one that straddles two chunks is not read while the gate is open, nor is what
follows in the chunk that resumed. Its programme begins with any clock of `FirstPcrs`, wraps
at `PCR_WRAP` and starts again at a position of `Resets`, if they have one. A connection is
taken to begin at a packet boundary, and bytes that look like a sync byte and are none are left
open. `ReelCache` takes a reel for the one that was read when the byte counts agree, as
`slate/cache.ts:137` does; two reels of one size are one to it. `known` and `far` of `Overlap`
are history.

### The upkeep modules

Each is a loop against a world that changes by itself: listings, media servers, feeds,
broadcasters, helper processes. A pass reads, waits for an answer that may be partial,
late or an error, and writes in one turn of the event loop (`bun:sqlite` does not wait),
by what it read before. `watched`, `missed`, `threw`, `kept` and the like are history:
they say what happened, and the properties are relative to them.

## 3. Runs

| run | instance | what it asks | states |
|---|---|---|---|
| `muxer_solo` | 2 channels with one source each on one provider, 2 viewers opening in one macrotask, 3 muxes, budgets 0..2 edited at any time | upstreams are shared and joinable; who stays is decided by slots and retries; refinement of `SlotLedger` | 77,000 |
| `muxer_backup` | a channel with a backup source on a second provider, 2 viewers opening in one macrotask, changing health and verdicts | failover in place and the retry loop of `open`; exact slot counts | 135,000 |
| `muxer_ring` | 2 providers with a slot each, 1 viewer, 1 warm hold, fairness | slots are released, silence ends, nobody is stranded and nothing torn down dials although holds are evicted anywhere, one source per channel | 149,000 |
| `muxer_over_budget` | as the ring, budget over time | a documented promise that the code breaks | |
| `converge_repair` | 2 hosts, one of them a group's, 2 callers, three editions of a lineup that reverts, two failures | deleted hosts are on record and come back; the breaker; the edition that is banked, or a later one, was pulled | 111,000 |
| `converge_streak` | two failures | a documented promise that the code breaks | |
| `health_probe` | 1 provider with 3 slots, headroom 1, 3 streams, 3 loops, batch of 2, trip at 2, two windows of an outage | slots, headroom, outage, superseded loops, progress | 522,000 |
| `dvr_two` | 2 overlapping programmes, 2 rows, 1 or 2 at a time, room for 1, one reboot, one failed update | writers, subscriptions, rows and files agree; everything ends | 73,000 |
| `mosaic_grid` | 2 channels, 3 selections, 2 processes, 1 viewer, 1 retry, reboots | the grid shows what was picked; no process or tile strays; a viewer is served | 133,000 |
| `playback` | the eleven playback parts, two or three of each actor | owners, whole reels, gapless streams, requests, what is unused ends | 82,000 |
| `upkeep` | the fourteen upkeep parts | records are true, syncs faithful, nothing wanted lost, changes arrive, loops recover | 93,000 |
| `matcher_duplicates` | one sync of four entries in every order | a documented promise that the code breaks | |

### Bounds

The bounds are named constants. Two viewers and two or three muxes are enough for
every race in `Muxer`: a race needs one mux that sleeps, one that takes what it
gave up, and one that is being constructed. `RECONNECT_MAX = 1` (5 in the code) gives
a first attempt, a retry and an exhausted budget; `OPEN_ATTEMPTS` is the code's 4
where opens overlap and 2 elsewhere, where a second turn cannot happen.
`MIN_SCOPE_FAILURES` is the code's 2, `MAX_READD_FAILURES` is 2 for its 3, `MaxLineup = 3` with
`Reverts` gives a lineup that changes under a pass and becomes what it was. In `Health` the headroom and the
trip streak are scaled down (1 and 2 for 2 and 12) so that two probes of one batch
compete for the last probing slot and a straggler ends after the trip; `MAX_WINDOWS = 1` lets
the breaker close once in an outage before its history starts anew; three loops
are as many as can matter, since hung probes of two loops use up all the slots
probes may have. A larger instance, with two providers, four streams and four
loops, was checked once (about a million states) and holds as well.

In `Dvr` two rows are two programmes, or one that is cancelled and booked again; the
limit is 1 (both compete) or 2 (a start that failed can be hidden by a second one).
The safety properties were also checked once with three rows (about a million states).

In `playback` there are three transcoder objects and two tabs (one object starts, one
drains, one is current), two segmenters and two requests of a channel, two timeshift
channels whose own cap (3) exceeds the global one (2), so that a buffer is evicted
on account of the other. Reels have 5 packets, tails that do not divide them, and ticks up
to three late; a programme has eight packets, a clock every second one, and the clock runs on, wraps
after three packets or starts again at the fifth (`NothingTwice` is claimed where it runs on,
`CatchesUp` also where it wraps, or starts again by a step too large for a replay); streams have up to 5
packets in chunks of 1 or 2, which is a table pair, a keyframe, and something on either
side.

In `upkeep` two syncs, rebuilds, polls or passes overlap wherever the code lets them;
listings, feeds and servers change once or twice, which is a change before, between or
after the steps of a pass. `MIN_PROBED = 5` in `Verdicts` is the code's; five rounds cover its
recovery streak. `MAX_ATTEMPTS` and `ATTEMPTS` are 2 for the code's 3; `STALE`, two hours in
the code, is one pass. `Movies = {1}`, `Shows = {}` make one title for two syncs; with a show beside
it the
run holds too and takes twice the time. `MAX_EXITS`, `MAX_FAULTS`, `MAX_EDITS` bound events of
the environment, and the properties say so where it matters. A channel has its entries in
one group in every listing of the run, so that `SyncsAreFaithful` and `ChangesArrive` say
nothing of a channel whose entries are in several: the scoped prune goes by the category of
the channel (`ingest/sync.ts:194-200`), see the observations below. What must come about in the reconciler
is checked for the first server only, since a pass that hits its deadline may never get
to the others.

`LiveView` and `PresentView` identify states that differ only in fields nothing
reads again, symmetry is used only where no liveness property is checked. Deadlock is
not checked in `playback`, `upkeep` and `mosaic_grid`: a request that ended, a reel that was
played or bounded events that were used up leave nothing to do.

### Fairness

- `Muxer`: a started `open` goes on, and a mux whose timer is due again and again
  gets its turn (strong fairness, because `Settled` switches timers off while an
  open is between two awaits). Upstreams, viewers and the ring owe nothing.
- `Converge`: the reconciler is an interval timer, so a re-add that is owed is tried
  again; an Emby call tried again and again works in the end. Without the second
  assumption no client can bring a tuner back.
- `Health`: intervals and sleeps fire, and a probe that does not hang ends (its
  fetch has a timeout). A hung probe owes nothing.
- `Dvr`: the interval fires, time passes, a writer that was told to stop gets an
  answer from the disk, a process that shuts down is started again.
- `Mosaic`: queued cycles go on, timers and the reaper fire, a process that was told to
  end ends (SIGKILL follows SIGTERM), a grid that did not fall silent produces. One that
  did owes nothing: its watchdog restarts it.
- playback: timers (`setTimeout`, `setInterval`) fire, a start that was begun is settled, a
  killed process exits. Viewers, upstreams and ffmpeg owe nothing.
- upkeep: timers fire and passes go on; a wedged pass does not, which the watchdog's
  timer must notice. Where something is to arrive, a request that is made again and again
  is answered in the end (strong fairness on the answer only): `ChangesArrive` and
  `LoopsRecover` need it of the providers, the media server, the plugin, the broadcasters
  and the VPN helper; nothing else does.

In `MCUpkeep` the fair actions of the parts share conjuncts (`Turn(i)`, `Answered(i)`): only
one part moves in a behaviour, so the i-th actions of all parts are one action of it.

## 4. What holds

Of the muxer, with the runs above: with the ring off, slots are exact and budgets kept
also where a channel fails over to another provider, an open is refused only when all is
busy, and the pool refines the ledger. Of channels without alternates: sources are never
pulled twice, every upstream can be found and joined, a reconnect budget is not spent early,
an over-budget provider only drains; and with the ring on, no slot leaks, nobody is attached
to a dead mux, timers cut nobody off, a torn-down mux does not dial, idle upstreams are
released and silent ones given up. An alternate and a warm hold together break these (below).

Of the ladder: a deleted host is on record in every state, also through crashes,
lost answers and overlapping callers, and it comes back as long as Emby works again
some day; the breaker bounds rebuilds; a fingerprint is banked only if Emby has pulled the
edition of the lineup it was read from, or a later one.

Of the probe: its slots and those of viewers add up in every state; probes of all
loops together leave the headroom alone; in each cooldown window of an outage at
most the trip streak and the probes under way are written dead; a superseded loop
starts nothing; some loop always gets to its next iteration.

Of recordings: no two writers on one file, late ones included; at most the configured
number of subscriptions, each of which somebody can abort, but for one per failed
update; every row ends, finally, with a verdict its file bears out, through crashes,
shutdowns and missing sources.

Of the mosaic: a grid that is up encodes what was picked last, or a restart is queued; every
process that was not told to end is the supervisor's current one and is watched; a viewer of
an encode that was not stopped is served or closed.

Of playback: an ffmpeg has viewers or an armed grace timer, a segmenter is the one its
session names, timeshift memory is what the buffers hold; a reel is whole, of its family,
shown to viewers only and never over live; joining viewers and tiles start on tables and a
keyframe and miss nothing while nothing overflows; a reconnect replays nothing whose clock was
read, while that clock runs on, and drops nothing new; the VOD relay
gives its slot back once on every path; whatever is unused ends.

Of upkeep: numbers are distinct and stick, hidden follows category and streams unless set by
hand, watched channels keep their streams and channels the stream they are named after;
siblings with different numbers are not merged; one big job at a time and every due one
runs; partial answers delete no mirrored movie, cached episode, guide row or favourite; a
fingerprint is stored only for rows the plugin has written; a live mark was heard; a verdict
earned by its rounds; no VPN helper strays; the exit of the process is told; a server in
trouble is told of; and what the world changed arrives in the end.

### Where code and documentation disagree

Three runs end in a counterexample, each against a sentence of the repository.

1. `muxer_over_budget`: a hold evicted during the nap gives its slot back twice
   (teardown, then `nextSource` at `proxy/muxer.ts:285`), and the provider carries
   more upstreams than its budget.
2. `converge_streak`: the guards of the last rung save the row as it was before the
   verify, so a playlist that fails, passes and fails again is rebuilt.
3. `matcher_duplicates`: a name that was merged into a near one is not remembered; if a
   nearer name joins later in the sync, the next entry of the very same name goes there.

More properties are stated in the modules and were refuted by TLC; their comments say why, and
no run lists them:

| property | what the code does |
|---|---|
| `Muxer!OneUpstreamPerSource`, with a backup source and three muxes | a mux in its backoff leaves its source unmarked; a second mux of the channel fails over to it and both pull it |
| `Muxer!NobodyStranded`, with three viewers and `OpensOverlap` | two opens of one channel have seen its free slot when a third takes it; the first constructs a mux that cannot start, and the second joins that mux before the first is back to take its key away |
| `Muxer!StoppedNeverDials`, with a warm hold and a backup source | `run()` does not look at `stopping` after its nap: a mux that was evicted there fails over to the alternate, dials it and puts itself back under a key (`proxy/muxer.ts:166-200`) |
| `Muxer!NoSlotLeak`, `IdleIsReleased`, likewise | that mux has acquired a slot of the alternate (`proxy/muxer.ts:292`); its `run()` then finds `stopping` and returns without a release, and nobody else gives the slot back until the process ends |
| `Muxer!ViewersKeepTheirMux`, likewise | a viewer can join that mux under its new key before it ends |
| `Muxer!HoldCostsNoViewer` | the ring warms a channel with the slot a watched mux gave up for its backoff; the reconnect does not ask the evictor and the viewer is dropped |
| `Converge!ResetSticks` | a pass that was waiting for Emby saves its old copy of the row over the operator's reset |
| `Converge!BankedIsShown` | the lineup changes while Emby pulls it and is then changed back: its fingerprint is the banked one, nothing is refreshed, and Emby shows the edition in between |
| `Health!OutageIsContainedOnce` | the breaker closes after 15 minutes whatever the provider does (`health/breaker.ts:70-76`), so an outage that lasts condemns another trip streak, and the probes under way, in every window |
| `Health!WedgeEscalates` | the first heartbeat of a restarted loop clears the strikes before it wedges again, so the exit is out of reach; each wedge leaves its hung probes on their slots |
| `Supervisor!OneGeneration` | stop() forgets the process it told to end; the next start waits for nobody and two of them run for a moment |
| `Mosaic!ViewerStarts` | a viewer who opens a grid that was reaped while its supervisor was at work attaches without starting it |
| `Mosaic!RestartKeepsPicture` | the focus is saved as a position and restored only if it is the id of one of the channels |
| `Overlap!NothingTwiceAtAll` | packets without a clock, straddling two chunks, or in the rest of the chunk that resumed (`proxy/overlap.ts:134-137`) went down with their position unread; the next replay is resumed before them |
| `Overlap!NothingTwiceOnJumps` | after a wrap or a new start of the clock, a replay from before it looks later than what came after, and is relayed |
| `TileInput!NoPhantomViewer` | open() subscribes after the client has left, and its abort listener is added too late |
| `Transcode!OneFfmpegPerChannel` | a transcoder that failed to start or was torn down is torn down again by its grace timer and takes its successor's entry with it; the next viewer starts another |
| `ReelCache!ConsecutiveTunesDiffer` | a reel built between two tunes moves the others up by one, and so the reel under the cursor |
| `Reconciler!EveryServerIsChecked` | a pass that hits its deadline defers the rest to the next, which starts with the first server again |
| `Ingest!HandHidesStay` | a channel that was auto-hidden and shown by hand keeps the automatic reason, so hiding it by hand again is undone by the next pass |
| `Guide!NotModifiedIsTrue` | the ETag is the window's start and the number of rows, so a browser may be told that its stale copy is good |
| `Tunnel!StoppedIsDown` | the monitor's last question may be answered after the stop and marks an entry without helper or bridge as up |
| `GuidePush!GuideArrives` with `REVERTS = TRUE` | a chunk was applied but not answered; when the programmes become what they were, the old fingerprint matches and nothing is sent |

### Other observations

Met while modelling, without a property of their own.

- Muxer and probe: a reconnect that fails because the viewer left or the slot was taken
  arms the channel's cooldown as well; a dial that hangs before failing
  counts as a healthy run and renews the reconnect budget; the probe takes the
  stalest streams whatever their provider, so one unreachable provider holds up the others; a
  viewer can be refused a slot that a probe holds; samples of a provider never add up over rounds
  that are each too
  small.
- DVR: a recording that is "resumed" after a crash truncates what it had; one whose upstream
  ends for good in the middle counts as completed; an episode of a series rule that is
  cancelled is booked again by the next tick; rows without a source can fill the ten a tick
  looks at.
- Playback: an ended timeshift buffer never records again while new replays clear its idle
  timer; the killed ffmpeg of an HLS session may write its last playlist into the next
  session's directory; the preroll leaves a gap once its group of pictures exceeds the cap, and
  uses the latest tables; a reel may start for nobody when all viewers left during the load;
  the supervisor gives up silently when a spawn fails; a slate render that never exits blocks
  the grid's chain; a clock that jumps back by less than 300 seconds looks like a replay, and
  live video is dropped until it has caught up.
- Upkeep: an admin's manual syncs bypass the big-job mutex; one rebuild's prune can delete what
  another has just written, until the next; a failed category request empties a filtered
  library until the next sync; `syncVod` never deletes a movie that left; a late full sync
  can bring back a stream the scoped one pruned; a scoped sync prunes the streams that a
  channel of its groups has from other groups, which it did not ask for, until the next full sync; a re-sync may move a stream off the channel it
  was merged into; a VPN whose spawn throws is not tried again and every edit of it dials anew; a
  guide feed's partial delivery
  overrides earlier feeds'; a VPN stopped while the boot is starting the tunnels it read before is
  dialled all the same; the bridge's failure to listen is only logged (`net/httpproxy.ts:98`), so a
  tunnel that is up may serve nothing; an older favourites answer may replace a newer one until the next
  poll; with two logins on a channel the last one wins the line; a loop that beats during the
  five seconds of the exit alert is exited anyway; rules are applied only on request.

## 5. Proofs

TLC decides small instances; the theorems hold for every value of the constants that
satisfies the module's assumption: any number of providers, streams, muxes, viewers,
playlists, loops, recordings, processes, buffers, rebuilds, polls, and any budget, limit and
threshold. The
assumptions say that the named "nobody" values are not members of the sets they stand
beside, that limits are numbers and that the sets of actors are finite
(`MuxerAssumption`, `HealthAssumption`, `DvrAssumption`, `MosaicAssumption`, the one of
`Converge`, `PlaybackAssumption`, `UpkeepAssumption`). Only the catalogue's parts are held to
an instance: an ingest has the two entries and three listings of `MCUpkeep`, the matcher its
four names, about which `NamesAssumption` says what the names must be like, and the episode
cache one show with its grab; channels, favourite users and logins are `1..n` for any `n`. Hypotheses of a theorem beyond these are named below.

| component | theorems | stated of |
|---|---|---|
| `Muxer` | `TypeCorrect`, `SlotsNeverLeak`, `PoolIsExact`, `BudgetIsKept`, `PoolKeepsLedger`, `StoppedStayStopped`, `SlotsDecide`, `ViewersAreKept`, `SourcesAreShared` | types, slots, budgets, the refinement of `SlotLedger`, torn-down muxes, dropped viewers, joining |
| `Converge` | `ConvergeTypes`, `RowIsTrue`, `BreakerStops` | the row of `sync_state` against what happened; the breaker |
| `Health` | `HealthTypes`, `ProbesStayPolite`, `OutageStaysContained` | slots and headroom over all loops; the circuit breaker |
| `Dvr` | `DvrTypes`, `WritersStayBounded`, `StatusStaysTrue`, `EndedStaysFinal` | writers, subscriptions, rows and files |
| `Mosaic`, `Supervisor` | `MosaicTypes`, `PictureIsPicked`, `MosaicOwnsAll` | the picture against the selection; stray processes and tiles |
| playback parts | `PartsKeepTheirInvariants`, `PlaybackTypes`, `RunningThingsAreOwned`, `EveryReelIsWhole`, `StreamsRunOn`, `ViewersAreServed`, `HoldersGiveBack` | owners of processes and buffers, reels and their files, streams without a gap, requests and what they hold |
| upkeep parts | `UpkeepKeepsItsInvariants`, `UpkeepTypes`, `RecordsStayTrue`, `SyncsAreFaithful`, `WantedThingsStay` | what is recorded against what happened, what a sync may change, what a partial answer may not delete |

Each proof has one step per action, and a lemma for every operator that several actions
share. None of the properties is inductive as it stands; what each one needed is the
following.

### Muxer

- `TypeCorrect`: `Provider(m)` is defined only for a mux that has a source
  and `Existing(v)` only for an open that has picked one. `TypeInv` adds `DialsKnown` (an
  open that dials has picked a source and tuned a channel) and `SourceKnown` (a mux that is
  started, pumps, naps or backs off has a source, and one that backs off holds no slot).
- `SlotsNeverLeak`: every slot in use has a holder whose `run()` goes on, warm holds and
  evictions included. This is the direction that survives the double release: a counter may
  fall below the number of holders, never rise above it. It needs `NothingEndsNaps` or
  `OneSourceEach`: a mux torn down in its nap that has an alternate to fail over to ends with a
  slot nobody gives back (section 4). `StayInv` says that a mux told to stop has ended or is
  about to, and that a started one has not ended.
- `PoolIsExact` and `BudgetIsKept`: under `MAX_WARM = 0`, `KeepWarmOutlastsNap` and, for
  the latter, `Budgets = {}` (an admin's cut leaves running upstreams alone, and that is
  intended). `ExactInv` is `TypeInv` with `NoHolds`, `RunnersHold` (a mux that pumps or naps
  has its slot) and `SlotsMatchMuxes`. `RunnersHold` is why the two conditions are needed:
  an eviction, or a grace timer shorter than the nap, tears a napping mux down and the
  release that follows is the one no holder backs.
- `PoolKeepsLedger`: under the same two conditions the counters refine
  `SlotLedger`, mux by mux, with the mapping of `Muxer`. A step that starts, detaches, tears
  down, fails over or reconnects is an `Acquire`, some `Release`s, a `Resize`, or a stutter.
  The steps are first sorted into kinds (`Kind`), so that the simulation is shown once per
  kind and not once per action.
- `StoppedStayStopped`: `StoppedIsGone` (a mux told to stop and not asleep has ended or is
  about to) and `NapsAreWanted`. It needs that nothing tears down a sleeping mux
  (`NothingEndsNaps`: the two conditions above) or that no channel has a second source
  (`OneSourceEach`), since the code re-reads `stopping` after the nap only on one of the two
  ways on; on the other it does dial.
- `SlotsDecide`: that an over-budget provider only drains is a fact about each kind of step;
  the rest follows from `ExactInv`.
- `ViewersAreKept`: `KeepInv` (`WatchedRun`, `GraceOnlyWhenEmpty`, `KeysRun`): a
  key that an open may join leads to a mux that runs. It needs `~OpensOverlap`: of three opens
  in one macrotask one can join the mux that another has just constructed in vain (section
  4). It holds with warm holds too where channels have one source.
- `SourcesAreShared`: `ShareInv` (a started mux pumps or sleeps, and is found under its key
  while it does; keys are those of their mux's source; a live mark has its mux) with
  `DeadKeysInv` (until the open that lost its slot resumes, its key leads to a mux that never
  ran, and to nobody else's), which is what lets the theorem cover overlapping opens. Its
  three hypotheses (ring off, keep-warm longer than the nap, one source per channel) are
  each necessary: TLC refutes the property without any one of them.

The conditions are configurations of the real program: `MAX_WARM = 0` is the warm ring
switched off; `KeepWarmOutlastsNap` holds for the code's constants (a keep-warm time of
seconds, a nap of 200 ms; a setting of 0 breaks it); one source per channel is a lineup
without alternates; opens overlap only if two clients tune in one turn of the event loop. TLC
checks the same properties where the conditions fail as far as they hold there.

### Converge

`IInv` says of every copy of the row what is to hold of the saved one, since a pass saves
what it read some awaits ago: copies claim no edition of the lineup that Emby has not pulled
or passed (`CopiesArePulled`; the fingerprints of editions may be any), count at least
the failures that happened (`RebuildsAreCounted`), and list every deleted host
(`CopiesAreOwed`). `OneInFlight`, the serialization by `inFlight`,
makes the copies comparable at all; it is the heart of `BreakerStops`, whose bound on
rebuilds includes those of a process that died between its delete and its save. What no
theorem says is `RebuildIsConfirmed`: it is false (`converge_streak`).

### Health

`HealthInv` conjoins `QueueIsWhole` (each stream is in the queue once, so a batch never
probes a stream twice), `ProbesAreAwaited` (only a loop that waits has probes),
`ProbesArePolite` itself and `BreakerCounts`. The step that matters is `Iterate`, which
admits a whole wave: `WaveFits` shows that the last probe admitted has counted all others,
so that the wave as a whole leaves the headroom, whatever the superseded loops still have
under way. `OutageStaysContained` counts `condemned` together with the probes that may
still answer: until the trip they are the streak, and after it they can only drain; each
window that ends leaves what it condemned and gives the next one as much again.

### Dvr

`DvrInv` ties a writer to its row: what it wrote, that its row is recording or was deleted,
and that while it receives it is the one whose entry can abort it (`WritersKnowTheirRow`);
somebody is at work on each recording row (`WriterAtWork`); and two numbers,
entries within the limit and abandoned starts within the failed updates (`CountsHold`). That
a tick's loop respects the limit is `RoundFits`: the last row started found room for
itself and all before it. `OneWriterPerFile` needs no assumption about how fast a disk is:
a row that is cancelled while its writer drains is never used again, and one whose writer
drains is never "scheduled". `EndedStaysFinal` is `VerdictsStay`, shown with the invariant
for each action; it rests on `WritersKnowTheirRow`, by which no writer is left for a row
that has its verdict.

### Mosaic and Supervisor

`IInv` adds `CycleIsAlone` (a restart cycle has no process), `DrawsPicked` (what is about to
be spawned, or produces, with no cycle queued behind it, is the selection) and
`NothingStrays`. They are split into the supervisor's part, the picture's and the tiles', so
that a step shows only what it disturbs.

### Playback

`PlaybackInv` is one invariant per part; a part's own steps keep its own, and the steps of
the others leave its variables alone. None of the theorems needs a hypothesis.

- Transcoders: each start is waited for by exactly one open, which watches nothing else
  meanwhile (`TcOpeners`), so a start that ends disturbs nobody else's viewers. A viewer who
  attached to a start that then fails is remembered as `early` (`TcServed`); without it
  `AttachedIsServed` is not inductive.
- Timeshift: the running total is the sum of what the buffers hold (`ShiftTotal`), buffer by
  buffer, so that an eviction in one buffer on account of another is subtracted once. Sums
  over a set of channels are a recursive function with lemmas of their own (`Sums`).
- Reels: `RingFiles` says that the build under way has the slot that is next until it saves
  or gives up, and that only that slot's file may hold another reel than its entry says; hence a
  tune reads what its entry names, or learns that it does not. A feed's position is the start of
  its segment and what the ticks since then pay for (`FeedInv`), however late they come.
- Preroll and tile feed: their buffers run up to the last packet pushed (`EndsAt`), from a
  keyframe on while nothing was lost (`Clear`). Whatever comes is pushed packet by packet, so the
  lemma about one packet carries over to every cut of the stream into chunks.
- Overlap: where the clock runs on (`RunsOn`), the newest clock is that of a position at or
  after the last one relayed with its clock read, and an open gate is past both (`SeamClock`);
  so what goes down is later, wherever chunks are cut. Where it wraps or jumps, all that is left
  is that the newest clock is that of some delivered position (`SeamReach`), and that the clock
  of a later one is ahead of it (`LaterIsAhead`, a half-turn argument modulo `PCR_WRAP`);
  which is `CatchesUp`. Both conditions are conditions in the properties, and
  `StreamsRunOn` has no hypothesis.

### Upkeep

`UpkeepInv` is again one invariant per part.

- Ingest: `NumbersApart` says that no two channels have one number, within a block and across
  blocks. The code hands out numbers in a loop over the new rows, and renumbers in a loop
  over a block; the proof shows that each turn gives a number of its block that none has so far
  (`IngGives`), and that `Reflowed` moves a block as a whole.
- Jobs: the chained ticks stand in a line (`JobLine`), each behind the one before it and the
  last one at the end of `chain`; only the first runs. The line is a witness of the proof, a
  variable of no module.
- Mirror: a title that was wanted throughout a rebuild is in what the rebuild read, and never
  in what it is about to prune (`MirKeeps`), whatever another rebuild does meanwhile.
- Guide: what a feed said stands in the batch or in the table until its programme has ended
  (`EpgTold`), and nothing is parsed while no feed is read (`EpgQuiet`).
- Guide push: a stored version is at most the batch's, and that at most the present one
  (`GpOrder`). It needs `~REVERTS`: programmes that become what they were make
  `KnownWasShown` false of Emby's rows (section 4).
- Favourites: a pass has heard every star of the users it has asked that stayed since it began
  (`FavHears`). Liveness: marks and answers are among what the login has been
  (`LivHeard`). Verdicts: a clean round counts exactly while it is the last one
  (`VerCounts`). Tunnel: the helper that an entry holds runs (`TunHolds`).
- Matcher: the sync's loop keeps `MatGood`: what is known is known once (`MatApart`), and
  by a name with the numbers of those that may come to it (`MatPure`). `NamesAssumption` is
  necessary, not convenience: an entry whose EPG id says another number than its name is
  filed under the id, and the next entry of the same name follows it there. That
  numbered siblings stay apart is therefore a fact about listings whose ids do not belie their
  names, and TLC checks the assumption for the four names of the run.

The loops of the code are recursive functions in the modules. The induction theorems of the
library take an operator as a parameter; the same inductions are therefore stated over
sets and functions, which need none (`AllNumbers`, `AllSubsets`, `RecursionOnNumbers`,
`RecursionOnSubsets`), and each loop's invariant is a set of good states.

### What the proofs changed in the models

Attempts that failed showed places where a model said something else than was
meant, or was looser than the code. They are repaired: overlapping guards of a `CASE` that TLC
takes in order and a proof may not; `SUBSET X \cup Y`, which is `(SUBSET X) \cup Y`; a
nested `@`; `fetched` of `Ingest`, which had no type. Filters and folds over sequences, which
the provers cannot unfold, became recursive functions where the code has a loop (`Best` and
`Synced` of `Matcher`).

### Only model-checked

- Every liveness property: `UpstreamsEnd`, `TunerComesBack`, `OneLoopGoesOn`, `RecordingsEnd`,
  `ViewerIsServed`, `UnusedEnds`, `ChangesArrive`, `LoopsRecover`. Liveness under fairness
  and `ENABLED` are out of the prover's reach.
- The values that the folds of `Matcher` compute (`DigitRuns`, `Distance`): the theorems
  take them as functions of a name, `NamesAssumption` is evaluated by TLC.
- `RefusedOnlyWhenFull` of `Muxer`: an open gives up after `OPEN_ATTEMPTS` lost races, so the
  property is one of few viewers, not of any number.
- The properties of `Muxer` outside the hypotheses named above, and an ingest of more than two
  entries and three listings.

## 6. Plan

What is left, the most consequential first:

1. Compositions: the DVR, transcoders, timeshift buffers and tiles as clients of `Muxer`
   instead of an abstract one; `Verdicts` under `Health`, with progress per provider;
   `Reconciler` above `Converge`.
2. Shutdown order of the process (`index.ts`, `Muxer.shutdown`), and the audio commands of
   the mosaic.
3. `SyncsAreFaithful` for a listing of any length: the numbering is proved over any set of
   rows, the assignment of entries to rows is not.

## 7. Not modelled, and why

Parsing and rendering (M3U, XMLTV, HTML, playlists), name normalisation, bit layouts of
MPEG-TS, the taxonomy and the rules engine, ffmpeg's arguments, CRUD routes, accounts, share
links, chat, analytics, settings, discovery, tuner outputs, clients and build scripts: pure
functions or plain storage without a protocol between steps, which unit tests reach. The web
client alone is a quarter of the repository's lines. Child processes and HTTP are seen through
what the code does with their outcome. `process.exit` and shutdown are a restart from what
sqlite holds.
