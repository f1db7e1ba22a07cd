------------------------------- MODULE Ingest -------------------------------
(***************************************************************************)
(* Provider ingest (ingest/sync.ts): one provider's listing becomes        *)
(* channels and streams.  A full sync and a scoped sync of the event       *)
(* groups each fetch on their own, so one may apply what it read long      *)
(* before the other did (ingest/scheduler.ts:67).  The database part of a  *)
(* sync is one turn of the event loop.  Around it: the numbers of the      *)
(* lineup (content/lineup.ts) and the automatic hiding of channels that    *)
(* cannot play (content/filter.ts).                                        *)
(***************************************************************************)
EXTENDS Naturals, FiniteSets

CONSTANTS
  Entries,     \* entry slots of the provider: a slot is one stream URL
  Names,       \* canonical channels, as numbers: the order of their names
  Categories,  \* the provider's groups
  Scope,       \* the groups the scoped sync pulls (tuner.groups)
  Block,       \* Block[g]: first number of the lineup block of a channel of group g
  Listings,    \* what the provider may list: Entries -> [name, group] or Unlisted
  MAX_EDITS    \* bound: edits by the admin

Unlisted == [name |-> 0, group |-> "none"]
Kinds    == {"full", "scoped"}
Idle     == [e \in {} |-> Unlisted]        \* no sync of this kind is under way

VARIABLES
  listing,     \* what the provider lists now
  fetched,     \* fetched[k]: what the sync under way has read, or Idle
  stream,      \* stream[e]: the channel the stream row of URL e belongs to, 0 if no row
  category,    \* category[n]: the group the channel was first seen in, "none" if no row
  number,      \* number[n]: its number in the lineup, 0 if NULL
  isHidden, hiddenReason,
  hiddenCategories,  \* the setting content.hiddenCategories
  watched,     \* channels the muxer has a mux for
  byHand,      \* history: channels whose last edit by the admin hid them
  edits        \* edits made so far

vars == <<listing, fetched, stream, category, number, isHidden, hiddenReason,
          hiddenCategories, watched, byHand, edits>>

Rows(cat)    == {n \in Names : cat[n] # "none"}
Streamed(st) == {st[e] : e \in Entries} \ {0}

TypeOK ==
  /\ listing \in Listings /\ fetched \in [Kinds -> Listings \cup {Idle}]
  /\ stream \in [Entries -> Names \cup {0}]
  /\ category \in [Names -> Categories \cup {"none"}]
  /\ number \in [Names -> Nat] /\ isHidden \in [Names -> BOOLEAN]
  /\ hiddenReason \in [Names -> {"null", "no-stream"} \cup Categories]
  /\ hiddenCategories \subseteq Categories /\ watched \subseteq Names
  /\ byHand \subseteq Names /\ edits \in 0..MAX_EDITS

Init ==
  /\ listing \in Listings /\ fetched = [k \in Kinds |-> Idle]
  /\ stream = [e \in Entries |-> 0] /\ category = [n \in Names |-> "none"]
  /\ number = [n \in Names |-> 0] /\ isHidden = [n \in Names |-> FALSE]
  /\ hiddenReason = [n \in Names |-> "null"]
  /\ hiddenCategories = {} /\ watched = {} /\ byHand = {} /\ edits = 0

-----------------------------------------------------------------------------
\* Mutant: number 1 is given out too.
FreeNumber_Reserved(start, taken) ==
  CHOOSE i \in start..(start + Cardinality(taken) + 1) :
    i \notin taken /\ \A j \in start..(i - 1) : j \in taken

\* The least number not taken, from the block's start on; 1 belongs to the mosaic.
FreeNumber(start, taken) ==
  CHOOSE i \in start..(start + Cardinality(taken) + 1) :
    i \notin taken \cup {1} /\ \A j \in start..(i - 1) : j \in taken \cup {1}

\* The channels of todo numbered one by one, in the order of their names.
Largest(S) == CHOOSE n \in S : \A m \in S : m <= n

Numbered(cat, nums, todo) ==
  LET after[S \in SUBSET todo] ==
        IF S = {} THEN nums
        ELSE LET n == Largest(S) acc == after[S \ {n}]
             IN  [acc EXCEPT ![n] = FreeNumber(Block[cat[n]], {acc[m] : m \in Names} \ {0})]
  IN  after[todo]

\* One pass over all channels: hide what is in a hidden group or has no stream, show
\* again what was hidden for such a reason and no longer is; a hide without one stays.
Reason(n, cat, st, hc) ==
  IF cat[n] \in hc THEN cat[n] ELSE IF n \notin Streamed(st) THEN "no-stream" ELSE "null"

\* Mutant: the guide filter overrides the user.
Reconciled_OverUser(hid, why, cat, st, hc) ==
  LET hides == {n \in Rows(cat) : Reason(n, cat, st, hc) # "null"}
  IN <<[n \in Names |-> n \in hides], [n \in Names |-> IF n \in hides
          THEN Reason(n, cat, st, hc) ELSE "null"]>>

Reconciled(hid, why, cat, st, hc) ==
  LET auto(n)  == why[n] # "null"
      moves(n) == /\ n \in Rows(cat)
                  /\ IF Reason(n, cat, st, hc) # "null" THEN ~hid[n] \/ auto(n) ELSE auto(n)
  IN <<[n \in Names |-> IF moves(n) THEN Reason(n, cat, st, hc) # "null" ELSE hid[n]],
       [n \in Names |-> IF moves(n) THEN Reason(n, cat, st, hc) ELSE why[n]]>>

Reconcile(cat, st, hc) ==
  LET r == Reconciled(isHidden, hiddenReason, cat, st, hc)
  IN isHidden' = r[1] /\ hiddenReason' = r[2]

-----------------------------------------------------------------------------
\* The provider answers; a fetch that fails throws and changes nothing.
Fetch(k) ==
  /\ fetched[k] = Idle
  /\ fetched' = [fetched EXCEPT ![k] = listing]
  /\ UNCHANGED <<listing, stream, category, number, isHidden, hiddenReason,
                 hiddenCategories, watched, byHand, edits>>

\* The entries a sync of kind k works through.
Seen(k) == {e \in Entries : /\ fetched[k][e] # Unlisted
                            /\ k = "scoped" => fetched[k][e].group \in Scope}

\* The group of a new channel is that of its first entry.
FirstEntry(k, n) == CHOOSE e \in Seen(k) :
  fetched[k][e].name = n /\ \A f \in Seen(k) : fetched[k][f].name = n => e <= f

\* Mutant: streams of watched channels are pruned too.
Pruned_Watched(k, cat, st) ==
  {e \in Entries : /\ k = "scoped" /\ st[e] # 0 /\ e \notin Seen(k)
                   /\ cat[st[e]] \in Scope}

\* Mutant: a scoped sync prunes outside its scope too.
Pruned_Everywhere(k, cat, st) ==
  {e \in Entries : k = "scoped" /\ st[e] \in Names \ watched /\ e \notin Seen(k)}

\* Streams a scoped sync removes: on channels of its groups, not in its answer, and of
\* a channel nobody watches, whose failover reads these rows.
Pruned(k, cat, st) ==
  {e \in Entries : /\ k = "scoped" /\ st[e] \in Names \ watched /\ e \notin Seen(k)
                   /\ cat[st[e]] \in Scope}

Unnumbered(cat) == {n \in Rows(cat) : number[n] = 0}

\* The database part of a sync.
Apply(k) ==
  /\ fetched[k] # Idle
  /\ LET new    == {n \in Names \ Rows(category) : \E e \in Seen(k) : fetched[k][e].name = n}
         cat    == [n \in Names |-> IF n \in new THEN fetched[k][FirstEntry(k, n)].group
                                                 ELSE category[n]]
         placed == [e \in Entries |-> IF e \in Seen(k) THEN fetched[k][e].name ELSE stream[e]]
         st     == [e \in Entries |-> IF e \in Pruned(k, cat, placed) THEN 0 ELSE placed[e]]
     IN /\ category' = cat /\ stream' = st
        /\ number' = IF k = "full" \/ new # {}
                       THEN Numbered(cat, number, Unnumbered(cat)) ELSE number
        /\ Reconcile(cat, st, hiddenCategories)
  /\ fetched' = [fetched EXCEPT ![k] = Idle]
  /\ UNCHANGED <<listing, hiddenCategories, watched, byHand, edits>>

Edit == edits < MAX_EDITS /\ edits' = edits + 1

\* The admin's renumbering of everything, block by block and by name inside a block.
Blocks == {Block[category[n]] : n \in Rows(category)}
Reflowed ==
  LET after[B \in SUBSET Blocks] ==
        IF B = {} THEN [n \in Names |-> 0]
        ELSE LET b == Largest(B)
             IN  Numbered(category, after[B \ {b}],
                          {n \in Rows(category) : Block[category[n]] = b})
  IN  after[Blocks]

Reflow ==
  /\ number' = Reflowed
  /\ Edit
  /\ UNCHANGED <<listing, fetched, stream, category, isHidden, hiddenReason,
                 hiddenCategories, watched, byHand>>

\* The admin hides or shows one channel: the reason is not touched.
PatchHidden(n, h) ==
  /\ category[n] # "none" /\ isHidden[n] # h
  /\ isHidden' = [isHidden EXCEPT ![n] = h]
  /\ byHand' = IF h THEN byHand \cup {n} ELSE byHand \ {n}
  /\ Edit
  /\ UNCHANGED <<listing, fetched, stream, category, number, hiddenReason,
                 hiddenCategories, watched>>

SetHiddenCategories(hc) ==
  /\ hiddenCategories' = hc
  /\ Reconcile(category, stream, hc)
  /\ Edit
  /\ UNCHANGED <<listing, fetched, stream, category, number, watched, byHand>>

\* The provider changes its listing; viewers come and go.
Relist(l) == /\ listing' = l
             /\ UNCHANGED <<fetched, stream, category, number, isHidden, hiddenReason,
                            hiddenCategories, watched, byHand, edits>>
Watch(n) == /\ n \in watched \/ n \in Streamed(stream)
            /\ watched' = IF n \in watched THEN watched \ {n} ELSE watched \cup {n}
            /\ UNCHANGED <<listing, fetched, stream, category, number, isHidden,
                           hiddenReason, hiddenCategories, byHand, edits>>

Next == \/ \E k \in Kinds : Fetch(k) \/ Apply(k)
        \/ Reflow \/ (\E hc \in {{}} \cup {Scope} : SetHiddenCategories(hc))
        \/ \E n \in Names : Watch(n) \/ \E h \in BOOLEAN : PatchHidden(n, h)
        \/ \E l \in Listings : Relist(l)

\* Both syncs recur (the tick re-arms itself) and the provider answers some of them.
Fairness == \A k \in Kinds : WF_vars(Fetch(k)) /\ WF_vars(Apply(k))
Spec == Init /\ [][Next]_vars /\ Fairness

-----------------------------------------------------------------------------
\* Numbers are distinct and never the mosaic's 1, whatever is added or renumbered
\* and however a block overflows into the next one (content/lineup.ts:21-24).
NumbersAreDistinct ==
  \A n \in Names : number[n] # 0 =>
    number[n] # 1 /\ \A m \in Names \ {n} : number[m] # number[n]

\* A number stays with its channel: no sync, of either kind, moves it (sync.ts:206).
NumbersStick == [][\A n \in Names : number[n] # 0 /\ number'[n] # number[n] => Reflow]_vars

\* After a sync, of all channels that are not hidden by hand exactly those are in the
\* guide that have a stream and no hidden group; a hide by hand, which has no reason, is
\* never undone by a sync (filter.ts:13).
SyncedGuide ==
  [][\A k \in Kinds : Apply(k) => \A n \in Rows(category') :
       IF isHidden[n] /\ hiddenReason[n] = "null" THEN isHidden'[n]
       ELSE isHidden'[n] = (n \notin Streamed(stream') \/ category'[n] \in hiddenCategories)]_vars

\* "Channels hidden by the user or a rule are left alone" (filter.ts:14).  A channel that
\* was hidden automatically and shown by hand keeps the automatic reason, so hiding it
\* by hand again leaves a hide that the next pass takes for its own: this fails.
HandHidesStay == \A n \in byHand : isHidden[n]

\* A stream row of a watched channel outlives every sync, unless its URL moved to another
\* channel: the failover of a running mux reads these rows (sync.ts:187-191).
WatchedKeepsStreams ==
  [][\A e \in Entries : stream[e] \in watched => stream'[e] # 0]_vars

\* What a provider lists for good gets its stream, and what it dropped for good from a
\* synced group loses it once nobody watches (sync.ts:85-89), although stale answers of
\* the other sync may be applied meanwhile.
ListingArrives ==
  \A e \in Entries : \A n \in Names :
    /\ <>[](listing[e].name = n /\ listing[e].group = category[n]) => <>[](stream[e] = n)
    /\ <>[](listing[e] = Unlisted /\ category[n] \in Scope /\ n \notin watched)
         => <>[](stream[e] # n)
=============================================================================
