------------------------------ MODULE ReelCache ------------------------------
(***************************************************************************)
(* The ring of pre-built reels (src/slate/builder.ts, src/slate/cache.ts): *)
(* a build composes one temporary file per family, moves each into a slot, *)
(* then replaces the manifest; a tune reads the manifest and, later, the   *)
(* file of the slot that is its turn.                                      *)
(*                                                                         *)
(* A reel is the number of its build, which stands for its bytes, its      *)
(* length and its loop point.                                              *)
(***************************************************************************)
EXTENDS Integers, Sequences, FiniteSets, SequencesExt

CONSTANTS Families,      \* in the order of FAMILIES
          RING_SIZE,
          MAX_BUILDS,    \* bound: builds ever begun
          Tunes          \* calls of loadReel

Slots == 0 .. RING_SIZE - 1
Entry == [slot : Slots, reel : 1 .. MAX_BUILDS]

VARIABLES
  ring,      \* the manifest: for each family its entries, newest first
  file,      \* the reel a slot's file holds, 0 when there is none
  build,     \* the build under way
  builds,
  cursor,    \* the round-robin position of each family
  tune       \* of a tune: the entry whose file it is about to read, what it got

vars == <<ring, file, build, builds, cursor, tune>>

Idle     == [at |-> "idle"]
Building == [at : {"composing", "placing"}, slot : Slots, reel : 1 .. MAX_BUILDS,
             placed : 0 .. Len(Families)]
Tuning   == [at : {"reading"}, family : Range(Families), entry : Entry]
Tuned    == [at : {"served"}, family : Range(Families), entry : Entry, got : 0 .. MAX_BUILDS]

TypeOK == /\ DOMAIN ring = Range(Families)
          /\ \A f \in DOMAIN ring : Len(ring[f]) <= RING_SIZE /\ Range(ring[f]) \subseteq Entry
          /\ file \in [Range(Families) -> [Slots -> 0 .. MAX_BUILDS]]
          /\ build \in {Idle} \cup Building
          /\ builds \in 0 .. MAX_BUILDS
          /\ \A f \in Range(Families) : cursor[f] \in -1 .. RING_SIZE * MAX_BUILDS
          /\ tune \in [Tunes -> {Idle} \cup Tuning \cup Tuned]

Init == /\ ring = [f \in Range(Families) |-> << >>]
        /\ file = [f \in Range(Families) |-> [s \in Slots |-> 0]]
        /\ build = Idle /\ builds = 0
        /\ cursor = [f \in Range(Families) |-> -1]
        /\ tune = [t \in Tunes |-> Idle]

SlotsOf(entries) == {entries[i].slot : i \in DOMAIN entries}

\* nextFreeSlot: the lowest unused number, or that of the oldest entry.
NextFreeSlot ==
  LET entries == ring[Head(Families)]
      unused  == Slots \ SlotsOf(entries)
  IN  IF unused # {} THEN CHOOSE s \in unused : \A r \in unused : s <= r
      ELSE Last(entries).slot

-----------------------------------------------------------------------------
(* A build.  Only one runs at a time (`building`).                         *)

BuildBegins ==
  /\ build = Idle /\ builds < MAX_BUILDS
  /\ builds' = builds + 1
  /\ build' = [at |-> "composing", slot |-> NextFreeSlot, reel |-> builds + 1, placed |-> 0]
  /\ UNCHANGED <<ring, file, cursor, tune>>

\* ffmpeg failed with both encoders, or the process restarts: nothing is placed.
BuildFails == /\ build.at \in {"composing", "placing"}
              /\ build' = Idle
              /\ UNCHANGED <<ring, file, builds, cursor, tune>>

Composed == /\ build.at = "composing"
            /\ build' = [build EXCEPT !.at = "placing"]
            /\ UNCHANGED <<ring, file, builds, cursor, tune>>

\* One rename; a crash between two of them leaves one family ahead.
Places == /\ build.at = "placing" /\ build.placed < Len(Families)
          /\ LET f == Families[build.placed + 1]
             IN  file' = [file EXCEPT ![f][build.slot] = build.reel]
          /\ build' = [build EXCEPT !.placed = @ + 1]
          /\ UNCHANGED <<ring, builds, cursor, tune>>

\* The filter drops the entry whose file the new reel takes; no two have the same slot.
Kept(entries) ==
  LET taken == {i \in DOMAIN entries : entries[i].slot = build.slot}
  IN  IF taken = {} THEN entries ELSE RemoveAt(entries, CHOOSE i \in taken : TRUE)

Rotated(entries) ==
  LET all == <<[slot |-> build.slot, reel |-> build.reel]>> \o Kept(entries)
  IN  SubSeq(all, 1, IF Len(all) < RING_SIZE THEN Len(all) ELSE RING_SIZE)

SavesManifest == /\ build.at = "placing" /\ build.placed = Len(Families)
                 /\ ring' = [f \in Range(Families) |-> Rotated(ring[f])]
                 /\ build' = Idle
                 /\ UNCHANGED <<file, builds, cursor, tune>>

-----------------------------------------------------------------------------
(* loadReel                                                                *)

\* The manifest is read and the cursor moves on.
TakesTurn(t, f) ==
  /\ tune[t].at # "reading" /\ ring[f] # << >>
  /\ cursor[f] < RING_SIZE * MAX_BUILDS
  /\ cursor' = [cursor EXCEPT ![f] = @ + 1]
  /\ tune' = [tune EXCEPT ![t] = [at |-> "reading", family |-> f,
                                  entry |-> ring[f][(cursor'[f] % Len(ring[f])) + 1]]]
  /\ UNCHANGED <<ring, file, build, builds>>

\* Mutant: the file is served whatever the manifest says of its length.
Matches_Any(e, reel) == TRUE

\* The byte count of the manifest against that of the file.
Matches(e, reel) == e.reel = reel

ReadsFile(t) ==
  /\ tune[t].at = "reading"
  /\ LET on_disk == file[tune[t].family][tune[t].entry.slot]
     IN  tune' = [tune EXCEPT ![t] =
                   [at |-> "served", family |-> @.family, entry |-> @.entry,
                    got |-> IF Matches(@.entry, on_disk) THEN on_disk ELSE 0]]
  /\ UNCHANGED <<ring, file, build, builds, cursor>>

Next == \/ BuildBegins \/ BuildFails \/ Composed \/ Places \/ SavesManifest
        \/ \E t \in Tunes : ReadsFile(t) \/ \E f \in Range(Families) : TakesTurn(t, f)

Spec == Init /\ [][Next]_vars

-----------------------------------------------------------------------------
\* A tune never plays a reel with another one's loop point, whatever build
\* replaced the file between its two reads.
ServedIsWhole == \A t \in Tunes :
  tune[t].at = "served" => tune[t].got \in {0, tune[t].entry.reel}

\* The manifest names no slot twice, every family has the same slots, and an
\* entry's file is its reel unless a build that did not save has taken that slot:
\* the builds of one slot lose at most the reel that was there.
ManifestIsTrue ==
  /\ \A f \in DOMAIN ring : Cardinality(SlotsOf(ring[f])) = Len(ring[f])
  /\ \A f, g \in DOMAIN ring : ring[f] = ring[g]
  /\ \A f \in DOMAIN ring :
       Cardinality({i \in DOMAIN ring[f] :
                      file[f][ring[f][i].slot] # ring[f][i].reel}) <= 1

\* What the source says of the ring: consecutive tunes of a family differ while
\* more than one reel is there (t stands for every tune when there is one).  It fails: a reel
\* that is built meanwhile moves the others up by one, and so the reel under the cursor.
ConsecutiveTunesDiffer == [][\A t \in Tunes :
  (/\ tune[t].at = "served" /\ tune'[t].at = "reading"
   /\ tune[t].family = tune'[t].family /\ Len(ring[tune[t].family]) > 1)
     => tune[t].entry # tune'[t].entry]_vars
=============================================================================
