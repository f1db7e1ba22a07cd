------------------------------ MODULE Catalog -------------------------------
(***************************************************************************)
(* The VOD catalogue of an Xtream provider (ingest/vod.ts): a sync asks    *)
(* for the categories of movies and series at once, then for the movies,   *)
(* then for the series, and upserts what it was told in short transactions *)
(* between which everything else runs.  The scheduled sync and the one an  *)
(* admin starts take no notice of each other.                              *)
(***************************************************************************)
EXTENDS Naturals, FiniteSets

CONSTANTS
  Movies, Shows,    \* the titles a provider may list, numbered in the order it lists them
  Syncs,            \* 1, the scheduled sync, and one by hand
  BATCH,            \* titles in one transaction
  MAX_CHANGES       \* bound: changes of the provider's listing, and restarts

VARIABLES
  offer,            \* offer[t]: the category the provider lists t in, "none" if it does not
  table,            \* table[t]: its row's category, "NULL" without one, "none" if no row
  sync,             \* sync[r]: the phase and kind, the requests that fail, the listing it was
                    \* told, and what of it is left to write
  changes

vars == <<offer, table, sync, changes>>

Items      == Movies \cup Shows
Kinds      == {"movie", "series"}
Of(kind)   == IF kind = "movie" THEN Movies ELSE Shows
Categories == {"x", "y"}

Unlisted == [t \in Items |-> "none"]
Resting  == [phase |-> "idle", kind |-> "movie", unnamed |-> {}, heard |-> {},
             told |-> Unlisted, todo |-> {}]

TypeOK ==
  /\ offer \in [Items -> Categories \cup {"none"}]
  /\ table \in [Items -> Categories \cup {"NULL", "none"}]
  /\ sync \in [Syncs -> [phase : {"idle", "ask", "write"}, kind : Kinds,
                         unnamed : SUBSET Kinds, heard : SUBSET Kinds,
                         told : [Items -> Categories \cup {"none"}], todo : SUBSET Items]]
  /\ changes \in 0..MAX_CHANGES

\* The process starts on an empty table or on the one it left.
Init == /\ offer = [t \in Items |-> "x"] /\ table \in {Unlisted, offer}
        /\ sync = [r \in Syncs |-> Resting] /\ changes = 0

-----------------------------------------------------------------------------
\* A sync begins.  What becomes of its four requests is chosen here: it will hear the
\* listings of the kinds `heard`, and not the categories of those of them in `unnamed`.
Begin(r) == \E heard \in {{}, {"movie"}, Kinds} : \E unnamed \in SUBSET heard :
  /\ sync[r].phase = "idle"
  /\ sync' = [sync EXCEPT ![r] = [Resting EXCEPT !.phase = "ask", !.unnamed = unnamed,
                                                 !.heard = heard]]
  /\ UNCHANGED <<offer, table, changes>>

\* The listing of one kind arrives, as it is now.
Hears(r) ==
  /\ sync[r].phase = "ask" /\ sync[r].kind \in sync[r].heard
  /\ LET told == [t \in Items |-> IF t \in Of(sync[r].kind) THEN offer[t] ELSE "none"]
     IN  sync' = [sync EXCEPT ![r].phase = "write", ![r].told = told,
                              ![r].todo = {t \in Items : told[t] # "none"}]
  /\ UNCHANGED <<offer, table, changes>>

\* Or its request throws, which ends the sync: the movies that are in stay in.
Throws(r) ==
  /\ sync[r].phase = "ask" /\ sync[r].kind \notin sync[r].heard
  /\ sync' = [sync EXCEPT ![r] = Resting]
  /\ UNCHANGED <<offer, table, changes>>

\* Category requests that fail count as empty lists: the title gets none.
Category(r, t) == IF sync[r].kind \in sync[r].unnamed THEN "NULL" ELSE sync[r].told[t]
Batch(r) == {t \in sync[r].todo : Cardinality({u \in sync[r].todo : u < t}) < BATCH}

\* Mutant: a row that exists is left as it is.
Upserted_New(r) ==
  [t \in Items |-> IF t \in Batch(r) /\ table[t] = "none" THEN Category(r, t) ELSE table[t]]
Upserted(r) == [t \in Items |-> IF t \in Batch(r) THEN Category(r, t) ELSE table[t]]

\* One transaction of this kind; after the last one the other kind is asked for.
Write(r) ==
  /\ sync[r].phase = "write"
  /\ IF sync[r].todo # {}
       THEN table' = Upserted(r) /\ sync' = [sync EXCEPT ![r].todo = @ \ Batch(r)]
       ELSE /\ sync' = [sync EXCEPT ![r] =
                 IF sync[r].kind = "series" THEN Resting
                 ELSE [sync[r] EXCEPT !.phase = "ask", !.kind = "series", !.told = Unlisted,
                                      !.unnamed = sync[r].unnamed \ {"movie"}]]
            /\ UNCHANGED table
  /\ UNCHANGED <<offer, changes>>

Step(r) == Begin(r) \/ Hears(r) \/ Throws(r) \/ Write(r)

Restart == /\ \E r \in Syncs : sync[r] # Resting
           /\ changes < MAX_CHANGES /\ changes' = changes + 1
           /\ sync' = [r \in Syncs |-> Resting]
           /\ UNCHANGED <<offer, table>>

ProviderChanges(t) == \E c \in (Categories \cup {"none"}) \ {offer[t]} :
  /\ changes < MAX_CHANGES /\ changes' = changes + 1
  /\ offer' = [offer EXCEPT ![t] = c]
  /\ UNCHANGED <<table, sync>>

Next == \/ \E r \in Syncs : Step(r)
        \/ Restart
        \/ \E t \in Items : ProviderChanges(t)

\* The scheduled sync recurs and goes on, and now and then all its requests are answered.
\* Nobody has to start one by hand.
Answered(r) == Begin(r) /\ sync'[r].unnamed = {} /\ sync'[r].heard = Kinds
Fairness == WF_vars(Step(1)) /\ SF_vars(Answered(1))
Spec == Init /\ [][Next]_vars /\ Fairness

-----------------------------------------------------------------------------
\* A title the provider keeps in a category is found there again and again, although a
\* category request that fails takes it out of every category until the next sync, an
\* overlapping sync may bring back an older listing, and a restart leaves half a listing.
CatalogFollows ==
  \A t \in Items, c \in Categories : []<>(offer[t] # c) \/ []<>(table[t] = c)
=============================================================================
