------------------------------ MODULE Matcher -------------------------------
(***************************************************************************)
(* Canonical matching (canonical/matcher.ts) as a provider sync uses it:   *)
(* every entry of a listing is given the id of a channel, by its EPG id,   *)
(* by its exact normalized name, or by the nearest known name.  A name is  *)
(* the slug that normalizeName makes of it, a sequence of characters; an   *)
(* id is a slug and a country.                                             *)
(***************************************************************************)
EXTENDS Integers, SequencesExt

CONSTANTS
  Listed,      \* the entries providers list: one stream URL each
  Slug,        \* Slug[e]: its normalized name
  Country,     \* Country[e]: its country bucket
  TvgId,       \* TvgId[e]: the id its EPG id stands for, or None
  None,
  Orders       \* the listings, as sequences of entries

VARIABLES
  channels,    \* the ids of the channels, oldest first
  stream,      \* stream[e]: the channel the stream of e is attached to, or None
  last         \* history: the entries of the last sync

vars == <<channels, stream, last>>

Id(slug, country) == [slug |-> slug, country |-> country]
Ids == {Id(Slug[e], Country[e]) : e \in Listed} \cup ({TvgId[e] : e \in Listed} \ {None})

TypeOK == /\ channels \in Seq(Ids) /\ IsInjective(channels)
          /\ stream \in [Listed -> ToSet(channels) \cup {None}]
          /\ last \subseteq Listed

Init == channels = << >> /\ stream = [e \in Listed |-> None] /\ last = {}

-----------------------------------------------------------------------------
(* How near two names are.                                                 *)

Smaller(x, y) == IF x <= y THEN x ELSE y
Larger(x, y)  == IF x <= y THEN y ELSE x
UpTo(n) == [i \in 1..n |-> i]

\* levenshtein: one row of the table per character of a, from the row before.
Row(a, b, prev, i) ==
  FoldLeft(LAMBDA curr, j : Append(curr,
             Smaller(Smaller(curr[j] + 1, prev[j + 1] + 1),
                     prev[j] + (IF a[i] = b[j] THEN 0 ELSE 1))),
           <<i>>, UpTo(Len(prev) - 1))
Distance(a, b) ==
  Last(FoldLeft(LAMBDA prev, i : Row(a, b, prev, i),
                [j \in 1..Len(b) + 1 |-> j - 1], UpTo(Len(a))))

\* similarity, as the fraction kept / length.
Length(a, b) == Larger(Len(a), Len(b))
Kept(a, b)   == Length(a, b) - Distance(a, b)
SimilarEnough(a, b) == a # << >> /\ b # << >> /\ 100 * Kept(a, b) >= 86 * Length(a, b)
Nearer(a, b, c) == Kept(a, b) * Length(a, c) > Kept(a, c) * Length(a, b)

\* digitRuns: the groups of digits of a slug.  The fold carries whether a group is open.
Digits == {"0", "1", "2", "3", "4", "5", "6", "7", "8", "9"}
DigitRuns(slug) ==
  FoldLeft(LAMBDA acc, ch :
             IF ch \notin Digits THEN [acc EXCEPT !.open = FALSE]
             ELSE IF acc.open THEN [acc EXCEPT !.runs[Len(acc.runs)] = Append(@, ch)]
             ELSE [runs |-> Append(acc.runs, <<ch>>), open |-> TRUE],
           [runs |-> << >>, open |-> FALSE], slug).runs

-----------------------------------------------------------------------------
(* matchCanonical.  `known` is a sequence of [id, slug], oldest first.     *)

Has(known, id) == \E i \in DOMAIN known : known[i].id = id
Learned(known, id, slug) ==
  IF Has(known, id) THEN known ELSE Append(known, [id |-> id, slug |-> slug])

\* Mutant: nobody looks at the numbers.
Candidates_AnyNumber(e, known) ==
  {i \in DOMAIN known : known[i].id.country = Country[e] /\ SimilarEnough(Slug[e], known[i].slug)}

Candidates(e, known) ==
  {i \in DOMAIN known : /\ known[i].id.country = Country[e]
                        /\ DigitRuns(known[i].slug) = DigitRuns(Slug[e])
                        /\ SimilarEnough(Slug[e], known[i].slug)}

\* The nearest, and the oldest of those as near: the loop over what is known keeps the best
\* so far, 0 before there is one.
Best(e, known) ==
  LET best[n \in 0..Len(known)] ==
        IF n = 0 THEN 0
        ELSE LET b == best[n - 1]
             IN  IF /\ n \in Candidates(e, known)
                    /\ b = 0 \/ Nearer(Slug[e], known[n].slug, known[b].slug)
                 THEN n ELSE b
  IN  best[Len(known)]

\* Mutant: the nearest name is looked for before the very name.
MatchedId_FuzzyFirst(e, known) ==
  IF TvgId[e] # None THEN TvgId[e]
  ELSE IF \E i \in Candidates(e, known) : known[i].id # Id(Slug[e], Country[e])
  THEN known[CHOOSE i \in Candidates(e, known) : known[i].id # Id(Slug[e], Country[e])].id
  ELSE Id(Slug[e], Country[e])

MatchedId(e, known) ==
  IF TvgId[e] # None THEN TvgId[e]
  ELSE IF Has(known, Id(Slug[e], Country[e])) \/ Candidates(e, known) = {}
  THEN Id(Slug[e], Country[e])
  ELSE known[Best(e, known)].id

\* loadKnown: what a sync knows of the channels there are is the head of their ids.
Known == [i \in DOMAIN channels |-> [id |-> channels[i], slug |-> channels[i].slug]]

\* The database part of a sync is one turn of the event loop.  It upserts in the order of
\* the listing and prunes nothing.
Synced(order) ==
  LET after[n \in 0..Len(order)] ==
        IF n = 0 THEN [known |-> Known, stream |-> stream]
        ELSE LET e == order[n] acc == after[n - 1] id == MatchedId(e, acc.known)
             IN  [known |-> Learned(acc.known, id, Slug[e]),
                  stream |-> [acc.stream EXCEPT ![e] = id]]
  IN  after[Len(order)]

Sync(order) ==
  \E after \in {Synced(order)} :
    /\ channels' = [i \in DOMAIN after.known |-> after.known[i].id]
    /\ stream' = after.stream
    /\ last' = ToSet(order)

Next == \E order \in Orders : Sync(order)

Spec == Init /\ [][Next]_vars

-----------------------------------------------------------------------------
Untagged(e) == TvgId[e] = None
Merged(e, f) == Untagged(e) /\ Untagged(f) /\ stream[e] = stream[f]

\* "Numbered siblings ... are DISTINCT channels and must never merge": what one sync puts
\* on one channel by its name carries the same numbers, whatever came first and whatever
\* earlier syncs have left behind.
SiblingsStayApart ==
  \A e, f \in last : Merged(e, f) => DigitRuns(Slug[e]) = DigitRuns(Slug[f])

\* A stream that gave its channel the name is not moved by a later sync, however near the
\* names that came in since: watched or favourite channels keep the source they are named
\* after.
FoundersStay ==
  [][\A e \in Listed : Untagged(e) /\ stream[e] = Id(Slug[e], Country[e])
                         => stream'[e] = stream[e]]_vars

\* "exact normalized-slug match groups obvious duplicates" (matcher.ts:7): entries of one
\* sync with the same normalized name are sources of the same channel.
DuplicatesAreGrouped ==
  \A e, f \in last : /\ Untagged(e) /\ Untagged(f)
                     /\ Slug[e] = Slug[f] /\ Country[e] = Country[f]
                     => stream[e] = stream[f]
-----------------------------------------------------------------------------
(* An instance for TLC: "FOX Sport", "FOX Sports", "FOX Sports W" and      *)
(* "FOX Sports [HD]" of one provider.                                      *)

FoxSport    == <<"f", "o", "x", "s", "p", "o", "r", "t">>
FoxSports   == FoxSport \o <<"s">>
FourEntries == 1..4
FourSlugs   == <<FoxSport, FoxSports, FoxSports \o <<"w">>, FoxSports>>
OneCountry  == [e \in FourEntries |-> "us"]
NoTvgIds    == [e \in FourEntries |-> None]
AllOrders   == SetToSeqs(FourEntries)
=============================================================================
