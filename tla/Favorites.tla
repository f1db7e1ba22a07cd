----------------------------- MODULE Favorites ------------------------------
(***************************************************************************)
(* The favourites poll (sync/favorites.ts).  A pass asks each media server *)
(* in turn for the favourite channels of each of its users, and replaces   *)
(* the server's rows, which weight the warm ring, if every answer came.    *)
(* Nothing keeps a slow pass and its successor apart, and the watchdog     *)
(* starts another pass when none has ended for three intervals.            *)
(***************************************************************************)
EXTENDS Naturals, FiniteSets

CONSTANTS Servers,  \* the media servers 1, 2, ... in the order they are polled
          Users,    \* the users 1, 2, ... of each
          Channels, \* what a favourite can be mapped to
          Passes,   \* passes that may be under way at once
          MAX_EDITS \* bound: changes of favourites, of the lineup and of who answers

VARIABLES
  lineup,   \* channels that are not hidden and have a number
  starred,  \* starred[s]: the <<user, channel>> pairs the server holds
  broken,   \* servers that do not answer
  rows,     \* rows[s]: downstream_favorites
  at,       \* at[p]: the server pass p is at, 0: there is no such pass
  asked,    \* asked[p]: how many of its users have answered
  got,      \* got[p]: the rows they gave
  kept,     \* kept[s]: pairs that were starred, and their channel listed, all along
  edits

vars == <<lineup, starred, broken, rows, at, asked, got, kept, edits>>
world == <<lineup, starred, broken, kept, edits>>

Pairs == Users \X Channels

TypeOK ==
  /\ lineup \subseteq Channels /\ broken \subseteq Servers /\ edits \in 0..MAX_EDITS
  /\ starred \in [Servers -> SUBSET Pairs] /\ rows \in [Servers -> SUBSET Pairs]
  /\ at \in [Passes -> Servers \cup {0}] /\ asked \in [Passes -> {0} \cup Users]
  /\ got \in [Passes -> SUBSET Pairs] /\ kept \in [Servers -> SUBSET Pairs]

Init ==
  /\ lineup = Channels /\ starred \in [Servers -> {{}, Pairs}] /\ broken = {}
  /\ rows = [s \in Servers |-> {}] /\ at = [p \in Passes |-> 0]
  /\ asked = [p \in Passes |-> 0] /\ got = [p \in Passes |-> {}]
  /\ kept = starred /\ edits = 0

-----------------------------------------------------------------------------
\* The timer, a start of the loop or the watchdog's restart: a pass begins.
Tick(p) == /\ at[p] = 0 /\ at' = [at EXCEPT ![p] = 1]
           /\ UNCHANGED <<rows, asked, got, world>>

\* Pass p turns to the next server, or ends.
Onward(p) == /\ at' = [at EXCEPT ![p] = IF @ + 1 \in Servers THEN @ + 1 ELSE 0]
             /\ asked' = [asked EXCEPT ![p] = 0] /\ got' = [got EXCEPT ![p] = {}]

\* mapFavorite: what cannot be mapped to a channel of the lineup is left out.
Mapped(s, u) == {x \in starred[s] : x[1] = u /\ x[2] \in lineup}

\* A user's favourites arrive.
Answer(p) ==
  LET s == at[p] u == asked[p] + 1
  IN /\ s # 0 /\ s \notin broken /\ u \in Users
     /\ asked' = [asked EXCEPT ![p] = u]
     /\ got' = [got EXCEPT ![p] = @ \cup Mapped(s, u)]
     /\ UNCHANGED <<rows, at, world>>

\* Mutant: rows are only added.
Replaced_Added(p) == [rows EXCEPT ![at[p]] = @ \cup got[p]]

\* The last one has: the server's rows are replaced.
Replaced(p) == [rows EXCEPT ![at[p]] = got[p]]
Replace(p) == /\ at[p] # 0 /\ asked[p] + 1 \notin Users
              /\ rows' = Replaced(p) /\ Onward(p) /\ UNCHANGED world

\* Mutant: a half answer replaces the rows.
Thrown_Replaces(p) == [rows EXCEPT ![at[p]] = got[p]]

\* A call throws: the server's rows stay as they are.
Thrown(p) == rows
Throw(p) == /\ at[p] \in broken /\ asked[p] + 1 \in Users
            /\ rows' = Thrown(p) /\ Onward(p) /\ UNCHANGED world

\* A user marks a channel or unmarks it; a channel leaves the lineup or comes back; a
\* server stops answering or answers again.
Star(s, x) ==
  /\ starred' = [starred EXCEPT ![s] = IF x \in @ THEN @ \ {x} ELSE @ \cup {x}]
  /\ kept' = [kept EXCEPT ![s] = @ \ {x}] /\ UNCHANGED <<lineup, broken>>
List(c) ==
  /\ lineup' = IF c \in lineup THEN lineup \ {c} ELSE lineup \cup {c}
  /\ kept' = [s \in Servers |-> {x \in kept[s] : x[2] # c}] /\ UNCHANGED <<starred, broken>>
Break(s) == /\ broken' = IF s \in broken THEN broken \ {s} ELSE broken \cup {s}
            /\ UNCHANGED <<lineup, starred, kept>>
Change == /\ edits < MAX_EDITS /\ edits' = edits + 1
          /\ \/ \E s \in Servers : Break(s) \/ \E x \in Pairs : Star(s, x)
             \/ \E c \in Channels : List(c)
          /\ UNCHANGED <<rows, at, asked, got>>

Next == Change \/ \E p \in Passes : Tick(p) \/ Answer(p) \/ Replace(p) \/ Throw(p)

\* Passes recur, and each call ends within its 15 seconds.
Fairness == \A p \in Passes : /\ WF_vars(Tick(p))
                              /\ WF_vars(Answer(p) \/ Replace(p) \/ Throw(p))
Spec == Init /\ [][Next]_vars /\ Fairness

-----------------------------------------------------------------------------
\* A bad poll never erases anything (favorites.ts:60-67): a favourite that was there all
\* along stays in the table once it is in it, although servers fail between one user and
\* the next and passes overlap.
NothingIsErased == [][\A s \in Servers : rows[s] \cap kept[s] \subseteq rows'[s]]_vars

\* The table follows: each server that answers in the end has the rows its users marked,
\* although an older pass may have put an older answer over a newer one, and whatever
\* the other servers do.
FavoritesFollow ==
  \A s \in Servers :
    \/ []<>(s \in broken)
    \/ <>[](rows[s] = {x \in starred[s] : x[2] \in lineup})
=============================================================================
