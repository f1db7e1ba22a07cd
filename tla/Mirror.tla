------------------------------- MODULE Mirror -------------------------------
(***************************************************************************)
(* The .strm mirror of the VOD movies (ingest/vodlibrary.ts).  A rebuild   *)
(* reads the catalogue, asks the media server which titles exist as real   *)
(* files, writes what is wanted and deletes every other folder.  The       *)
(* scheduled rebuild and one started by hand take no notice of each other. *)
(***************************************************************************)
EXTENDS Naturals, FiniteSets

CONSTANTS Titles,
          Rebuilds   \* the scheduled rebuild and one by hand

VARIABLES
  listed,     \* titles of the catalogue in an allowed category
  real,       \* titles the media server has as real files
  reachable,  \* the media server answers
  files,      \* folders of the mirror
  rebuild,    \* rebuild[r]: its phase, what it wants and has left to do
  steady      \* history: titles wanted at every moment since r began

vars == <<listed, real, reachable, files, rebuild, steady>>

Resting == [phase |-> "idle", wanted |-> {}, todo |-> {}]

TypeOK ==
  /\ listed \subseteq Titles /\ real \subseteq Titles /\ files \subseteq Titles
  /\ reachable \in BOOLEAN /\ steady \in [Rebuilds -> SUBSET Titles]
  /\ rebuild \in [Rebuilds -> [phase : {"idle", "lookup", "write", "prune"},
                               wanted : SUBSET Titles, todo : SUBSET Titles]]

Init ==
  /\ listed = {} /\ real = {} /\ reachable = TRUE /\ files = {}
  /\ rebuild = [r \in Rebuilds |-> Resting] /\ steady = [r \in Rebuilds |-> {}]

-----------------------------------------------------------------------------
\* The catalogue is read.
Begin(r) ==
  /\ rebuild[r].phase = "idle"
  /\ rebuild' = [rebuild EXCEPT ![r] = [Resting EXCEPT !.phase = "lookup", !.wanted = listed]]
  /\ steady' = [steady EXCEPT ![r] = listed \ real]
  /\ UNCHANGED <<listed, real, reachable, files>>

\* Mutant: the app's own stubs count as owned.
Owned_Stubs(answer) == answer \cup (IF reachable THEN files ELSE {})

\* What the media server says is owned: the .strm entries of the mirror itself do not
\* count.  An answer that breaks off after the first page is a part of it; without an
\* answer nothing is skipped.
Owned(answer) == answer

Answers == IF reachable THEN {real} ELSE SUBSET real

Lookup(r) ==
  /\ rebuild[r].phase = "lookup"
  /\ \E answer \in Answers :
       LET wanted == rebuild[r].wanted \ Owned(answer)
       IN rebuild' = [rebuild EXCEPT ![r] = [phase |-> "write", wanted |-> wanted,
                                             todo |-> wanted]]
  /\ UNCHANGED <<listed, real, reachable, files, steady>>

\* One title is written if it is not there; when all are, the directory is read.
Write(r) ==
  /\ rebuild[r].phase = "write"
  /\ \E t \in rebuild[r].todo :
       /\ files' = files \cup {t}
       /\ rebuild' = [rebuild EXCEPT ![r].todo = @ \ {t}]
  /\ UNCHANGED <<listed, real, reachable, steady>>

\* Mutant: only what the provider stopped listing is removed.
Extraneous_Unlisted(r) == files \ listed

\* Mutant: every file is removed first.
Extraneous_All(r) == files

Extraneous(r) == files \ rebuild[r].wanted

ReadDir(r) ==
  /\ rebuild[r].phase = "write" /\ rebuild[r].todo = {}
  /\ rebuild' = [rebuild EXCEPT ![r].phase = "prune", ![r].todo = Extraneous(r)]
  /\ UNCHANGED <<listed, real, reachable, files, steady>>

\* One folder that was there and is not wanted is removed.
Prune(r) ==
  /\ rebuild[r].phase = "prune"
  /\ \E t \in rebuild[r].todo :
       /\ files' = files \ {t}
       /\ rebuild' = [rebuild EXCEPT ![r].todo = @ \ {t}]
  /\ UNCHANGED <<listed, real, reachable, steady>>

End(r) ==
  /\ rebuild[r].phase = "prune" /\ rebuild[r].todo = {}
  /\ rebuild' = [rebuild EXCEPT ![r] = Resting]
  /\ steady' = [steady EXCEPT ![r] = {}]
  /\ UNCHANGED <<listed, real, reachable, files>>

\* The catalogue or the allowed categories change; the user adds or deletes a real file;
\* the media server goes and comes.
Change(t) ==
  /\ \/ listed' = (listed \ {t}) \cup ({t} \ listed) /\ UNCHANGED real
     \/ real' = (real \ {t}) \cup ({t} \ real) /\ UNCHANGED listed
  /\ steady' = [r \in Rebuilds |-> steady[r] \cap (listed' \ real')]
  /\ UNCHANGED <<reachable, files, rebuild>>
Reach == reachable' = ~reachable /\ UNCHANGED <<listed, real, files, rebuild, steady>>

Next == \/ \E r \in Rebuilds : Begin(r) \/ Lookup(r) \/ Write(r) \/ ReadDir(r)
                               \/ Prune(r) \/ End(r)
        \/ (\E t \in Titles : Change(t)) \/ Reach

\* The scheduled rebuild recurs; a rebuild that began goes on.
Goes(r) == Lookup(r) \/ Write(r) \/ ReadDir(r) \/ Prune(r) \/ End(r)
Fairness == \A r \in Rebuilds : WF_vars(Goes(r)) /\ WF_vars(Begin(r))
Spec == Init /\ [][Next]_vars /\ Fairness

-----------------------------------------------------------------------------
\* A rebuild removes no title that was wanted all the while it ran, whatever the media
\* server failed to answer (vodlibrary.ts:168, 179) and whatever another rebuild does.
WantedIsKept == [][\A r \in Rebuilds : Prune(r) => steady[r] \cap files \subseteq files']_vars

\* Once catalogue and real files have settled, the mirror is what is listed and not owned,
\* although rebuilds overlap and each deletes what it did not want itself.
MirrorSettles ==
  \A t \in Titles :
    /\ <>[](t \in listed \ real) => <>[](t \in files)
    /\ (<>[](t \notin listed) \/ <>[](t \in real /\ reachable)) => <>[](t \notin files)
=============================================================================
