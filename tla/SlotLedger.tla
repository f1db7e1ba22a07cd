----------------------------- MODULE SlotLedger -----------------------------
(***************************************************************************)
(* What the slot pool promises (the header of src/scheduler/pool.ts): a    *)
(* slot is held per upstream connection, a connection takes one only while *)
(* its provider's budget allows another, and gives back only its own.      *)
(* Muxer implements this with two anonymous counters per provider.         *)
(***************************************************************************)
EXTENDS Naturals, FiniteSets

CONSTANTS Connections, Providers, None

VARIABLES held,      \* the provider whose slot a connection holds, or None
          budget

HoldersOf(h, p) == {c \in Connections : h[c] = p}

LedgerInit == /\ held = [c \in Connections |-> None]
              /\ budget \in [Providers -> Nat]

\* A connection takes a slot of p; one it still had is given back first.
Take(c, p) ==
  /\ Cardinality(HoldersOf(held, p) \ {c}) < budget[p]
  /\ held' = [held EXCEPT ![c] = p]
  /\ UNCHANGED budget

GiveBack(D) == /\ held' = [c \in Connections |-> IF c \in D THEN None ELSE held[c]]
               /\ UNCHANGED budget

\* A new budget takes no slot from anybody.
Rebudget(p) == /\ budget' \in [Providers -> Nat]
               /\ \A q \in Providers \ {p} : budget'[q] = budget[q]
               /\ UNCHANGED held

LedgerNext == \/ \E c \in Connections, p \in Providers : Take(c, p)
              \/ \E D \in SUBSET Connections : GiveBack(D)
              \/ \E p \in Providers : Rebudget(p)

LedgerSpec == LedgerInit /\ [][LedgerNext]_<<held, budget>>
=============================================================================
