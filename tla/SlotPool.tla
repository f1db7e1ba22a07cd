------------------------------ MODULE SlotPool ------------------------------
(***************************************************************************)
(* The provider slot pool (src/scheduler/pool.ts): one counter of slots in *)
(* use and one budget per provider.  The pool does not know who holds a    *)
(* slot, so a release that its holder did not own takes away somebody      *)
(* else's.                                                                 *)
(***************************************************************************)
EXTENDS Naturals, FiniteSetsExt

CONSTANT Providers          \* every provider whose budget is registered

VARIABLES used, max         \* Map<providerId, {used, max}>

poolVars == <<used, max>>

PoolTypeOK == /\ used \in [Providers -> Nat]
              /\ max \in [Providers -> Nat]

\* Mutant: one slot too many.
HasFreeSlot_OneMore(p) == used[p] <= max[p]
HasFreeSlot(p) == used[p] < max[p]

\* The pool after `acquire` succeeded; callers guard it with HasFreeSlot.
Acquired(u, p) == [u EXCEPT ![p] = @ + 1]

\* The pool after n calls of `release`: never below zero.
LessSlots(have, n) == IF have > n THEN have - n ELSE 0

Released(u, p) == [u EXCEPT ![p] = LessSlots(@, 1)]

TotalFree == MapThenSumSet(LAMBDA p : LessSlots(max[p], used[p]), Providers)

\* A new budget keeps the slots in use: it may shrink below them.
SetBudget(p, n) == /\ max' = [max EXCEPT ![p] = n]
                   /\ UNCHANGED used
=============================================================================
