------------------------------- MODULE MCDvr --------------------------------
(* Instances of Dvr for TLC.                                               *)
EXTENDS Dvr

CONSTANTS p1, p2

\* Two programmes that overlap.
TwoStartAt == [p \in Programmes |-> IF p = p1 THEN 0 ELSE 1]
TwoEndAt   == [p \in Programmes |-> 2]

\* Recordings end: their subscriptions, and their rows in a verdict.
RecordingsEnd == SubscriptionsEnd /\ RowsSettle
=============================================================================
