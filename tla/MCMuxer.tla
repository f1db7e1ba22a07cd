------------------------------ MODULE MCMuxer -------------------------------
(* Instances of Muxer for TLC.                                             *)
EXTENDS Muxer, TLC

CONSTANTS c1, c2, s1, s2, s3, p1, p2

\* Two channels with one source each, on one provider.
SoloChannelOf  == s1 :> c1 @@ s2 :> c2
SoloProviderOf == s1 :> p1 @@ s2 :> p1
SoloQuality    == s1 :> 720 @@ s2 :> 1080

\* A channel with a backup: c2 has s2 on p1 and s3 on p2; c1 shares p1.
BackupChannelOf  == s1 :> c1 @@ s2 :> c2 @@ s3 :> c2
BackupProviderOf == s1 :> p1 @@ s2 :> p1 @@ s3 :> p2
BackupQuality    == s1 :> 720 @@ s2 :> 1080 @@ s3 :> 720

\* Two channels on one provider; a second provider is idle.
RingChannelOf  == SoloChannelOf
RingProviderOf == SoloProviderOf
RingQuality    == SoloQuality

\* Budgets at start.
OneSlot     == [p \in Providers |-> 1]
TwoSlots    == [p \in Providers |-> 2]
OneThenTwo  == [p \in Providers |-> IF p = p2 THEN 2 ELSE 1]

\* Nothing reads the fields of a mux that is gone: states that differ only
\* there are one state.
Gone(m) == \/ Reusable(m)
           \/ /\ phase[m] = "closing" /\ ~started[m] /\ subs[m] = {}
              /\ ~graceTimer[m] /\ ~Active(m)
Mask(f, blank) == [m \in Muxes |-> IF Gone(m) THEN blank ELSE f[m]]
LiveView == << poolVars, selectorVars, openVars, ringVars, subs, started, graceTimer,
               [m \in Muxes |-> IF Reusable(m) THEN "idle" ELSE phase[m]],
               Mask(stream, None), Mask(stopping, FALSE), Mask(failed, {}),
               Mask(reconnects, 0), [m \in Muxes |-> longRun[m] /\ phase[m] \in Pumping \cup {"nap"}] >>

MuxSymmetry == Permutations(Muxes) \cup Permutations(Viewers)
=============================================================================
