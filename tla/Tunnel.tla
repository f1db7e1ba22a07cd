------------------------------- MODULE Tunnel -------------------------------
(***************************************************************************)
(* One VPN tunnel (net/tunnel.ts): the entry of the `tunnels` map, the     *)
(* helper processes it spawned, the restart timers, and what a provider    *)
(* pinned to the VPN gets as its egress (net/egress.ts).  Only the current *)
(* helper counts; a killed one lives on for a while and still listens on   *)
(* the SOCKS port.  Ids are not reused: a deleted row stays deleted.       *)
(***************************************************************************)
EXTENDS Naturals, FiniteSets

CONSTANTS Procs,        \* helper processes
          None,         \* no process
          MAX_TIMERS,   \* bound: restart timers armed at once
          MAX_FAULTS    \* bound: helper deaths, spawns that throw, restarts by the admin

VARIABLES
  row,       \* the VPN's row exists
  autostart, \* its flag
  booting,   \* the boot read the flag as set, and is busy with the VPNs before this one
  proc,      \* entry.proc
  status,    \* entry.status
  stopping,  \* entry.stopping
  bridge,    \* entry.bridge is open
  timers,    \* restart timers armed by the exit handler
  helper,    \* helper[p]: "none", "runs", "killed"
  listens,   \* the helper that holds the SOCKS port
  monitor,   \* monitor[p]: "none", "asks" portIsOpen, has its answer, "sleeps"
  threw,     \* the last spawn threw
  faults

vars == <<row, autostart, booting, proc, status, stopping, bridge, timers, helper, listens,
          monitor, threw, faults>>
entry == <<proc, status, stopping, bridge>>
world == <<row, autostart, booting, threw, faults>>

TypeOK ==
  /\ row \in BOOLEAN /\ autostart \in BOOLEAN /\ booting \in BOOLEAN
  /\ proc \in Procs \cup {None} /\ listens \in Procs \cup {None}
  /\ status \in {"starting", "up", "down", "error"}
  /\ stopping \in BOOLEAN /\ bridge \in BOOLEAN /\ timers \in 0..MAX_TIMERS
  /\ helper \in [Procs -> {"none", "runs", "killed"}]
  /\ monitor \in [Procs -> {"none", "asks", "open", "shut", "sleeps"}]
  /\ threw \in BOOLEAN /\ faults \in 0..MAX_FAULTS

Init ==
  /\ row = TRUE /\ autostart \in BOOLEAN /\ booting = autostart /\ proc = None /\ status = "down"
  /\ stopping = FALSE /\ bridge = FALSE /\ timers = 0 /\ listens = None
  /\ helper = [p \in Procs |-> "none"] /\ monitor = [p \in Procs |-> "none"]
  /\ threw = FALSE /\ faults = 0

-----------------------------------------------------------------------------
\* Processes have no names: a new one takes the first whose predecessor's monitor ended.
Fresh(p) == LET free == {q \in Procs : helper[q] = "none" /\ monitor[q] = "none"}
            IN p \in free /\ p = CHOOSE q \in free : TRUE

\* Mutant: stop sends no signal.
Killed_Kept == helper

\* stopVpn: the current helper gets its signal and is forgotten at once.
Killed == [p \in Procs |-> IF p = proc THEN "killed" ELSE helper[p]]
Stops == /\ proc' = None /\ status' = "down" /\ stopping' = TRUE /\ bridge' = FALSE
         /\ helper' = Killed /\ UNCHANGED <<monitor, threw>>

\* spawnTunnel up to its first await, with the other helpers as given: helper, monitor
\* and bridge; or it throws, because a binary or a directory is missing: nothing retries.
Spawned(p, others) ==
  /\ Fresh(p)
  /\ proc' = p /\ status' = "starting" /\ stopping' = FALSE /\ bridge' = TRUE
  /\ helper' = [others EXCEPT ![p] = "runs"] /\ monitor' = [monitor EXCEPT ![p] = "asks"]
  /\ threw' = FALSE
Throws(others, open) ==
  /\ proc' = None /\ status' = "error" /\ stopping' = FALSE /\ bridge' = open
  /\ helper' = others /\ threw' = TRUE /\ UNCHANGED monitor
Spends == faults < MAX_FAULTS /\ faults' = faults + 1

\* Mutant: a start does not ask whether a helper runs.
Starts_Again == \/ UNCHANGED faults /\ \E p \in Procs : Spawned(p, helper)
                \/ Spends /\ Throws(helper, bridge)

\* startVpn: one helper per entry.
Starts == IF ~row \/ proc # None
            THEN UNCHANGED <<entry, helper, monitor, threw, faults>>
            ELSE \/ UNCHANGED faults /\ \E p \in Procs : Spawned(p, helper)
                 \/ Spends /\ Throws(helper, bridge)

\* reconcileTunnels at boot goes through the rows it read at first, one tunnel's bring-up
\* after the other: it dials a VPN that was stopped meanwhile, unless the row is gone.
Boot == /\ booting /\ booting' = FALSE
        /\ Starts /\ UNCHANGED <<row, autostart, timers, listens>>

\* PATCH stops the tunnel and starts it if autostart is on; POST restart starts it anyway;
\* DELETE and the shutdown stop it.  All of it is one turn.
Redial == /\ row /\ Spends /\ autostart' \in {autostart, TRUE}
          /\ (\E p \in Procs : Spawned(p, Killed)) \/ Throws(Killed, FALSE)
          /\ UNCHANGED <<row, booting, timers, listens>>
Stop == /\ row /\ autostart' = FALSE /\ Stops
        /\ UNCHANGED <<row, booting, timers, listens, faults>>
Delete == /\ row /\ row' = FALSE /\ Stops
          /\ UNCHANGED <<autostart, booting, timers, listens, faults>>

\* Mutant: an exit is not followed by a restart.
Exited_Always(p) ==
  IF proc # p THEN UNCHANGED <<entry, timers>>
  ELSE /\ proc' = None /\ UNCHANGED <<stopping, bridge, timers>> /\ status' = "error"

\* The exit handler of helper p.
Exited(p) ==
  IF proc # p THEN UNCHANGED <<entry, timers>>
  ELSE /\ proc' = None /\ UNCHANGED <<stopping, bridge>>
       /\ status' = IF stopping THEN "down" ELSE "error"
       /\ timers' = IF stopping THEN timers ELSE timers + 1
Gone(p) == /\ helper' = [helper EXCEPT ![p] = "none"]
           /\ listens' = IF listens = p THEN None ELSE listens
           /\ Exited(p) /\ UNCHANGED <<monitor, row, autostart, booting, threw>>

\* A killed helper ends; a running one dies, of itself or because the port is taken.
Ends(p) == helper[p] = "killed" /\ Gone(p) /\ UNCHANGED faults
Dies(p) == /\ helper[p] = "runs" /\ timers < MAX_TIMERS
           /\ \/ listens \notin {None, p} /\ UNCHANGED faults
              \/ Spends
           /\ Gone(p)

\* The restart timer fires.
Refire == /\ timers > 0 /\ timers' = timers - 1
          /\ IF stopping THEN UNCHANGED <<entry, helper, monitor, threw, faults>> ELSE Starts
          /\ UNCHANGED <<row, autostart, booting, listens>>

\* The helper's handshake is done: it opens the SOCKS port, if that is free.
Listen(p) == /\ helper[p] = "runs" /\ listens = None /\ listens' = p
             /\ UNCHANGED <<entry, timers, helper, monitor, world>>

\* The monitor of p: portIsOpen is answered, the answer is handled whatever happened
\* in between, and after two seconds the loop condition is looked at.
Answer(p) == /\ monitor[p] = "asks"
             /\ monitor' = [monitor EXCEPT ![p] = IF listens # None THEN "open" ELSE "shut"]
             /\ UNCHANGED <<entry, timers, helper, listens, world>>
Heeded(p) == IF monitor[p] = "open" THEN "up" ELSE
             IF status = "up" THEN "starting" ELSE status
Heed(p) == /\ monitor[p] \in {"open", "shut"}
           /\ status' = Heeded(p)
           /\ monitor' = [monitor EXCEPT ![p] = "sleeps"]
           /\ UNCHANGED <<proc, stopping, bridge, timers, helper, listens, world>>

\* Mutant: the monitor asks once.
Goes_Once(p) == FALSE

Goes(p) == proc = p /\ ~stopping
Loop(p) == /\ monitor[p] = "sleeps"
           /\ monitor' = [monitor EXCEPT ![p] = IF Goes(p) THEN "asks" ELSE "none"]
           /\ UNCHANGED <<entry, timers, helper, listens, world>>

Next == \/ Boot \/ Redial \/ Stop \/ Delete \/ Refire
        \/ \E p \in Procs : \/ Ends(p) \/ Dies(p) \/ Listen(p)
                            \/ Answer(p) \/ Heed(p) \/ Loop(p)

\* Timers fire, sockets answer, signalled processes end, a helper's handshake succeeds.
Fairness ==
  /\ WF_vars(Refire)
  /\ \A p \in Procs : /\ WF_vars(Ends(p)) /\ SF_vars(Listen(p)) /\ WF_vars(Loop(p))
                      /\ WF_vars(Answer(p)) /\ WF_vars(Heed(p))
Spec == Init /\ [][Next]_vars /\ Fairness

-----------------------------------------------------------------------------
\* vpnProxyUrl: the egress of a provider pinned to this VPN, or none (fail closed).
Proxied == status = "up"

\* Every helper that nobody told to end is the entry's: starts by the admin, at boot and
\* by timers never leave a second tunnel running, and a stopped VPN keeps none.
NoHelperStrays ==
  /\ \A p \in Procs : helper[p] = "runs" => proc = p
  /\ stopping => proc = None /\ ~bridge

\* What a start promised is kept: until it is stopped or a spawn throws, the tunnel is
\* usable again in the end, however often helpers die and whichever of them, killed ones
\* included, still holds the port.
TunnelComesBack == []<>(Proxied \/ stopping \/ threw \/ status = "down")

\* "The live proxy URL for a VPN, or undefined if it isn't up" (tunnel.ts:232): a VPN
\* that stays stopped offers none in the end.  It fails: the monitor's last question may
\* be answered after stopVpn, and the answer sets the status "up" (tunnel.ts:180) of an
\* entry that has no helper, no bridge and no monitor to correct it.
StoppedIsDown == <>[]stopping => <>[](stopping /\ ~Proxied)
=============================================================================
