----------------------------- MODULE ModeSwitch -----------------------------
(***************************************************************************)
(* Switching a running server between relay and p2p.  server.py starts the  *)
(* active transport and serves; POST /api/mode calls switch_mode of          *)
(* core/transport_registry.py, which starts the target, stops the current    *)
(* transport and only then makes the target active.  Requests are green       *)
(* threads: others run while launch_tor waits and while cleanup waits.  Both  *)
(* transports launch Tor through tor_manager (a relay when RELAY_AS_ONION is  *)
(* set) and share its process handle; launch_tor in detail is TorProcess.     *)
(***************************************************************************)
EXTENDS Naturals

CONSTANT SwitchRequests     \* POST /api/mode requests

ASSUME SwitchAssumption == "main" \notin SwitchRequests

VARIABLES
    relayAsOnion,       \* the environment's RELAY_AS_ONION
    activeMode,         \* the registry's _active_mode
    routed,             \* wsgi_dispatcher.current_mode
    start,              \* the main thread and the requests: [pc, current, target]
    torHandle,          \* tor_process: a process number, 0 for None
    torLive,            \* Tor processes that run
    torCount,           \* Tor processes spawned so far
    mdns,               \* [pending, handle, live]: threads that advertise, whether
                        \* zeroconf_instance is set, instances not closed
    overlapped          \* history: two switches were in progress at once

switchVars == <<relayAsOnion, activeMode, routed, start, torHandle, torLive, torCount, mdns, overlapped>>

Modes == {"p2p", "relay"}
Starters == {"main"} \cup SwitchRequests
Busy == {"spawn", "booting", "giveup", "address", "stop", "waiting"}
InSwitch == {r \in SwitchRequests : start[r].pc \in Busy}
Serving == start["main"].pc = "done"

SwitchTypeOK ==
    /\ relayAsOnion \in BOOLEAN /\ activeMode \in Modes /\ routed \in Modes
    /\ start \in [Starters -> [pc : Busy \cup {"idle", "done", "failed"}, current : Modes, target : Modes]]
    /\ torHandle \in 0..torCount /\ torLive \subseteq 1..torCount
    /\ mdns \in [pending : Nat, handle : BOOLEAN, live : Nat]

\* RelayTransport.start and P2PTransport.start up to launch_tor, if they call it
FirstStep(m) == IF m = "p2p" \/ relayAsOnion THEN "spawn" ELSE "stop"
Advertising(m, threads) == IF m = "relay" THEN [threads EXCEPT !.pending = @ + 1] ELSE threads

\* the modules are imported, and the main thread starts the transport of the
\* mode that ANONYMUS_MODE names
SwitchInit ==
    /\ relayAsOnion \in BOOLEAN
    /\ activeMode \in Modes /\ routed = activeMode
    /\ start = [x \in Starters |->
                  [pc |-> IF x = "main" THEN FirstStep(activeMode) ELSE "idle",
                   current |-> activeMode, target |-> activeMode]]
    /\ torHandle = 0 /\ torLive = {} /\ torCount = 0
    /\ mdns = Advertising(activeMode, [pending |-> 0, handle |-> FALSE, live |-> 0])
    /\ overlapped = FALSE

StartTo(x, pc) == start' = [start EXCEPT ![x].pc = pc]
torState == <<torHandle, torLive, torCount>>

\* the mode that is active already: nothing to do, and the request succeeds
SameMode(r) ==
    /\ Serving /\ start[r].pc = "idle"
    /\ routed' = activeMode
    /\ StartTo(r, "done")
    /\ UNCHANGED <<relayAsOnion, activeMode, torState, mdns, overlapped>>

\* handle_mode and the first part of switch_mode, for the other mode
SwitchMode(r) ==
    LET m == CHOOSE n \in Modes : n # activeMode IN
    /\ Serving /\ start[r].pc = "idle"
    /\ start' = [start EXCEPT ![r] = [pc |-> FirstStep(m), current |-> activeMode, target |-> m]]
    /\ mdns' = Advertising(m, mdns)
    /\ overlapped' = (overlapped \/ InSwitch # {})
    /\ UNCHANGED <<relayAsOnion, activeMode, routed, torState>>

(***************************************************************************)
(* launch_tor, of either transport.                                         *)
(***************************************************************************)
LaunchSpawn(x) ==
    /\ start[x].pc = "spawn"
    /\ torCount' = torCount + 1
    /\ torHandle' = torCount' /\ torLive' = torLive \cup {torCount'}
    /\ StartTo(x, "booting")
    /\ UNCHANGED <<relayAsOnion, activeMode, routed, mdns, overlapped>>

\* it reads the output of whatever process the handle names
LaunchBooted(x) ==
    /\ start[x].pc = "booting" /\ torHandle \in torLive
    /\ StartTo(x, "address")
    /\ UNCHANGED <<relayAsOnion, activeMode, routed, torState, mdns, overlapped>>

\* the 120 s are over: cleanup terminates and waits ...
LaunchTimesOut(x) ==
    /\ start[x].pc = "booting" /\ torHandle \in torLive
    /\ torLive' = torLive \ {torHandle}
    /\ StartTo(x, "giveup")
    /\ UNCHANGED <<relayAsOnion, activeMode, routed, torHandle, torCount, mdns, overlapped>>

\* ... and forgets the handle
LaunchGivesUp(x) ==
    /\ start[x].pc = "giveup"
    /\ torHandle' = 0
    /\ StartTo(x, "failed")
    /\ UNCHANGED <<relayAsOnion, activeMode, routed, torLive, torCount, mdns, overlapped>>

LaunchAddress(x) ==
    /\ start[x].pc = "address"
    /\ StartTo(x, "stop")
    /\ UNCHANGED <<relayAsOnion, activeMode, routed, torState, mdns, overlapped>>

\* start raises (no binary, no process or a dead one, no hostname): switch_mode
\* returns False and leaves Tor as it is; in the main thread it ends the program
LaunchFails(x) ==
    /\ \/ start[x].pc \in {"spawn", "address"}
       \/ start[x].pc = "booting" /\ torHandle \notin torLive
    /\ StartTo(x, "failed")
    /\ UNCHANGED <<relayAsOnion, activeMode, routed, torState, mdns, overlapped>>

(***************************************************************************)
(* The rest of switch_mode.                                                 *)
(***************************************************************************)
MakeActive(x) ==
    /\ activeMode' = start[x].target /\ routed' = start[x].target
    /\ StartTo(x, "done")

\* Mutant: the transport that is stopped is looked up when the mode has changed
Stopped_Target(x) == start[x].target

\* current.stop()
Stopped(x) == start[x].current

\* RelayTransport.stop closes the advertisement if its thread got so far;
\* P2PTransport.stop has nothing to do without a Tor process
StopAtOnce(r) ==
    /\ start[r].pc = "stop" /\ r # "main"
    /\ \/ /\ Stopped(r) = "relay"
          /\ mdns' = IF mdns.handle THEN [mdns EXCEPT !.handle = FALSE, !.live = @ - 1] ELSE mdns
       \/ Stopped(r) = "p2p" /\ torHandle = 0 /\ UNCHANGED mdns
    /\ MakeActive(r)
    /\ UNCHANGED <<relayAsOnion, torState, overlapped>>

\* cleanup terminates the process of the handle, whoever launched it, and waits ...
StopTor(r) ==
    /\ start[r].pc = "stop" /\ r # "main"
    /\ Stopped(r) = "p2p" /\ torHandle # 0
    /\ torLive' = torLive \ {torHandle}
    /\ StartTo(r, "waiting")
    /\ UNCHANGED <<relayAsOnion, activeMode, routed, torHandle, torCount, mdns, overlapped>>

\* ... kills what the handle names by then if the wait took too long, and
\* forgets it; the switch is complete
FinishSwitch(r) ==
    /\ start[r].pc = "waiting"
    /\ torHandle' = 0 /\ torLive' \in {torLive, torLive \ {torHandle}}
    /\ MakeActive(r)
    /\ UNCHANGED <<relayAsOnion, torCount, mdns, overlapped>>

\* the main thread's transport is up: it listens and serves
MainServes ==
    /\ start["main"].pc = "stop"
    /\ StartTo("main", "done")
    /\ UNCHANGED <<relayAsOnion, activeMode, routed, torState, mdns, overlapped>>

\* the thread of advertise_mdns: the instance, or an exception before it
AdvertiseMdns ==
    /\ mdns.pending > 0
    /\ \/ mdns' = [pending |-> mdns.pending - 1, handle |-> TRUE, live |-> mdns.live + 1]
       \/ mdns' = [mdns EXCEPT !.pending = @ - 1]
    /\ UNCHANGED <<relayAsOnion, activeMode, routed, start, torState, overlapped>>

\* Tor, external, may exit at any time
TorExits(p) ==
    /\ torLive' = torLive \ {p}
    /\ UNCHANGED <<relayAsOnion, activeMode, routed, start, torHandle, torCount, mdns, overlapped>>

SwitchNext ==
    \/ \E r \in SwitchRequests : SameMode(r) \/ SwitchMode(r) \/ StopAtOnce(r) \/ StopTor(r) \/ FinishSwitch(r)
    \/ \E x \in Starters :
          \/ LaunchSpawn(x) \/ LaunchBooted(x) \/ LaunchTimesOut(x) \/ LaunchGivesUp(x)
          \/ LaunchAddress(x) \/ LaunchFails(x)
    \/ MainServes \/ AdvertiseMdns
    \/ \E p \in torLive : TorExits(p)

SwitchSpec == SwitchInit /\ [][SwitchNext]_switchVars

\* Requests go to the transport that the registry names, whichever switches
\* fail, overlap or find nothing to do; and a node that serves as p2p has the
\* handle of its Tor process: neither the start of a target nor the stop of the
\* transport before it took the handle away.  The handle is shared, so this is
\* claimed of switches that do not overlap and of relays that launch no Tor.
ModeServed ==
    /\ routed = activeMode
    /\ (/\ Serving /\ activeMode = "p2p" /\ ~overlapped /\ ~relayAsOnion
        /\ \A r \in InSwitch : start[r].pc # "waiting") => torHandle # 0
=============================================================================
