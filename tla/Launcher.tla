------------------------------ MODULE Launcher ------------------------------
(***************************************************************************)
(* The desktop launcher (launcher/launcher.py) around the Tor subprocess: a   *)
(* button starts the service in a thread of its own, which starts the active  *)
(* transport, then listens and serves; another button stops it.  The GUI and  *)
(* the service threads share daemon_active and tor_manager's globals, and     *)
(* stop_daemon stops the transport but neither a thread that is still          *)
(* launching nor a web server that listens.                                 *)
(***************************************************************************)
EXTENDS TorProcess

VARIABLES
    mode,           \* the registry's active mode, as server.py found it (ModeSwitch
                    \* has the requests that change it)
    daemonActive,   \* the global daemon_active, shown as RUNNING or STOPPED
    server          \* service thread -> what it does

launcherVars == <<torVars, mode, daemonActive, server>>

LauncherTypeOK ==
    /\ TorTypeOK
    /\ mode \in {"p2p", "relay"} /\ daemonActive \in BOOLEAN
    /\ server \in [Launches -> {"none", "launching", "serving", "ended"}]

LauncherInit ==
    /\ TorInit
    /\ mode \in {"p2p", "relay"}
    /\ daemonActive = FALSE
    /\ server = [l \in Launches |-> "none"]

\* start_daemon: nothing when the service is active; P2PTransport.start
\* launches Tor, RelayTransport.start does not
StartDaemon(l) ==
    /\ nodeState = "up" /\ ~daemonActive /\ server[l] = "none"
    /\ daemonActive' = TRUE
    /\ server' = [server EXCEPT ![l] = "launching"]
    /\ LaunchTo(l, IF mode = "p2p" THEN "ports" ELSE "done")
    /\ UNCHANGED <<torProcess, tors, spawned, replaced, ports, torrc, binary, serviceDirs,
                   hostnames, invite, nodeState, mode>>

\* the body of stop_daemon, which returns at once when the service is inactive
StopService ==
    /\ daemonActive' = FALSE
    /\ IF daemonActive /\ mode = "p2p" THEN Cleanup ELSE UNCHANGED <<torProcess, tors, replaced>>

StopDaemon ==
    /\ nodeState = "up" /\ daemonActive
    /\ StopService
    /\ UNCHANGED <<spawned, ports, torrc, binary, serviceDirs, hostnames, launch,
                   invite, nodeState, mode, server>>

\* the thread is through with the transport and listens; listening may fail,
\* as it does when an earlier service still holds the port
Serve(l) ==
    /\ Alive /\ server[l] = "launching" /\ launch[l].pc = "done"
    /\ server' = [server EXCEPT ![l] = "serving"]
    /\ UNCHANGED <<torVars, mode, daemonActive>>

\* Mutant: the exception is printed and the launcher is not told
ServiceFailsSilently(l) ==
    /\ Alive /\ server[l] = "launching" /\ launch[l].pc \in {"done", "failed"}
    /\ server' = [server EXCEPT ![l] = "ended"]
    /\ UNCHANGED <<torVars, mode, daemonActive>>

\* "FATAL: Service daemon execution failed": the thread itself calls stop_daemon
ServiceFails(l) ==
    /\ Alive /\ server[l] = "launching" /\ launch[l].pc \in {"done", "failed"}
    /\ server' = [server EXCEPT ![l] = "ended"]
    /\ StopService
    /\ UNCHANGED <<spawned, ports, torrc, binary, serviceDirs, hostnames, launch,
                   invite, nodeState, mode>>

\* on_closing stops the transport, whatever daemon_active says
OnClosing ==
    /\ ShutDown
    /\ UNCHANGED <<mode, daemonActive, server>>

LauncherNext ==
    \/ \E l \in Launches : StartDaemon(l) \/ Serve(l) \/ ServiceFails(l)
    \/ StopDaemon \/ OnClosing
    \/ /\ \/ \E l \in Launches : LaunchStep(l)
          \/ \E p \in RunningTors : TorWritesHostname(p) \/ TorDies(p)
       /\ UNCHANGED <<mode, daemonActive, server>>

LauncherSpec == LauncherInit /\ [][LauncherNext]_launcherVars

(***************************************************************************)
(* Properties.                                                              *)
(***************************************************************************)
\* RUNNING is never shown for a service that is gone: while daemon_active is
\* set, a service thread is launching or one serves, although a stop leaves its
\* thread launching, a new start may overlap it, and the failure of the old
\* thread then stops the new service.
RunningIsServed ==
    (daemonActive /\ Alive) => \E l \in Launches : server[l] \in {"launching", "serving"}
=============================================================================
