----------------------------- MODULE TorProcess -----------------------------
(***************************************************************************)
(* The Tor subprocess of a node: transports/p2p/tor_manager.py, its use by    *)
(* P2PTransport (transports/p2p/adapter.py), and the requests of              *)
(* routers/node.py that restart it, add hidden services and wipe the node.    *)
(*                                                                         *)
(* launch_tor runs in threads (application start-up, one per restart request) *)
(* that share the module's globals: the process handle, the two port numbers  *)
(* and the torrc file.  Tor itself is external: it binds the ports of the      *)
(* torrc it read or exits, bootstraps, writes hostname files, and may die.     *)
(***************************************************************************)
EXTENDS Naturals

CONSTANTS
    Launches,       \* calls of launch_tor
    Services,       \* invite services, besides the main one
    Ports,          \* local ports; SOCKS is searched from 1, control from 2
    TakenPorts,     \* ports that other programs hold
    MaxTors         \* bound: Tor processes ever spawned

ASSUME TorAssumption ==
    /\ TakenPorts \subseteq Ports /\ {1, 2} \subseteq Ports /\ Ports \subseteq Nat
    /\ MaxTors \in Nat

NoProcess == 0

VARIABLES
    torProcess,     \* the global tor_process: a process number or NoProcess
    tors,           \* running process -> [socks, control, services] it loaded
    spawned,        \* number of processes spawned so far
    replaced,       \* history: processes whose handle a later launch overwrote, or
                    \* that a launch spawned while a cleanup was waiting
    ports,          \* the globals SOCKS_PORT and CONTROL_PORT: [socks, control]
    torrc,          \* the file: [socks, control, services]
    binary,         \* whether the Tor binary was downloaded and verified
    serviceDirs,    \* directories under hidden_services
    hostnames,      \* services whose hostname file exists
    launch,         \* launch_tor call -> [pc, listed]
    invite,         \* invite service -> [pc, listed]
    nodeState       \* "up", "wiped" (obliviate before os._exit) or "exited"

torVars == <<torProcess, tors, spawned, replaced, ports, torrc, binary, serviceDirs,
             hostnames, launch, invite, nodeState>>

RunningTors == DOMAIN tors
LaunchSteps == {"idle", "ports", "download", "list", "spawn", "boot", "hostname", "done", "failed"}
InviteSteps == {"idle", "list", "write", "reload", "wait", "returned", "fallback"}

TorTypeOK ==
    /\ torProcess \in 0..MaxTors /\ spawned \in 0..MaxTors
    /\ RunningTors \subseteq 1..spawned /\ replaced \subseteq 1..spawned
    /\ ports.socks \in Ports /\ ports.control \in Ports
    /\ \A l \in Launches : launch[l].pc \in LaunchSteps
    /\ \A s \in Services : invite[s].pc \in InviteSteps
    /\ torrc.services \subseteq Services \cup {"main"}
    /\ hostnames \subseteq Services \cup {"main"}
    /\ nodeState \in {"up", "wiped", "exited"}

TorInit ==
    /\ torProcess = NoProcess
    /\ tors = [p \in {} |-> 0] /\ spawned = 0 /\ replaced = {}
    /\ ports = [socks |-> 1, control |-> 2]
    /\ torrc = [socks |-> 1, control |-> 2, services |-> {}]
    /\ binary = FALSE
    /\ serviceDirs = {} /\ hostnames = {}
    /\ launch = [l \in Launches |-> [pc |-> "idle", listed |-> {}]]
    /\ invite = [s \in Services |-> [pc |-> "idle", listed |-> {}]]
    /\ nodeState = "up"

(***************************************************************************)
(* launch_tor.                                                              *)
(***************************************************************************)
BoundPorts == TakenPorts \cup UNION {{tors[p].socks, tors[p].control} : p \in RunningTors}

FreePorts(start) == {p \in Ports : p >= start /\ p \notin BoundPorts}

\* find_free_port: the first port from start on that can be bound right now
FindFreePort(start) == CHOOSE p \in FreePorts(start) : \A q \in FreePorts(start) : p <= q

LaunchTo(l, pc) == launch' = [launch EXCEPT ![l].pc = pc]
Alive == nodeState # "exited"

\* the two searches; the socket of the first is closed before the second, and
\* the launch ends with an exception when one of them finds no port
ResolvePorts(l) ==
    /\ Alive /\ launch[l].pc = "ports"
    /\ IF FreePorts(2) # {}
       THEN /\ ports' = [socks |-> FindFreePort(1), control |-> FindFreePort(2)]
            /\ LaunchTo(l, "download")
       ELSE /\ ports' = [ports EXCEPT !.socks = IF FreePorts(1) = {} THEN @ ELSE FindFreePort(1)]
            /\ LaunchTo(l, "failed")
    /\ UNCHANGED <<torProcess, tors, spawned, replaced, torrc, binary, serviceDirs,
                   hostnames, invite, nodeState>>

\* download_and_extract_tor: the binary on disk is used as it is; otherwise the
\* archive is fetched and verified by signature or checksum, or the launch fails
DownloadTor(l) ==
    /\ Alive /\ launch[l].pc = "download"
    /\ \/ binary' = TRUE /\ LaunchTo(l, "list")
       \/ ~binary /\ LaunchTo(l, "failed") /\ UNCHANGED binary
    /\ UNCHANGED <<torProcess, tors, spawned, replaced, ports, torrc, serviceDirs,
                   hostnames, invite, nodeState>>

\* write_torrc lists the service directories ...
ListServices(l) ==
    /\ Alive /\ launch[l].pc = "list"
    /\ serviceDirs' = serviceDirs \cup {"main"}
    /\ launch' = [launch EXCEPT ![l] = [pc |-> "spawn", listed |-> serviceDirs']]
    /\ UNCHANGED <<torProcess, tors, spawned, replaced, ports, torrc, binary,
                   hostnames, invite, nodeState>>

Torrc(listed) == [socks |-> ports.socks, control |-> ports.control, services |-> listed]

\* Tor, external: it exits when a port of its configuration cannot be bound
TorStarts(config) == config.socks # config.control /\ {config.socks, config.control} \cap BoundPorts = {}

\* ... and writes the file; Popen overwrites the handle, whatever it held
SpawnTor(l) ==
    LET p == spawned + 1 IN
    /\ Alive /\ launch[l].pc = "spawn" /\ spawned < MaxTors
    /\ torrc' = Torrc(launch[l].listed)
    /\ spawned' = p
    /\ tors' = IF TorStarts(torrc') THEN [q \in RunningTors \cup {p} |-> IF q = p THEN torrc' ELSE tors[q]]
               ELSE tors
    /\ torProcess' = p
    /\ replaced' = IF torProcess = NoProcess THEN replaced ELSE replaced \cup {torProcess}
    /\ LaunchTo(l, "boot")
    /\ UNCHANGED <<ports, binary, serviceDirs, hostnames, invite, nodeState>>

Without(p) == [q \in RunningTors \ {p} |-> tors[q]]

\* Mutant: a process that outlives terminate() is forgotten instead of killed
CleanupWithoutKill ==
    /\ torProcess' = NoProcess
    /\ tors' \in {tors, Without(torProcess)}
    /\ UNCHANGED replaced

\* cleanup: terminate, wait, kill, and forget the handle.  A launch may spawn
\* during the wait: then the process that was terminated is the one whose
\* handle that launch overwrote, and the new process is forgotten.
Cleanup ==
    /\ torProcess' = NoProcess
    /\ \/ tors' = Without(torProcess) /\ UNCHANGED replaced
       \/ \E p \in replaced : /\ \A q \in replaced : q <= p
                              /\ torProcess > p
                              /\ tors' = Without(p)
                              /\ replaced' = replaced \cup {torProcess}

\* the loop that waits for "Bootstrapped 100%" uses the global handle: None and
\* an exited process end it with an exception, the 120 s timeout (noticed when
\* Tor prints a line) with a cleanup
Bootstrap(l) ==
    /\ Alive /\ launch[l].pc = "boot"
    /\ \/ torProcess \notin RunningTors /\ LaunchTo(l, "failed") /\ UNCHANGED <<torProcess, tors, replaced>>
       \/ torProcess \in RunningTors /\ LaunchTo(l, "hostname") /\ UNCHANGED <<torProcess, tors, replaced>>
       \/ torProcess \in RunningTors /\ LaunchTo(l, "failed") /\ Cleanup
    /\ UNCHANGED <<spawned, ports, torrc, binary, serviceDirs, hostnames,
                   invite, nodeState>>

\* get_onion_address: up to 30 s for the main hostname; the process stays
OnionAddress(l) ==
    /\ Alive /\ launch[l].pc = "hostname"
    /\ \/ "main" \in hostnames /\ LaunchTo(l, "done")
       \/ "main" \notin hostnames /\ LaunchTo(l, "failed")
    /\ UNCHANGED <<torProcess, tors, spawned, replaced, ports, torrc, binary, serviceDirs,
                   hostnames, invite, nodeState>>

LaunchStep(l) ==
    ResolvePorts(l) \/ DownloadTor(l) \/ ListServices(l) \/ SpawnTor(l) \/ Bootstrap(l) \/ OnionAddress(l)

(***************************************************************************)
(* Tor itself (external).                                                   *)
(***************************************************************************)
TorWritesHostname(p) ==
    /\ ~(tors[p].services \cap serviceDirs \subseteq hostnames)
    /\ hostnames' = hostnames \cup (tors[p].services \cap serviceDirs)
    /\ UNCHANGED <<torProcess, tors, spawned, replaced, ports, torrc, binary, serviceDirs,
                   launch, invite, nodeState>>

TorDies(p) ==
    /\ tors' = Without(p)
    /\ UNCHANGED <<torProcess, spawned, replaced, ports, torrc, binary, serviceDirs,
                   hostnames, launch, invite, nodeState>>

(***************************************************************************)
(* Requests of the node.                                                    *)
(***************************************************************************)
\* P2PTransport.start at start-up: launch_tor, without a cleanup before it
StartTransport(l) ==
    /\ nodeState = "up" /\ launch[l].pc = "idle"
    /\ \A k \in Launches : launch[k].pc = "idle"
    /\ LaunchTo(l, "ports")
    /\ UNCHANGED <<torProcess, tors, spawned, replaced, ports, torrc, binary, serviceDirs,
                   hostnames, invite, nodeState>>

\* restart_tor: cleanup in the request, launch_tor in a thread of its own
RestartTor(l) ==
    /\ nodeState = "up" /\ launch[l].pc = "idle"
    /\ \E k \in Launches : launch[k].pc # "idle"
    /\ Cleanup
    /\ LaunchTo(l, "ports")
    /\ UNCHANGED <<spawned, ports, torrc, binary, serviceDirs, hostnames,
                   invite, nodeState>>

InviteTo(s, pc) == invite' = [invite EXCEPT ![s].pc = pc]

\* generate_invite, add_onion_service: the directory ...
GenerateInvite(s) ==
    /\ nodeState = "up" /\ invite[s].pc = "idle"
    /\ serviceDirs' = serviceDirs \cup {s, "main"}
    /\ InviteTo(s, "list")
    /\ UNCHANGED <<torProcess, tors, spawned, replaced, ports, torrc, binary, hostnames,
                   launch, nodeState>>

\* ... write_torrc's listing and its write ...
InviteList(s) ==
    /\ Alive /\ invite[s].pc = "list"
    /\ invite' = [invite EXCEPT ![s] = [pc |-> "write", listed |-> serviceDirs]]
    /\ UNCHANGED <<torProcess, tors, spawned, replaced, ports, torrc, binary, serviceDirs,
                   hostnames, launch, nodeState>>

InviteWrite(s) ==
    /\ Alive /\ invite[s].pc = "write"
    /\ torrc' = Torrc(invite[s].listed)
    /\ InviteTo(s, "reload")
    /\ UNCHANGED <<torProcess, tors, spawned, replaced, ports, binary, serviceDirs,
                   hostnames, launch, nodeState>>

\* ... reload_tor_config: the process behind the control port reads the file
\* again; without one the invite falls back to the node's own address
ReloadTorConfig(s) ==
    /\ Alive /\ invite[s].pc = "reload"
    /\ \/ /\ \A p \in RunningTors : tors[p].control # ports.control
          /\ InviteTo(s, "fallback") /\ UNCHANGED tors
       \/ \E p \in RunningTors :
            /\ tors[p].control = ports.control
            /\ tors' = [tors EXCEPT ![p].services = torrc.services]
            /\ InviteTo(s, "wait")
    /\ UNCHANGED <<torProcess, spawned, replaced, ports, torrc, binary, serviceDirs,
                   hostnames, launch, nodeState>>

\* ... and the wait for the hostname, 30 s at most
InviteHostname(s) ==
    /\ Alive /\ invite[s].pc = "wait"
    /\ InviteTo(s, IF s \in hostnames THEN "returned" ELSE "fallback")
    /\ UNCHANGED <<torProcess, tors, spawned, replaced, ports, torrc, binary, serviceDirs,
                   hostnames, launch, nodeState>>

\* shutdown: P2PTransport.stop, then the atexit hook; the threads are daemons
ShutDown ==
    /\ nodeState = "up"
    /\ Cleanup
    /\ nodeState' = "exited"
    /\ UNCHANGED <<spawned, ports, torrc, binary, serviceDirs, hostnames,
                   launch, invite>>

\* obliviate: cleanup, the Tor directories are wiped, and half a second later
\* os._exit, which runs no atexit hook
Obliviate ==
    /\ nodeState = "up"
    /\ Cleanup
    /\ serviceDirs' = {} /\ hostnames' = {}
    /\ nodeState' = "wiped"
    /\ UNCHANGED <<spawned, ports, torrc, binary, launch, invite>>

ExitProcess ==
    /\ nodeState = "wiped"
    /\ nodeState' = "exited"
    /\ UNCHANGED <<torProcess, tors, spawned, replaced, ports, torrc, binary, serviceDirs,
                   hostnames, launch, invite>>

InviteStep(s) ==
    GenerateInvite(s) \/ InviteList(s) \/ InviteWrite(s) \/ ReloadTorConfig(s) \/ InviteHostname(s)

TorNext ==
    \/ \E l \in Launches : LaunchStep(l) \/ StartTransport(l) \/ RestartTor(l)
    \/ \E p \in RunningTors : TorWritesHostname(p) \/ TorDies(p)
    \/ \E s \in Services : InviteStep(s)
    \/ ShutDown \/ Obliviate \/ ExitProcess

TorSpec == TorInit /\ [][TorNext]_torVars

(***************************************************************************)
(* Properties.                                                              *)
(***************************************************************************)
\* cleanup can stop every Tor process that runs, or launches that overlapped took
\* its handle away: no failed or timed-out launch, restart or wipe in whatever
\* order loses a process otherwise.  After a shutdown only those survive.
TorTracked ==
    RunningTors \subseteq {torProcess} \cup replaced
=============================================================================
