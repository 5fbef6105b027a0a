------------------------------ MODULE TorProofs -----------------------------
(***************************************************************************)
(* Proofs about the Tor process and what starts and stops it: the download *)
(* of its executable, tor_manager's process handle, the launcher around it *)
(* and the switch between transports, for any number of threads and        *)
(* requests.                                                               *)
(***************************************************************************)
EXTENDS Launcher, TorDownload, ModeSwitch, WellFoundedInduction, TLAPS

(***************************************************************************)
(* The download.                                                           *)
(***************************************************************************)
\* As long as no two downloads overlapped, one is in progress at most, and the
\* archive it extracts is the one it verified: nothing else writes the file.
AloneVerified ==
  ~shared =>
    /\ executable # "bad"
    /\ \A d, e \in Downloaders : download[d] \in InProgress /\ download[e] \in InProgress => d = e
    /\ \A d \in Downloaders : download[d] = "fetching" => archive = "part"
    /\ \A d \in Downloaders : download[d] \in {"extract", "extracting"} => archive = "good"

\* However downloads fail, are killed or leave files behind, a whole executable
\* on disk came out of a verified archive unless two downloads overlapped.
THEOREM TorExecutableVerified == DownloadSpec => [](DownloadTypeOK /\ ExecutableVerified)
<1> DEFINE Inv == DownloadTypeOK /\ AloneVerified
<1>1. DownloadInit => Inv
  <2> SUFFICES ASSUME DownloadInit PROVE Inv
    OBVIOUS
  <2>1. shared \in BOOLEAN
    BY DEF DownloadInit
  <2>2. /\ archive \in FileState /\ executable \in FileState
        /\ download \in [Downloaders -> InProgress \cup {"idle", "found", "failed"}]
    BY DEF DownloadInit, FileState
  <2>3. begun \in 0..MaxDownloads /\ kills \in 0..MaxKills
    BY DownloadAssumption DEF DownloadInit
  <2>4. AloneVerified
    BY DEF DownloadInit, AloneVerified, InProgress
  <2> QED BY <2>1, <2>2, <2>3, <2>4 DEF DownloadTypeOK
<1>2. Inv /\ [DownloadNext]_downloadVars => Inv'
  <2> SUFFICES ASSUME DownloadTypeOK, AloneVerified, [DownloadNext]_downloadVars PROVE Inv'
    OBVIOUS
  <2> USE DownloadAssumption DEF DownloadTypeOK, AloneVerified, FileState, InProgress, DownloadTo,
          RaiseDownload
  <2>1. ASSUME NEW d \in Downloaders, FindTorBinary(d) PROVE Inv'
    BY <2>1 DEF FindTorBinary
  <2>2. ASSUME NEW d \in Downloaders, BeginDownload(d) PROVE Inv'
    <3>1. shared' \in BOOLEAN
      BY <2>2, Zenon DEF BeginDownload
    <3>2. DownloadTypeOK'
      BY <2>2, <3>1 DEF BeginDownload
    <3>3. ASSUME ~shared' PROVE ~shared /\ \A e \in Downloaders \ {d} : download[e] \notin InProgress
      BY <2>2, <3>3, Zenon DEF BeginDownload
    <3>4. AloneVerified'
      BY <2>2, <3>3 DEF BeginDownload
    <3> QED BY <3>2, <3>4
  <2>3. ASSUME NEW d \in Downloaders, Fetched(d) PROVE Inv'
    BY <2>3 DEF Fetched
  <2>4. ASSUME NEW d \in Downloaders, FetchFails(d) PROVE Inv'
    BY <2>4 DEF FetchFails
  <2>5. ASSUME NEW d \in Downloaders, VerifyGpgSignature(d) PROVE Inv'
    BY <2>5 DEF VerifyGpgSignature
  <2>6. ASSUME NEW d \in Downloaders, VerifyChecksum(d) PROVE Inv'
    BY <2>6 DEF VerifyChecksum
  <2>7. ASSUME NEW d \in Downloaders, BeginExtract(d) PROVE Inv'
    BY <2>7 DEF BeginExtract
  <2>8. ASSUME NEW d \in Downloaders, Extract(d) PROVE Inv'
    BY <2>8 DEF Extract
  <2>9. ASSUME NEW d \in Downloaders, RemoveArchive(d) PROVE Inv'
    BY <2>9 DEF RemoveArchive
  <2>10. ASSUME NEW d \in Downloaders, LaunchAgain(d) PROVE Inv'
    BY <2>10 DEF LaunchAgain
  <2>11. CASE KillProcess
    BY <2>11 DEF KillProcess
  <2>12. CASE UNCHANGED downloadVars
    BY <2>12 DEF downloadVars
  <2> QED BY <2>1, <2>2, <2>3, <2>4, <2>5, <2>6, <2>7, <2>8, <2>9, <2>10, <2>11, <2>12
          DEF DownloadNext
<1>3. Inv => DownloadTypeOK /\ ExecutableVerified
  BY DEF AloneVerified, ExecutableVerified
<1> QED BY <1>1, <1>2, <1>3, PTL DEF DownloadSpec

(***************************************************************************)
(* The process handle.                                                     *)
(***************************************************************************)
\* Process numbers are given out in order, so none runs under the number that
\* stands for no process.
TorNumbered == spawned \in Nat /\ RunningTors \subseteq 1..spawned

TorInv == TorNumbered /\ TorTracked

\* cleanup loses no process, whichever handle it waited on.
LEMMA CleanupTracks ==
  ASSUME TorInv, Cleanup, spawned' = spawned
  PROVE  TorInv'
<1>1. CASE tors' = Without(torProcess) /\ UNCHANGED replaced
  BY <1>1 DEF TorInv, TorNumbered, TorTracked, Cleanup, Without, RunningTors, NoProcess
<1>2. ASSUME NEW p \in replaced, tors' = Without(p), replaced' = replaced \cup {torProcess}
      PROVE  TorInv'
  BY <1>2 DEF TorInv, TorNumbered, TorTracked, Cleanup, Without, RunningTors, NoProcess
<1> QED BY <1>1, <1>2 DEF Cleanup

\* A step of launch_tor keeps track of every process.
LEMMA LaunchTracks ==
  ASSUME TorInv, NEW l \in Launches, LaunchStep(l)
  PROVE  TorInv'
<1> USE DEF TorInv, TorNumbered, TorTracked, RunningTors, NoProcess
<1>1. CASE ResolvePorts(l) \/ DownloadTor(l) \/ ListServices(l) \/ OnionAddress(l)
  BY <1>1 DEF ResolvePorts, DownloadTor, ListServices, OnionAddress
<1>2. CASE SpawnTor(l)
  <2>1. /\ spawned' = spawned + 1 /\ torProcess' = spawned + 1
        /\ replaced' = IF torProcess = NoProcess THEN replaced ELSE replaced \cup {torProcess}
        /\ DOMAIN tors' \subseteq DOMAIN tors \cup {spawned + 1}
    BY <1>2 DEF SpawnTor
  <2>2. DOMAIN tors' \subseteq 1..spawned'
    BY <2>1
  <2>3. 0 \notin DOMAIN tors
    OBVIOUS
  <2> QED BY <2>1, <2>2, <2>3
<1>3. CASE Bootstrap(l)
  BY <1>3, CleanupTracks DEF Bootstrap
<1> QED BY <1>1, <1>2, <1>3 DEF LaunchStep

\* What Tor itself does takes no handle away.
LEMMA TorItselfTracks ==
  ASSUME TorInv, NEW p \in RunningTors, TorWritesHostname(p) \/ TorDies(p)
  PROVE  TorInv'
BY DEF TorInv, TorNumbered, TorTracked, RunningTors, TorWritesHostname, TorDies, Without

\* Every Tor process that runs is the one of the handle, or one whose handle an
\* overlapping launch took away.
THEOREM TorProcessTracked == TorSpec => []TorTracked
<1>1. TorInit => TorInv
  BY DEF TorInit, TorInv, TorNumbered, TorTracked, RunningTors
<1>2. TorInv /\ [TorNext]_torVars => TorInv'
  <2> SUFFICES ASSUME TorInv, [TorNext]_torVars PROVE TorInv'
    OBVIOUS
  <2>1. ASSUME NEW l \in Launches, LaunchStep(l) PROVE TorInv'
    BY <2>1, LaunchTracks
  <2>2. ASSUME NEW l \in Launches, StartTransport(l) PROVE TorInv'
    BY <2>2 DEF StartTransport, TorInv, TorNumbered, TorTracked, RunningTors
  <2>3. ASSUME NEW l \in Launches, RestartTor(l) PROVE TorInv'
    BY <2>3, CleanupTracks DEF RestartTor
  <2>4. ASSUME NEW p \in RunningTors, TorWritesHostname(p) \/ TorDies(p) PROVE TorInv'
    BY <2>4, TorItselfTracks
  <2>5. ASSUME NEW s \in Services, InviteStep(s) PROVE TorInv'
    <3> USE DEF TorInv, TorNumbered, TorTracked, RunningTors
    <3>1. CASE GenerateInvite(s) \/ InviteList(s) \/ InviteWrite(s) \/ InviteHostname(s)
      BY <3>1 DEF GenerateInvite, InviteList, InviteWrite, InviteHostname
    <3>2. CASE ReloadTorConfig(s)
      BY <3>2 DEF ReloadTorConfig
    <3> QED BY <2>5, <3>1, <3>2 DEF InviteStep
  <2>6. CASE ShutDown \/ Obliviate
    BY <2>6, CleanupTracks DEF ShutDown, Obliviate
  <2>7. CASE ExitProcess \/ UNCHANGED torVars
    BY <2>7 DEF ExitProcess, torVars, TorInv, TorNumbered, TorTracked, RunningTors
  <2> QED BY <2>1, <2>2, <2>3, <2>4, <2>5, <2>6, <2>7 DEF TorNext
<1>3. TorInv => TorTracked
  BY DEF TorInv
<1> QED BY <1>1, <1>2, <1>3, PTL DEF TorSpec

\* The launcher stops the transport from two threads and starts it again while an
\* older thread launches: it loses no process either, and never shows RUNNING
\* without a service that launches or serves.
THEOREM LauncherTracksService == LauncherSpec => [](TorTracked /\ RunningIsServed)
<1> DEFINE Inv == TorInv /\ DOMAIN server = Launches /\ RunningIsServed
<1>1. LauncherInit => Inv
  BY DEF LauncherInit, TorInit, TorInv, TorNumbered, TorTracked, RunningTors, RunningIsServed
<1>2. Inv /\ [LauncherNext]_launcherVars => Inv'
  <2> SUFFICES ASSUME Inv, [LauncherNext]_launcherVars PROVE Inv'
    OBVIOUS
  <2>0. ASSUME UNCHANGED <<spawned, nodeState>>, StopService PROVE TorInv' /\ RunningIsServed'
    BY <2>0, CleanupTracks
       DEF StopService, RunningIsServed, TorInv, TorNumbered, TorTracked, RunningTors
  <2>1. ASSUME NEW l \in Launches, StartDaemon(l) PROVE Inv'
    BY <2>1 DEF StartDaemon, TorInv, TorNumbered, TorTracked, RunningTors, RunningIsServed
  <2>2. ASSUME NEW l \in Launches, Serve(l) PROVE Inv'
    BY <2>2 DEF Serve, torVars, TorInv, TorNumbered, TorTracked, RunningTors, RunningIsServed, Alive
  <2>3. ASSUME NEW l \in Launches, ServiceFails(l) PROVE Inv'
    BY <2>0, <2>3 DEF ServiceFails
  <2>4. CASE StopDaemon
    BY <2>0, <2>4 DEF StopDaemon
  <2>5. CASE OnClosing
    BY <2>5, CleanupTracks DEF OnClosing, ShutDown, RunningIsServed, Alive
  <2>6. ASSUME NEW l \in Launches, LaunchStep(l), UNCHANGED <<mode, daemonActive, server>>
        PROVE  Inv'
    <3>1. nodeState' = nodeState
      BY <2>6 DEF LaunchStep, ResolvePorts, DownloadTor, ListServices, SpawnTor, Bootstrap, OnionAddress
    <3> QED BY <2>6, <3>1, LaunchTracks DEF RunningIsServed, Alive
  <2>7. ASSUME NEW p \in RunningTors, TorWritesHostname(p) \/ TorDies(p),
               UNCHANGED <<mode, daemonActive, server>>
        PROVE  Inv'
    <3>1. nodeState' = nodeState
      BY <2>7 DEF TorWritesHostname, TorDies
    <3> QED BY <2>7, <3>1, TorItselfTracks DEF RunningIsServed, Alive
  <2>8. CASE UNCHANGED launcherVars
    BY <2>8 DEF launcherVars, torVars, TorInv, TorNumbered, TorTracked, RunningTors,
                RunningIsServed, Alive
  <2> QED BY <2>1, <2>2, <2>3, <2>4, <2>5, <2>6, <2>7, <2>8 DEF LauncherNext
<1>3. Inv => TorTracked /\ RunningIsServed
  BY DEF TorInv
<1> QED BY <1>1, <1>2, <1>3, PTL DEF LauncherSpec

(***************************************************************************)
(* The switch between transports.                                          *)
(***************************************************************************)
SwitchTypes ==
  /\ activeMode \in Modes
  /\ start \in [Starters -> [pc : Busy \cup {"idle", "done", "failed"}, current : Modes, target : Modes]]
  /\ torCount \in Nat

\* Without overlapping switches and without a Tor of the relay: one switch at
\* most is in progress, and only when the main thread serves; it leads from the
\* active mode to the other; only a start of p2p launches, and from the spawn to
\* the end of the start it holds a handle; and the stop of p2p, which gives the
\* handle up, is a step to relay.
SwitchAlone ==
  ~overlapped /\ ~relayAsOnion =>
    /\ \A r, q \in InSwitch : r = q
    /\ \A r \in InSwitch : Serving /\ start[r].current = activeMode /\ start[r].target # activeMode
    /\ ~Serving => start["main"].target = activeMode
    /\ start["main"].pc # "waiting"
    /\ \A x \in Starters : start[x].target = "relay" =>
                             start[x].pc \notin {"spawn", "booting", "giveup", "address"}
    /\ \A x \in Starters : start[x].target = "p2p" =>
                             /\ start[x].pc # "waiting"
                             /\ start[x].pc \in {"booting", "address", "stop"} => torHandle # 0

SwitchInv == SwitchTypes /\ ModeServed /\ SwitchAlone

\* Requests go to the transport the registry names, and a node that serves as
\* p2p has a Tor process handle, over every sequence of starts that fail, time
\* out or succeed and any number of requests.
THEOREM SwitchKeepsModeServed == SwitchSpec => []ModeServed
<1>1. SwitchInit => SwitchInv
  BY SwitchAssumption
     DEF SwitchInit, SwitchInv, SwitchTypes, ModeServed, SwitchAlone, InSwitch, Serving, Starters, Busy,
         Modes, FirstStep
<1>2. SwitchInv /\ [SwitchNext]_switchVars => SwitchInv'
  <2> SUFFICES ASSUME SwitchTypes, ModeServed, SwitchAlone, [SwitchNext]_switchVars PROVE SwitchInv'
    BY DEF SwitchInv
  <2> USE SwitchAssumption
      DEF SwitchInv, SwitchTypes, ModeServed, SwitchAlone, InSwitch, Serving, Starters, Busy, StartTo, torState
  <2>1. ASSUME NEW r \in SwitchRequests, SameMode(r) PROVE SwitchInv'
    BY <2>1 DEF SameMode
  <2>2. ASSUME NEW r \in SwitchRequests, SwitchMode(r) PROVE SwitchInv'
    <3> DEFINE m == CHOOSE n \in Modes : n # activeMode
    <3>1. m \in Modes /\ m # activeMode
      BY DEF Modes
    <3> HIDE DEF m
    <3>2. /\ start' = [start EXCEPT ![r] = [pc |-> FirstStep(m), current |-> activeMode, target |-> m]]
          /\ start[r].pc = "idle" /\ start["main"].pc = "done"
          /\ UNCHANGED <<relayAsOnion, activeMode, routed, torHandle, torCount>>
      BY <2>2 DEF SwitchMode, m
    <3>3. ASSUME ~overlapped' PROVE ~overlapped /\ InSwitch = {}
      BY <2>2, <3>3, Zenon DEF SwitchMode
    <3>4. FirstStep(m) \in Busy /\ (~relayAsOnion /\ m = "relay" => FirstStep(m) = "stop")
          /\ (m = "p2p" => FirstStep(m) = "spawn")
      BY DEF FirstStep
    <3> QED BY <3>1, <3>2, <3>3, <3>4 DEF Modes
  <2>3. ASSUME NEW r \in SwitchRequests, StopAtOnce(r) PROVE SwitchInv'
    BY <2>3 DEF StopAtOnce, MakeActive, Stopped, Modes
  <2>4. ASSUME NEW r \in SwitchRequests, StopTor(r) PROVE SwitchInv'
    BY <2>4 DEF StopTor, Stopped, Modes
  <2>5. ASSUME NEW r \in SwitchRequests, FinishSwitch(r) PROVE SwitchInv'
    BY <2>5 DEF FinishSwitch, MakeActive, Modes
  <2>6. ASSUME NEW x \in Starters, LaunchSpawn(x) PROVE SwitchInv'
    BY <2>6 DEF LaunchSpawn, Modes
  <2>7. ASSUME NEW x \in Starters, LaunchBooted(x) PROVE SwitchInv'
    BY <2>7 DEF LaunchBooted
  <2>8. ASSUME NEW x \in Starters, LaunchTimesOut(x) PROVE SwitchInv'
    BY <2>8 DEF LaunchTimesOut
  <2>9. ASSUME NEW x \in Starters, LaunchGivesUp(x) PROVE SwitchInv'
    BY <2>9 DEF LaunchGivesUp, Modes
  <2>10. ASSUME NEW x \in Starters, LaunchAddress(x) PROVE SwitchInv'
    BY <2>10 DEF LaunchAddress
  <2>11. ASSUME NEW x \in Starters, LaunchFails(x) PROVE SwitchInv'
    BY <2>11 DEF LaunchFails
  <2>12. CASE MainServes
    BY <2>12 DEF MainServes, Modes
  <2>13. CASE AdvertiseMdns \/ (\E p \in torLive : TorExits(p)) \/ UNCHANGED switchVars
    BY <2>13 DEF AdvertiseMdns, TorExits, switchVars
  <2> QED BY <2>1, <2>2, <2>3, <2>4, <2>5, <2>6, <2>7, <2>8, <2>9, <2>10, <2>11, <2>12, <2>13
          DEF SwitchNext
<1>3. SwitchInv => ModeServed
  BY DEF SwitchInv
<1> QED BY <1>1, <1>2, <1>3, PTL DEF SwitchSpec

(***************************************************************************)
(* The types of the processes, files and requests of Tor, of the launcher  *)
(* and of the switch.                                                      *)
(***************************************************************************)
\* The search for a free port ends at the first one, if there is one.
LEMMA FoundPort ==
  ASSUME NEW first \in Nat, FreePorts(first) # {}
  PROVE  FindFreePort(first) \in Ports
<1> DEFINE R == OpToRel(<, Nat)
<1>1. IsWellFoundedOn(R, Nat)
  BY NatLessThanWellFounded, Zenon
<1>2. \A x, y \in Nat : y < x => <<y, x>> \in R
  BY DEF OpToRel
<1> HIDE DEF R
<1>3. FreePorts(first) \in SUBSET Nat /\ FreePorts(first) \subseteq Ports
  BY TorAssumption DEF FreePorts
<1>4. PICK n \in FreePorts(first) : \A m \in FreePorts(first) : ~(<<m, n>> \in R)
  BY <1>1, <1>3, WFMin
<1>5. \A m \in FreePorts(first) : n \in Nat /\ m \in Nat /\ ~(m < n)
  BY <1>2, <1>3, <1>4
<1>6. \A x, y \in Nat : ~(y < x) => x <= y
  OBVIOUS
<1>7. \E p \in FreePorts(first) : \A q \in FreePorts(first) : p <= q
  BY <1>5, <1>6
<1>8. FindFreePort(first) \in FreePorts(first)
  BY <1>7, Zenon DEF FindFreePort
<1> QED BY <1>3, <1>8

AllServices == Services \cup {"main"}
TorConfig == [socks : Ports, control : Ports, services : SUBSET AllServices]
LaunchState == [pc : LaunchSteps, listed : SUBSET AllServices]
InviteState == [pc : InviteSteps, listed : SUBSET AllServices]

\* The processes: numbered in the order of their start, and the handle names one
\* of them or none.
ProcessesTyped ==
  /\ spawned \in 0..MaxTors /\ torProcess \in 0..spawned
  /\ tors \in [RunningTors -> TorConfig] /\ RunningTors \subseteq 1..spawned
  /\ replaced \subseteq 1..spawned

FilesTyped ==
  /\ ports \in [socks : Ports, control : Ports] /\ torrc \in TorConfig
  /\ serviceDirs \subseteq AllServices /\ hostnames \subseteq AllServices
  /\ nodeState \in {"up", "wiped", "exited"}

TorTyping ==
  /\ ProcessesTyped /\ FilesTyped
  /\ launch \in [Launches -> LaunchState] /\ invite \in [Services -> InviteState]

LEMMA CleanupTyped ==
  ASSUME ProcessesTyped, Cleanup, UNCHANGED spawned
  PROVE  ProcessesTyped'
<1> USE TorAssumption DEF ProcessesTyped, RunningTors
<1>1. \A p : Without(p) \in [DOMAIN tors \ {p} -> TorConfig] /\ DOMAIN Without(p) = DOMAIN tors \ {p}
  BY DEF Without
<1>2. torProcess' \in 0..spawned'
  BY DEF Cleanup, NoProcess
<1>3. tors' \in [DOMAIN tors' -> TorConfig] /\ DOMAIN tors' \subseteq 1..spawned'
  BY <1>1 DEF Cleanup
<1>4. replaced' \subseteq 1..spawned'
  BY DEF Cleanup
<1> QED BY <1>2, <1>3, <1>4

LEMMA LaunchTyped ==
  ASSUME TorTyping, NEW l \in Launches, NEW a \in LaunchSteps, LaunchTo(l, a)
  PROVE  launch' \in [Launches -> LaunchState]
<1>1. [launch[l] EXCEPT !.pc = a] \in LaunchState
  BY DEF TorTyping, LaunchState
<1> QED BY <1>1 DEF LaunchTo, TorTyping

LEMMA InviteTyped ==
  ASSUME TorTyping, NEW s \in Services, NEW a \in InviteSteps, InviteTo(s, a)
  PROVE  invite' \in [Services -> InviteState]
<1>1. [invite[s] EXCEPT !.pc = a] \in InviteState
  BY DEF TorTyping, InviteState
<1> QED BY <1>1 DEF InviteTo, TorTyping

\* What write_torrc writes.
LEMMA TorrcTyped ==
  ASSUME FilesTyped, NEW listed \in SUBSET AllServices
  PROVE  Torrc(listed) \in TorConfig
BY DEF FilesTyped, Torrc, TorConfig

LEMMA LaunchStepTyped ==
  ASSUME TorTyping, NEW l \in Launches, LaunchStep(l)
  PROVE  TorTyping'
<1> USE DEF LaunchSteps
<1>1. CASE ResolvePorts(l)
  <2>1. launch' \in [Launches -> LaunchState]
    BY <1>1, LaunchTyped DEF ResolvePorts
  <2>2. FreePorts(1) # {} => FindFreePort(1) \in Ports
    BY FoundPort
  <2>3. FreePorts(2) # {} => FindFreePort(2) \in Ports
    BY FoundPort
  <2>4. FreePorts(2) \subseteq FreePorts(1)
    <3>1. \A p \in Nat : p >= 2 => p >= 1
      OBVIOUS
    <3> QED BY <3>1, TorAssumption DEF FreePorts
  <2>5. ports' \in [socks : Ports, control : Ports]
    <3>1. CASE FreePorts(2) # {}
      BY <1>1, <2>2, <2>3, <2>4, <3>1 DEF ResolvePorts
    <3>2. CASE FreePorts(2) = {}
      BY <1>1, <2>2, <3>2 DEF ResolvePorts, TorTyping, FilesTyped
    <3> QED BY <3>1, <3>2
  <2> QED BY <1>1, <2>1, <2>5 DEF ResolvePorts, TorTyping, ProcessesTyped, FilesTyped, RunningTors
<1>2. CASE DownloadTor(l)
  <2>1. launch' \in [Launches -> LaunchState]
    BY <1>2, LaunchTyped DEF DownloadTor
  <2> QED BY <1>2, <2>1 DEF DownloadTor, TorTyping, ProcessesTyped, FilesTyped, RunningTors
<1>3. CASE ListServices(l)
  <2>1. serviceDirs' \in SUBSET AllServices
    BY <1>3 DEF ListServices, TorTyping, FilesTyped, AllServices
  <2>2. [pc |-> "spawn", listed |-> serviceDirs'] \in LaunchState
    BY <2>1 DEF LaunchState
  <2>3. launch' \in [Launches -> LaunchState]
    BY <1>3, <2>2 DEF ListServices, TorTyping
  <2> QED BY <1>3, <2>1, <2>3 DEF ListServices, TorTyping, ProcessesTyped, FilesTyped, RunningTors
<1>4. CASE SpawnTor(l)
  <2>1. launch' \in [Launches -> LaunchState]
    BY <1>4, LaunchTyped DEF SpawnTor
  <2>2. torrc' \in TorConfig
    <3>1. launch[l].listed \in SUBSET AllServices
      BY DEF TorTyping, LaunchState
    <3> QED BY <1>4, <3>1, TorrcTyped DEF SpawnTor, TorTyping
  <2>3. spawned' = spawned + 1 /\ spawned' \in 0..MaxTors /\ torProcess' = spawned + 1
    BY <1>4, TorAssumption DEF SpawnTor, TorTyping, ProcessesTyped
  <2>4. replaced' \subseteq 1..spawned'
    BY <1>4, <2>3 DEF SpawnTor, TorTyping, ProcessesTyped, NoProcess
  <2>5. tors' \in [DOMAIN tors' -> TorConfig] /\ DOMAIN tors' \subseteq DOMAIN tors \cup {spawned + 1}
    <3>1. CASE TorStarts(torrc')
      BY <1>4, <2>2, <3>1 DEF SpawnTor, TorTyping, ProcessesTyped, RunningTors
    <3>2. CASE ~TorStarts(torrc')
      BY <1>4, <3>2 DEF SpawnTor, TorTyping, ProcessesTyped, RunningTors
    <3> QED BY <3>1, <3>2
  <2>6. DOMAIN tors' \subseteq 1..spawned'
    BY <2>3, <2>5, TorAssumption DEF TorTyping, ProcessesTyped, RunningTors
  <2>7. ProcessesTyped'
    BY <2>3, <2>4, <2>5, <2>6 DEF ProcessesTyped, RunningTors, TorTyping
  <2> QED BY <1>4, <2>1, <2>2, <2>7 DEF SpawnTor, TorTyping, FilesTyped
<1>5. CASE Bootstrap(l)
  <2>1. launch' \in [Launches -> LaunchState]
    BY <1>5, LaunchTyped DEF Bootstrap
  <2>2. ProcessesTyped'
    BY <1>5, CleanupTyped DEF Bootstrap, TorTyping, ProcessesTyped, RunningTors
  <2> QED BY <1>5, <2>1, <2>2 DEF Bootstrap, TorTyping, FilesTyped
<1>6. CASE OnionAddress(l)
  <2>1. launch' \in [Launches -> LaunchState]
    BY <1>6, LaunchTyped DEF OnionAddress
  <2> QED BY <1>6, <2>1 DEF OnionAddress, TorTyping, ProcessesTyped, FilesTyped, RunningTors
<1> QED BY <1>1, <1>2, <1>3, <1>4, <1>5, <1>6 DEF LaunchStep

LEMMA InviteStepTyped ==
  ASSUME TorTyping, NEW s \in Services, InviteStep(s)
  PROVE  TorTyping'
<1> USE DEF InviteSteps
<1>1. CASE GenerateInvite(s)
  <2>1. invite' \in [Services -> InviteState]
    BY <1>1, InviteTyped DEF GenerateInvite
  <2>2. serviceDirs' \subseteq AllServices
    BY <1>1 DEF GenerateInvite, TorTyping, FilesTyped, AllServices
  <2> QED BY <1>1, <2>1, <2>2 DEF GenerateInvite, TorTyping, ProcessesTyped, FilesTyped, RunningTors
<1>2. CASE InviteList(s)
  <2>1. [pc |-> "write", listed |-> serviceDirs] \in InviteState
    BY DEF TorTyping, FilesTyped, InviteState
  <2>2. invite' \in [Services -> InviteState]
    BY <1>2, <2>1 DEF InviteList, TorTyping
  <2> QED BY <1>2, <2>2 DEF InviteList, TorTyping, ProcessesTyped, FilesTyped, RunningTors
<1>3. CASE InviteWrite(s)
  <2>1. invite' \in [Services -> InviteState]
    BY <1>3, InviteTyped DEF InviteWrite
  <2>2. invite[s].listed \in SUBSET AllServices
    BY DEF TorTyping, InviteState
  <2>3. torrc' \in TorConfig
    BY <1>3, <2>2, TorrcTyped DEF InviteWrite, TorTyping
  <2> QED BY <1>3, <2>1, <2>3 DEF InviteWrite, TorTyping, ProcessesTyped, FilesTyped, RunningTors
<1>4. CASE ReloadTorConfig(s)
  <2>1. invite' \in [Services -> InviteState]
    BY <1>4, InviteTyped DEF ReloadTorConfig
  <2>2. torrc.services \in SUBSET AllServices
    BY DEF TorTyping, FilesTyped, TorConfig
  <2>3. \A p \in RunningTors : [tors[p] EXCEPT !.services = torrc.services] \in TorConfig
    BY <2>2 DEF TorTyping, ProcessesTyped, TorConfig
  <2>4. tors' \in [RunningTors -> TorConfig]
    BY <1>4, <2>3 DEF ReloadTorConfig, TorTyping, ProcessesTyped
  <2>5. ProcessesTyped'
    BY <1>4, <2>4 DEF ReloadTorConfig, TorTyping, ProcessesTyped, RunningTors
  <2> QED BY <1>4, <2>1, <2>5 DEF ReloadTorConfig, TorTyping, FilesTyped
<1>5. CASE InviteHostname(s)
  <2>1. (IF s \in hostnames THEN "returned" ELSE "fallback") \in InviteSteps
    OBVIOUS
  <2>2. invite' \in [Services -> InviteState]
    BY <1>5, <2>1, InviteTyped DEF InviteHostname
  <2> QED BY <1>5, <2>2 DEF InviteHostname, TorTyping, ProcessesTyped, FilesTyped, RunningTors
<1> QED BY <1>1, <1>2, <1>3, <1>4, <1>5 DEF InviteStep

LEMMA TorItselfTyped ==
  ASSUME TorTyping, NEW p \in RunningTors, TorWritesHostname(p) \/ TorDies(p)
  PROVE  TorTyping'
<1>1. CASE TorWritesHostname(p)
  <2>1. hostnames' \subseteq AllServices
    BY <1>1 DEF TorWritesHostname, TorTyping, FilesTyped
  <2> QED BY <1>1, <2>1 DEF TorWritesHostname, TorTyping, ProcessesTyped, FilesTyped, RunningTors
<1>2. CASE TorDies(p)
  <2>1. tors' \in [DOMAIN tors' -> TorConfig] /\ DOMAIN tors' \subseteq DOMAIN tors
    BY <1>2 DEF TorDies, Without, TorTyping, ProcessesTyped, RunningTors
  <2> QED BY <1>2, <2>1 DEF TorDies, TorTyping, ProcessesTyped, FilesTyped, RunningTors
<1> QED BY <1>1, <1>2

LEMMA ShutDownTyped ==
  ASSUME TorTyping, ShutDown \/ Obliviate
  PROVE  TorTyping'
<1>1. ProcessesTyped'
  BY CleanupTyped DEF ShutDown, Obliviate, TorTyping
<1> QED BY <1>1 DEF ShutDown, Obliviate, TorTyping, FilesTyped

LEMMA TorInitTyped == TorInit => TorTyping
<1> SUFFICES ASSUME TorInit PROVE TorTyping
  OBVIOUS
<1> USE TorAssumption DEF TorInit
<1>1. ProcessesTyped
  BY DEF ProcessesTyped, RunningTors, NoProcess
<1>2. FilesTyped
  BY DEF FilesTyped, TorConfig
<1>3. launch \in [Launches -> LaunchState] /\ invite \in [Services -> InviteState]
  BY DEF LaunchState, InviteState, LaunchSteps, InviteSteps
<1> QED BY <1>1, <1>2, <1>3 DEF TorTyping

LEMMA TorTypingOK == TorTyping => TorTypeOK
<1> SUFFICES ASSUME TorTyping PROVE TorTypeOK
  OBVIOUS
<1> USE TorAssumption DEF TorTyping
<1>1. torProcess \in 0..MaxTors /\ spawned \in 0..MaxTors /\ RunningTors \subseteq 1..spawned /\ replaced \subseteq 1..spawned
  BY DEF ProcessesTyped
<1>2. ports.socks \in Ports /\ ports.control \in Ports
  BY DEF FilesTyped
<1>3. \A l \in Launches : launch[l].pc \in LaunchSteps
  BY DEF LaunchState
<1>4. \A s \in Services : invite[s].pc \in InviteSteps
  BY DEF InviteState
<1>5. /\ torrc.services \subseteq AllServices /\ hostnames \subseteq AllServices
      /\ nodeState \in {"up", "wiped", "exited"}
  BY DEF FilesTyped, TorConfig
<1> QED BY <1>1, <1>2, <1>3, <1>4, <1>5 DEF TorTypeOK, AllServices

\* Every variable of the Tor process, its files and its requests keeps its type.
THEOREM TorTyped == TorSpec => []TorTypeOK
<1>1. TorTyping /\ [TorNext]_torVars => TorTyping'
  <2> SUFFICES ASSUME TorTyping, [TorNext]_torVars PROVE TorTyping'
    OBVIOUS
  <2>1. ASSUME NEW l \in Launches, LaunchStep(l) PROVE TorTyping'
    BY <2>1, LaunchStepTyped
  <2>2. ASSUME NEW l \in Launches, StartTransport(l) PROVE TorTyping'
    <3>1. launch' \in [Launches -> LaunchState]
      BY <2>2, LaunchTyped DEF StartTransport, LaunchSteps
    <3> QED BY <2>2, <3>1 DEF StartTransport, TorTyping, ProcessesTyped, FilesTyped, RunningTors
  <2>3. ASSUME NEW l \in Launches, RestartTor(l) PROVE TorTyping'
    <3>1. launch' \in [Launches -> LaunchState]
      BY <2>3, LaunchTyped DEF RestartTor, LaunchSteps
    <3>2. ProcessesTyped'
      BY <2>3, CleanupTyped DEF RestartTor, TorTyping
    <3> QED BY <2>3, <3>1, <3>2 DEF RestartTor, TorTyping, FilesTyped
  <2>4. ASSUME NEW p \in RunningTors, TorWritesHostname(p) \/ TorDies(p) PROVE TorTyping'
    BY <2>4, TorItselfTyped
  <2>5. ASSUME NEW s \in Services, InviteStep(s) PROVE TorTyping'
    BY <2>5, InviteStepTyped
  <2>6. CASE ShutDown \/ Obliviate
    BY <2>6, ShutDownTyped
  <2>7. CASE ExitProcess
    BY <2>7 DEF ExitProcess, TorTyping, ProcessesTyped, FilesTyped, RunningTors
  <2>8. CASE UNCHANGED torVars
    BY <2>8 DEF torVars, TorTyping, ProcessesTyped, FilesTyped, RunningTors
  <2> QED BY <2>1, <2>2, <2>3, <2>4, <2>5, <2>6, <2>7, <2>8 DEF TorNext
<1> QED BY <1>1, TorInitTyped, TorTypingOK, PTL DEF TorSpec

\* So does every variable of the launcher around it.
LauncherTyping ==
  /\ TorTyping
  /\ mode \in {"p2p", "relay"} /\ daemonActive \in BOOLEAN
  /\ server \in [Launches -> {"none", "launching", "serving", "ended"}]

LEMMA StopServiceTyped ==
  ASSUME LauncherTyping, StopService, UNCHANGED spawned
  PROVE  ProcessesTyped' /\ daemonActive' \in BOOLEAN
<1>1. CASE daemonActive /\ mode = "p2p"
  BY <1>1, CleanupTyped DEF LauncherTyping, TorTyping, StopService
<1>2. CASE ~(daemonActive /\ mode = "p2p")
  BY <1>2 DEF LauncherTyping, TorTyping, StopService, ProcessesTyped, RunningTors
<1> QED BY <1>1, <1>2

THEOREM LauncherTyped == LauncherSpec => []LauncherTypeOK
<1>1. LauncherInit => LauncherTyping
  BY TorInitTyped DEF LauncherInit, LauncherTyping
<1>2. LauncherTyping /\ [LauncherNext]_launcherVars => LauncherTyping'
  <2> SUFFICES ASSUME LauncherTyping, [LauncherNext]_launcherVars PROVE LauncherTyping'
    OBVIOUS
  <2>0. UNCHANGED torVars => TorTyping'
    BY DEF torVars, LauncherTyping, TorTyping, ProcessesTyped, FilesTyped, RunningTors
  <2>d. daemonActive \in BOOLEAN
    BY DEF LauncherTyping
  <2>s. ASSUME NEW l, NEW a \in {"none", "launching", "serving", "ended"}, server' = [server EXCEPT ![l] = a]
        PROVE  server' \in [Launches -> {"none", "launching", "serving", "ended"}]
    BY <2>s DEF LauncherTyping
  <2>1. ASSUME NEW l \in Launches, StartDaemon(l) PROVE LauncherTyping'
    <3>1. (IF mode = "p2p" THEN "ports" ELSE "done") \in LaunchSteps
      BY DEF LaunchSteps
    <3>2. launch' \in [Launches -> LaunchState]
      BY <2>1, <3>1, LaunchTyped DEF StartDaemon, LauncherTyping
    <3>3. TorTyping'
      BY <2>1, <3>2 DEF StartDaemon, LauncherTyping, TorTyping, ProcessesTyped, FilesTyped, RunningTors
    <3>4. server' \in [Launches -> {"none", "launching", "serving", "ended"}]
      BY <2>1, <2>s DEF StartDaemon
    <3> QED BY <2>1, <3>3, <3>4 DEF StartDaemon, LauncherTyping
  <2>2. ASSUME NEW l \in Launches, Serve(l) PROVE LauncherTyping'
    <3>1. server' \in [Launches -> {"none", "launching", "serving", "ended"}]
      BY <2>2, <2>s DEF Serve
    <3> QED BY <2>0, <2>d, <2>2, <3>1 DEF Serve, LauncherTyping
  <2>3. ASSUME NEW l \in Launches, ServiceFails(l) PROVE LauncherTyping'
    <3>1. server' \in [Launches -> {"none", "launching", "serving", "ended"}]
      BY <2>3, <2>s DEF ServiceFails
    <3>2. ProcessesTyped' /\ daemonActive' \in BOOLEAN
      BY <2>3, StopServiceTyped DEF ServiceFails
    <3> QED BY <2>3, <3>1, <3>2 DEF ServiceFails, LauncherTyping, TorTyping, FilesTyped
  <2>4. CASE StopDaemon
    <3>1. ProcessesTyped' /\ daemonActive' \in BOOLEAN
      BY <2>4, StopServiceTyped DEF StopDaemon
    <3> QED BY <2>4, <3>1 DEF StopDaemon, LauncherTyping, TorTyping, FilesTyped
  <2>5. CASE OnClosing
    BY <2>d, <2>5, ShutDownTyped DEF OnClosing, LauncherTyping
  <2>6. ASSUME NEW l \in Launches, LaunchStep(l), UNCHANGED <<mode, daemonActive, server>> PROVE LauncherTyping'
    BY <2>d, <2>6, LaunchStepTyped DEF LauncherTyping
  <2>7. ASSUME NEW p \in RunningTors, TorWritesHostname(p) \/ TorDies(p), UNCHANGED <<mode, daemonActive, server>>
        PROVE  LauncherTyping'
    BY <2>d, <2>7, TorItselfTyped DEF LauncherTyping
  <2>8. CASE UNCHANGED launcherVars
    BY <2>0, <2>d, <2>8 DEF launcherVars, LauncherTyping
  <2> QED BY <2>1, <2>2, <2>3, <2>4, <2>5, <2>6, <2>7, <2>8 DEF LauncherNext
<1>3. LauncherTyping => LauncherTypeOK
  BY TorTypingOK DEF LauncherTyping, LauncherTypeOK
<1> QED BY <1>1, <1>2, <1>3, PTL DEF LauncherSpec

StarterState == [pc : Busy \cup {"idle", "done", "failed"}, current : Modes, target : Modes]

\* The advertisement that the handle names was not closed before.
AdvertisementTyped ==
  /\ mdns \in [pending : Nat, handle : BOOLEAN, live : Nat]
  /\ mdns.handle => mdns.live > 0

SwitchTyping == SwitchTypeOK /\ AdvertisementTyped /\ torCount \in Nat

LEMMA StartedTyped ==
  ASSUME SwitchTyping, NEW x \in Starters, NEW a \in Busy \cup {"idle", "done", "failed"}, StartTo(x, a)
  PROVE  start' \in [Starters -> StarterState]
<1>1. [start[x] EXCEPT !.pc = a] \in StarterState
  BY DEF SwitchTyping, SwitchTypeOK, StarterState
<1> QED BY <1>1 DEF StartTo, SwitchTyping, SwitchTypeOK, StarterState

LEMMA AdvertisingTyped ==
  ASSUME NEW m, NEW threads \in [pending : Nat, handle : BOOLEAN, live : Nat], threads.handle => threads.live > 0
  PROVE  /\ Advertising(m, threads) \in [pending : Nat, handle : BOOLEAN, live : Nat]
         /\ Advertising(m, threads).handle => Advertising(m, threads).live > 0
<1>1. threads.pending + 1 \in Nat
  OBVIOUS
<1>2. [threads EXCEPT !.pending = @ + 1] \in [pending : Nat, handle : BOOLEAN, live : Nat]
  BY <1>1
<1>3. [threads EXCEPT !.pending = @ + 1].handle = threads.handle /\ [threads EXCEPT !.pending = @ + 1].live = threads.live
  OBVIOUS
<1> QED BY <1>2, <1>3 DEF Advertising

\* Every variable of the switch between transports keeps its type.
THEOREM SwitchTyped == SwitchSpec => []SwitchTypeOK
<1> USE SwitchAssumption
<1>1. SwitchInit => SwitchTyping
  <2> SUFFICES ASSUME SwitchInit PROVE SwitchTyping
    OBVIOUS
  <2>1. relayAsOnion \in BOOLEAN /\ activeMode \in Modes /\ routed \in Modes
    BY Zenon DEF SwitchInit
  <2>2. FirstStep(activeMode) \in Busy
    BY DEF FirstStep, Busy
  <2>3. start \in [Starters -> StarterState]
    BY <2>1, <2>2 DEF SwitchInit, StarterState
  <2>4. torHandle \in 0..torCount /\ torLive \subseteq 1..torCount /\ torCount \in Nat
    BY DEF SwitchInit
  <2>5. /\ [pending |-> 0, handle |-> FALSE, live |-> 0] \in [pending : Nat, handle : BOOLEAN, live : Nat]
        /\ ~[pending |-> 0, handle |-> FALSE, live |-> 0].handle
    OBVIOUS
  <2>6. AdvertisementTyped
    BY <2>5, AdvertisingTyped DEF SwitchInit, AdvertisementTyped
  <2> QED BY <2>1, <2>3, <2>4, <2>6 DEF SwitchTyping, SwitchTypeOK, StarterState, AdvertisementTyped
<1>2. SwitchTyping /\ [SwitchNext]_switchVars => SwitchTyping'
  <2> SUFFICES ASSUME SwitchTyping, [SwitchNext]_switchVars PROVE SwitchTyping'
    OBVIOUS
  <2>a. /\ relayAsOnion \in BOOLEAN /\ activeMode \in Modes /\ routed \in Modes
        /\ start \in [Starters -> StarterState]
    BY DEF SwitchTyping, SwitchTypeOK, StarterState
  <2>b. torHandle \in 0..torCount /\ torLive \subseteq 1..torCount /\ torCount \in Nat
    BY DEF SwitchTyping, SwitchTypeOK
  <2>m. AdvertisementTyped
    BY DEF SwitchTyping
  <2>f. \A m : FirstStep(m) \in Busy
    BY DEF FirstStep, Busy
  <2>u. ASSUME UNCHANGED mdns PROVE AdvertisementTyped'
    BY <2>m, <2>u DEF AdvertisementTyped
  <2>q. ASSUME relayAsOnion' \in BOOLEAN, activeMode' \in Modes, routed' \in Modes,
               start' \in [Starters -> StarterState],
               torHandle' \in 0..torCount', torLive' \subseteq 1..torCount', torCount' \in Nat,
               AdvertisementTyped'
        PROVE  SwitchTyping'
    BY <2>q DEF SwitchTyping, SwitchTypeOK, StarterState, AdvertisementTyped
  <2>s. \A r : r \in SwitchRequests => r \in Starters
    BY DEF Starters
  <2>k. ASSUME NEW x \in Starters, MakeActive(x)
        PROVE  activeMode' \in Modes /\ routed' \in Modes /\ start' \in [Starters -> StarterState]
    <3>1. start[x].target \in Modes
      BY <2>a DEF StarterState
    <3> QED BY <2>k, <3>1, StartedTyped DEF MakeActive
  <2>1. ASSUME NEW r \in SwitchRequests, SameMode(r) PROVE SwitchTyping'
    <3>1. start' \in [Starters -> StarterState]
      BY <2>s, <2>1, StartedTyped DEF SameMode
    <3>2. torHandle' \in 0..torCount' /\ torLive' \subseteq 1..torCount' /\ torCount' \in Nat
      BY <2>b, <2>1 DEF SameMode, torState
    <3> QED BY <2>a, <2>q, <2>u, <2>1, <3>1, <3>2 DEF SameMode
  <2>2. ASSUME NEW r \in SwitchRequests, SwitchMode(r) PROVE SwitchTyping'
    <3> DEFINE m == CHOOSE n \in Modes : n # activeMode
    <3>1. m \in Modes
      BY <2>a DEF Modes
    <3> HIDE DEF m
    <3>2. [pc |-> FirstStep(m), current |-> activeMode, target |-> m] \in StarterState
      BY <2>a, <2>f, <3>1 DEF StarterState
    <3>3. start' \in [Starters -> StarterState]
      BY <2>2, <2>a, <3>2 DEF SwitchMode, m
    <3>4. mdns' = Advertising(m, mdns)
      BY <2>2 DEF SwitchMode, m
    <3>5. AdvertisementTyped'
      BY <2>m, <3>4, AdvertisingTyped DEF AdvertisementTyped
    <3> QED BY <2>2, <2>a, <2>b, <2>q, <3>3, <3>5 DEF SwitchMode, torState
  <2>3. ASSUME NEW r \in SwitchRequests, StopAtOnce(r) PROVE SwitchTyping'
    <3>1. activeMode' \in Modes /\ routed' \in Modes /\ start' \in [Starters -> StarterState]
      BY <2>3, <2>k, <2>s DEF StopAtOnce
    <3>2. AdvertisementTyped'
      <4>1. ASSUME mdns.handle
            PROVE  /\ [mdns EXCEPT !.handle = FALSE, !.live = @ - 1] \in [pending : Nat, handle : BOOLEAN, live : Nat]
                   /\ ~[mdns EXCEPT !.handle = FALSE, !.live = @ - 1].handle
        <5>1. mdns.live - 1 \in Nat
          BY <2>m, <4>1 DEF AdvertisementTyped
        <5> QED BY <2>m, <5>1 DEF AdvertisementTyped
      <4>2. CASE mdns' = mdns
        BY <2>u, <4>2
      <4>3. CASE mdns.handle /\ mdns' = [mdns EXCEPT !.handle = FALSE, !.live = @ - 1]
        BY <4>1, <4>3 DEF AdvertisementTyped
      <4> QED BY <2>3, <4>2, <4>3 DEF StopAtOnce
    <3> QED BY <2>3, <2>a, <2>b, <2>q, <3>1, <3>2 DEF StopAtOnce, torState
  <2>4. ASSUME NEW r \in SwitchRequests, StopTor(r) PROVE SwitchTyping'
    <3>0. "waiting" \in Busy
      BY DEF Busy
    <3>1. start' \in [Starters -> StarterState]
      BY <3>0, <2>s, <2>4, StartedTyped DEF StopTor
    <3>2. torHandle' \in 0..torCount' /\ torLive' \subseteq 1..torCount' /\ torCount' \in Nat
      BY <2>b, <2>4 DEF StopTor, torState
    <3> QED BY <2>a, <2>q, <2>u, <2>4, <3>1, <3>2 DEF StopTor
  <2>5. ASSUME NEW r \in SwitchRequests, FinishSwitch(r) PROVE SwitchTyping'
    <3>1. activeMode' \in Modes /\ routed' \in Modes /\ start' \in [Starters -> StarterState]
      BY <2>5, <2>k, <2>s DEF FinishSwitch
    <3>2. torHandle' \in 0..torCount' /\ torLive' \subseteq 1..torCount' /\ torCount' \in Nat
      BY <2>5, <2>b DEF FinishSwitch
    <3> QED BY <2>5, <2>a, <2>q, <2>u, <3>1, <3>2 DEF FinishSwitch
  <2>w. {"spawn", "booting", "giveup", "address", "stop", "waiting"} = Busy
    BY DEF Busy
  <2>6. ASSUME NEW x \in Starters, LaunchSpawn(x) PROVE SwitchTyping'
    <3>1. start' \in [Starters -> StarterState]
      BY <2>w, <2>6, StartedTyped DEF LaunchSpawn
    <3>2. torHandle' \in 0..torCount' /\ torLive' \subseteq 1..torCount' /\ torCount' \in Nat
      BY <2>b, <2>6 DEF LaunchSpawn, torState
    <3> QED BY <2>a, <2>q, <2>u, <2>6, <3>1, <3>2 DEF LaunchSpawn
  <2>7. ASSUME NEW x \in Starters, LaunchBooted(x) PROVE SwitchTyping'
    <3>1. start' \in [Starters -> StarterState]
      BY <2>w, <2>7, StartedTyped DEF LaunchBooted
    <3>2. torHandle' \in 0..torCount' /\ torLive' \subseteq 1..torCount' /\ torCount' \in Nat
      BY <2>b, <2>7 DEF LaunchBooted, torState
    <3> QED BY <2>a, <2>q, <2>u, <2>7, <3>1, <3>2 DEF LaunchBooted
  <2>8. ASSUME NEW x \in Starters, LaunchTimesOut(x) PROVE SwitchTyping'
    <3>1. start' \in [Starters -> StarterState]
      BY <2>w, <2>8, StartedTyped DEF LaunchTimesOut
    <3>2. torHandle' \in 0..torCount' /\ torLive' \subseteq 1..torCount' /\ torCount' \in Nat
      BY <2>b, <2>8 DEF LaunchTimesOut, torState
    <3> QED BY <2>a, <2>q, <2>u, <2>8, <3>1, <3>2 DEF LaunchTimesOut
  <2>9. ASSUME NEW x \in Starters, LaunchGivesUp(x) PROVE SwitchTyping'
    <3>1. start' \in [Starters -> StarterState]
      BY <2>w, <2>9, StartedTyped DEF LaunchGivesUp
    <3>2. torHandle' \in 0..torCount' /\ torLive' \subseteq 1..torCount' /\ torCount' \in Nat
      BY <2>b, <2>9 DEF LaunchGivesUp, torState
    <3> QED BY <2>a, <2>q, <2>u, <2>9, <3>1, <3>2 DEF LaunchGivesUp
  <2>10. ASSUME NEW x \in Starters, LaunchAddress(x) PROVE SwitchTyping'
    <3>1. start' \in [Starters -> StarterState]
      BY <2>w, <2>10, StartedTyped DEF LaunchAddress
    <3>2. torHandle' \in 0..torCount' /\ torLive' \subseteq 1..torCount' /\ torCount' \in Nat
      BY <2>b, <2>10 DEF LaunchAddress, torState
    <3> QED BY <2>a, <2>q, <2>u, <2>10, <3>1, <3>2 DEF LaunchAddress
  <2>11. ASSUME NEW x \in Starters, LaunchFails(x) PROVE SwitchTyping'
    <3>1. start' \in [Starters -> StarterState]
      BY <2>w, <2>11, StartedTyped DEF LaunchFails
    <3>2. torHandle' \in 0..torCount' /\ torLive' \subseteq 1..torCount' /\ torCount' \in Nat
      BY <2>b, <2>11 DEF LaunchFails, torState
    <3> QED BY <2>a, <2>q, <2>u, <2>11, <3>1, <3>2 DEF LaunchFails
  <2>12. CASE MainServes
    <3>1. start' \in [Starters -> StarterState]
      BY <2>12, StartedTyped DEF MainServes, Starters
    <3> QED BY <2>12, <2>a, <2>b, <2>q, <2>u, <3>1 DEF MainServes, torState
  <2>13. CASE AdvertiseMdns
    <3>1. mdns.pending - 1 \in Nat /\ mdns.live + 1 \in Nat /\ mdns.live + 1 > 0
      BY <2>13, <2>m DEF AdvertiseMdns, AdvertisementTyped
    <3>2. CASE mdns' = [pending |-> mdns.pending - 1, handle |-> TRUE, live |-> mdns.live + 1]
      <4>1. AdvertisementTyped'
        BY <3>1, <3>2 DEF AdvertisementTyped
      <4> QED BY <2>13, <2>a, <2>b, <2>q, <4>1 DEF AdvertiseMdns, torState
    <3>3. CASE mdns' = [mdns EXCEPT !.pending = @ - 1]
      <4>1. AdvertisementTyped'
        BY <2>m, <3>1, <3>3 DEF AdvertisementTyped
      <4> QED BY <2>13, <2>a, <2>b, <2>q, <4>1 DEF AdvertiseMdns, torState
    <3> QED BY <2>13, <3>2, <3>3 DEF AdvertiseMdns
  <2>14. ASSUME NEW p \in torLive, TorExits(p) PROVE SwitchTyping'
    BY <2>14, <2>a, <2>b, <2>q, <2>u DEF TorExits
  <2>15. CASE UNCHANGED switchVars
    BY <2>15, <2>a, <2>b, <2>q, <2>u DEF switchVars
  <2> QED BY <2>1, <2>2, <2>3, <2>4, <2>5, <2>6, <2>7, <2>8, <2>9, <2>10, <2>11, <2>12, <2>13, <2>14,
             <2>15 DEF SwitchNext
<1>3. SwitchTyping => SwitchTypeOK
  BY DEF SwitchTyping
<1> QED BY <1>1, <1>2, <1>3, PTL DEF SwitchSpec
=============================================================================
