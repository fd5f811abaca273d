------------------------------- MODULE Tunnels -------------------------------
(***************************************************************************)
(* The tunnels that make the hub reachable from outside: a process of      *)
(* Cloudflare or Pinggy, or the mesh, whose Headscale server is a systemd   *)
(* unit.  One store says which tunnel is active.  Starts, stops, status     *)
(* requests, the watchdog of the mesh and its recoveries are greenlets that *)
(* wait for processes, systemctl and sockets, and run side by side.  The    *)
(* unit outlives the server and is enabled at boot; the store does not.     *)
(*                                                                         *)
(* inherited and loose are histories.                                      *)
(***************************************************************************)
EXTENDS Naturals, FiniteSets

CONSTANTS
    Cloudflare, Pinggy,  \* the processes each provider may start
    None,
    StartsOverlap,       \* may a tunnel be started beside another start, a stop
                         \* or the mesh
    MaxFaults            \* how often one of the startup's stages fails

Processes == Cloudflare \cup Pinggy
ProviderOf(p) == IF p \in Cloudflare THEN "cloudflare" ELSE "pinggy"

ASSUME TunnelAssumption ==
    /\ Cloudflare \cap Pinggy = {} /\ None \notin Processes
    /\ {"mesh", "cloudflare", "pinggy"} \cap (Processes \cup {None}) = {}
    /\ StartsOverlap \in BOOLEAN /\ MaxFaults \in Nat

VARIABLES
    active,       \* active_tunnel_info
    processes,    \* the tunnel processes that run
    launching,    \* those started by a request that sleeps until it registers them
    stopping,     \* what a stop request waits for: None, "mesh", or a process
    hs,           \* Headscale: "up", "down", or "fallen": it died by itself
    inherited,    \* this run of the server has neither started nor stopped it
    loose,        \* a recovery was under way when the mesh was stopped, or began since
    runner,       \* where the startup greenlet and the recovery greenlet are
    cooled,       \* has the cooldown of recoveries passed
    failures,     \* mesh_connectivity_failures
    watchdog,     \* the watchdog's greenlet; "gone" also stands for its flag
    poll,         \* a status request of a mesh that runs
    faults

unitVars == <<hs, inherited>>
meshVars == <<unitVars, loose, runner, cooled, failures, watchdog, poll>>
processVars == <<processes, launching>>
tunnelVars == <<active, processVars, stopping, meshVars, faults>>

Runners == {"startup", "recovery"}
Places == {"none", "config", "checking", "stale", "clearing", "restarting", "waiting",
           "joining", "keys"}
Default == [provider |-> None, status |-> None, process |-> None, url |-> None]

TunnelsTypeOK ==
    /\ active \in [provider : {None, "mesh", "cloudflare", "pinggy"},
                   status : {None, "starting", "running", "error"},
                   process : Processes \cup {None}, url : Processes \cup {None, "mesh"}]
    /\ launching \subseteq Processes /\ processes \subseteq Processes
    /\ stopping \in Processes \cup {None, "mesh"}
    /\ runner \in [Runners -> Places]
    /\ hs \in {"up", "down", "fallen"} /\ {inherited, loose, cooled} \subseteq BOOLEAN
    /\ watchdog \in {"gone", "asleep", "looking", "verifying"}
    /\ poll \in {"none", "looking", "verifying"}
    /\ failures \in 0..3 /\ faults \in 0..MaxFaults

\* Headscale may run from before, or from the boot.
TunnelsInit ==
    /\ active = Default
    /\ processes = {} /\ launching = {}
    /\ stopping = None /\ hs \in {"up", "down"} /\ inherited = TRUE /\ loose = FALSE
    /\ runner = [r \in Runners |-> "none"]
    /\ cooled = TRUE /\ failures = 0 /\ watchdog = "gone" /\ poll = "none"
    /\ faults = 0

-----------------------------------------------------------------------------
(* Tunnels that are a process. *)

\* The code provides for no start while another, or a stop, is under way, and for none
\* of a process beside the mesh; it excludes them nowhere.
Underway == launching # {} \/ stopping # None

\* get_running_process_tunnel knows the processes only, not the mesh.
NoProcessRuns == active.process \notin processes

\* start_cloudflare_tunnel and start_pinggy_tunnel: to their sleep.
Launch(p) ==
    /\ p \notin processes \cup launching \cup {active.process, stopping} /\ NoProcessRuns
    /\ processes' = processes \cup {p}
    /\ launching' = launching \cup {p}
    /\ active.provider = "mesh" \/ Underway => StartsOverlap
    /\ UNCHANGED <<active, stopping, meshVars, faults>>

\* register_process_tunnel.
Register(p) ==
    /\ p \in launching /\ (p \in Pinggy \/ p \in processes)
    /\ launching' = launching \ {p}
    /\ active' = [Default EXCEPT !.provider = ProviderOf(p), !.process = p]
    /\ UNCHANGED <<processes, stopping, meshVars, faults>>

\* cloudflared is gone when the sleep ends.
ExitedDuringStartup(p) ==
    /\ p \in launching \cap Cloudflare /\ p \notin processes
    /\ launching' = launching \ {p}
    /\ active' = Default
    /\ UNCHANGED <<processes, stopping, meshVars, faults>>

\* ssh says why it cannot connect.
PinggyRefused(p) ==
    /\ p \in launching \cap Pinggy
    /\ launching' = launching \ {p}
    /\ processes' = processes \ {p}
    /\ UNCHANGED <<active, stopping, meshVars, faults>>

\* A reader of cloudflared's output finds the URL, or the capture of Pinggy's,
\* which begins with the registration.
StoreCapturedUrl(p) ==
    /\ p \in processes /\ (p \in Pinggy => p \notin launching)
    /\ active' = [active EXCEPT !.url = p]
    /\ UNCHANGED <<processVars, stopping, meshVars, faults>>

ProcessExits(p) ==
    /\ p \in processes
    /\ processes' = processes \ {p}
    /\ UNCHANGED <<active, launching, stopping, meshVars, faults>>

\* stop_process_tunnel: a process that has exited needs no wait.
StopProcess ==
    /\ stopping = None /\ active.provider # "mesh" /\ active.process # None
    /\ IF NoProcessRuns THEN active' = Default /\ UNCHANGED stopping
                        ELSE stopping' = active.process /\ UNCHANGED active
    /\ UNCHANGED <<processVars, meshVars, faults>>

\* It has ended, or was killed after five seconds.
ProcessStopped ==
    /\ stopping \in Processes
    /\ processes' = processes \ {stopping}
    /\ active' = Default /\ stopping' = None
    /\ UNCHANGED <<launching, meshVars, faults>>

\* get_process_tunnel_status cleans up after a process that exited.
NoticeExit ==
    /\ active.provider \in {"cloudflare", "pinggy"} /\ NoProcessRuns
    /\ active' = Default
    /\ UNCHANGED <<processVars, stopping, meshVars, faults>>

-----------------------------------------------------------------------------
(* Headscale's runtime service, run by the startup and by a recovery. *)

\* A systemctl stop or restart.
Systemctl(state) == hs' = state /\ inherited' = FALSE

\* The startup reports each stage it comes to (_mesh_progress).
Advance(r, from, to) ==
    /\ runner[r] = from
    /\ runner' = [runner EXCEPT ![r] = to]
    /\ active' = IF r = "startup" THEN [active EXCEPT !.status = "starting"] ELSE active
    /\ UNCHANGED <<processVars, stopping, loose, cooled, failures, watchdog, poll, faults>>

Configure == Advance("startup", "config", "checking") /\ UNCHANGED unitVars

\* is_hs_running; the running server may have an old configuration, or the Pi
\* may have left the mesh.
CheckHeadscale(r) ==
    /\ \E to \in IF hs = "up" THEN {"stale", "joining", "keys"} ELSE {"clearing"} :
            Advance(r, "checking", to)
    /\ UNCHANGED unitVars

\* "forcing service restart to reload configuration"
ReloadHeadscale(r) == Advance(r, "stale", "joining") /\ Systemctl("down")
ClearHeadscale(r) == Advance(r, "clearing", "restarting") /\ Systemctl("down")
RestartHeadscale(r) == Advance(r, "restarting", "waiting") /\ Systemctl("up")
HeadscaleAnswers(r) == hs = "up" /\ Advance(r, "waiting", "joining") /\ UNCHANGED unitVars
\* What join_pi_to_mesh returns is not looked at.
JoinMesh(r) == Advance(r, "joining", "keys") /\ UNCHANGED unitVars

\* start_watchdog, unless it is there.
WatchdogStarts == watchdog' = IF watchdog = "gone" THEN "asleep" ELSE watchdog

\* A configuration, systemctl, the join or the keys fail (the watchdog may have been
\* started by then), or Headscale does not answer in time.
StartFails(r) ==
    /\ \/ /\ runner[r] \in {"config", "checking", "restarting", "joining", "keys"}
          /\ faults < MaxFaults /\ faults' = faults + 1
       \/ runner[r] = "waiting" /\ hs # "up" /\ UNCHANGED faults
    /\ runner' = [runner EXCEPT ![r] = "none"]
    /\ active' = IF r = "startup" THEN [active EXCEPT !.status = "error"] ELSE active
    /\ UNCHANGED watchdog \/ (r = "startup" /\ runner[r] = "keys" /\ WatchdogStarts)
    /\ UNCHANGED <<processVars, stopping, unitVars, loose, cooled, failures, poll>>

\* The keys are made and the watchdog starts.
StartupCompletesUnwatched ==
    /\ runner["startup"] = "keys"
    /\ runner' = [runner EXCEPT !["startup"] = "none"]
    /\ active' = [active EXCEPT !.status = "running"]
    /\ UNCHANGED <<processVars, stopping, unitVars, loose, cooled, failures, watchdog, poll,
                   faults>>
StartupCompletes ==
    /\ runner["startup"] = "keys"
    /\ runner' = [runner EXCEPT !["startup"] = "none"]
    /\ active' = [active EXCEPT !.status = "running"]
    /\ WatchdogStarts
    /\ UNCHANGED <<processVars, stopping, unitVars, loose, cooled, failures, poll, faults>>

RecoveryCompletes ==
    /\ runner["recovery"] = "keys"
    /\ runner' = [runner EXCEPT !["recovery"] = "none"]
    /\ UNCHANGED <<active, processVars, stopping, unitVars, loose, cooled, failures, watchdog,
                   poll, faults>>

-----------------------------------------------------------------------------
(* The mesh: start, stop, watchdog and status. *)

StartMesh ==
    /\ active.provider \in {None, "mesh"} /\ runner["startup"] = "none"
    /\ active' = [active EXCEPT !.provider = "mesh", !.status = "starting", !.url = "mesh"]
    /\ runner' = [runner EXCEPT !["startup"] = "config"]
    /\ Underway => StartsOverlap
    /\ UNCHANGED <<processVars, stopping, unitVars, loose, cooled, failures, watchdog, poll,
                   faults>>

\* stop_mesh_tunnel kills the startup and the watchdog, and waits for systemctl.
\* A systemctl restart the startup had asked for may still come through before.
StopMeshDuringStartup ==
    /\ stopping = None /\ active.provider = "mesh"
    /\ stopping' = "mesh" /\ watchdog' = "gone"
    /\ loose' = (loose \/ runner["recovery"] # "none")
    /\ UNCHANGED <<active, processVars, unitVars, runner, cooled, failures, poll, faults>>
StopMesh ==
    /\ stopping = None /\ active.provider = "mesh"
    /\ stopping' = "mesh"
    /\ UNCHANGED unitVars \/ (runner["startup"] = "restarting" /\ Systemctl("up"))
    /\ runner' = [runner EXCEPT !["startup"] = "none"]
    /\ watchdog' = "gone"
    /\ loose' = (loose \/ runner["recovery"] # "none")
    /\ UNCHANGED <<active, processVars, cooled, failures, poll, faults>>

MeshStopped ==
    /\ stopping = "mesh"
    /\ Systemctl("down") /\ active' = Default /\ stopping' = None
    /\ loose' = (loose /\ runner["recovery"] # "none")
    /\ UNCHANGED <<processVars, runner, cooled, failures, watchdog, poll, faults>>

\* attempt_recovery: not beside another one, nor within the cooldown.
AttemptRecovery(when) ==
    LET starts == when /\ cooled /\ runner["recovery"] = "none"
    IN  /\ runner' = IF starts THEN [runner EXCEPT !["recovery"] = "checking"] ELSE runner
        /\ cooled' = (cooled /\ ~starts)
        /\ loose' = (loose \/ (starts /\ (stopping = "mesh" \/ active.provider # "mesh")))

CooldownPasses ==
    /\ ~cooled /\ cooled' = TRUE
    /\ UNCHANGED <<active, processVars, stopping, unitVars, loose, runner, failures, watchdog,
                   poll, faults>>

\* verify_tailscale_connectivity asks Tailscale, which may say anything.
CountConnectivity ==
    \/ failures' = 0 /\ UNCHANGED <<runner, cooled, loose>>
    \/ /\ failures' = IF failures < 3 THEN failures + 1 ELSE 3
       /\ AttemptRecovery(failures' = 3)

Watches(from, to) ==
    /\ watchdog = from /\ watchdog' = to
    /\ UNCHANGED <<active, processVars, stopping, unitVars, poll, faults>>

WatchdogWakes ==
    /\ active.provider = "mesh" /\ Watches("asleep", "looking")
    /\ UNCHANGED <<runner, cooled, loose, failures>>
WatchdogLooks ==
    /\ Watches("looking", IF hs = "up" THEN "verifying" ELSE "asleep")
    /\ AttemptRecovery(hs # "up")
    /\ UNCHANGED failures
WatchdogVerifies == Watches("verifying", "asleep") /\ CountConnectivity

Polls(from, to) ==
    /\ poll = from /\ poll' = to
    /\ UNCHANGED <<active, processVars, stopping, unitVars, watchdog, faults>>

\* get_mesh_tunnel_status of a mesh that neither starts nor has failed.
BeginStatus ==
    /\ active.provider = "mesh" /\ active.status \notin {"starting", "error"}
    /\ Polls("none", "looking")
    /\ UNCHANGED <<runner, cooled, loose, failures>>
StatusLooks ==
    /\ Polls("looking", IF hs = "up" THEN "verifying" ELSE "none")
    /\ AttemptRecovery(hs # "up")
    /\ UNCHANGED failures
StatusVerifies == Polls("verifying", "none") /\ CountConnectivity

HeadscaleDies ==
    /\ hs = "up" /\ hs' = "fallen"
    /\ UNCHANGED <<active, processVars, stopping, inherited, loose, runner, cooled, failures,
                   watchdog, poll, faults>>

\* Restart=on-failure, until the unit has failed too often; a systemctl stop ends it.
SystemdRestarts ==
    /\ hs = "fallen" /\ hs' = "up"
    /\ UNCHANGED <<active, processVars, stopping, inherited, loose, runner, cooled, failures,
                   watchdog, poll, faults>>

\* The server, or the box, is started anew: processes and greenlets are gone, and so is
\* the store.  Headscale goes on, comes up with the box, or ends with the systemctl stop
\* that was under way.
ServerRestarts ==
    /\ active' = Default
    /\ processes' = {} /\ launching' = {}
    /\ stopping' = None /\ hs' \in {"up", "down"} /\ inherited' = TRUE /\ loose' = FALSE
    /\ runner' = [r \in Runners |-> "none"]
    /\ cooled' = TRUE /\ failures' = 0 /\ watchdog' = "gone" /\ poll' = "none"
    /\ UNCHANGED <<faults>>

-----------------------------------------------------------------------------
RunnerSteps(r) ==
    \/ CheckHeadscale(r) \/ ReloadHeadscale(r) \/ ClearHeadscale(r) \/ RestartHeadscale(r)
    \/ HeadscaleAnswers(r) \/ JoinMesh(r) \/ StartFails(r)

TunnelsNext ==
    \/ \E p \in Processes :
        \/ Launch(p) \/ Register(p) \/ ExitedDuringStartup(p) \/ PinggyRefused(p)
        \/ StoreCapturedUrl(p) \/ ProcessExits(p)
    \/ StopProcess \/ ProcessStopped \/ NoticeExit
    \/ StartMesh \/ StopMesh \/ MeshStopped
    \/ Configure \/ StartupCompletes \/ RecoveryCompletes
    \/ \E r \in Runners : RunnerSteps(r)
    \/ WatchdogWakes \/ WatchdogLooks \/ WatchdogVerifies \/ CooldownPasses
    \/ BeginStatus \/ StatusLooks \/ StatusVerifies
    \/ HeadscaleDies \/ SystemdRestarts \/ ServerRestarts

TunnelsSpec == TunnelsInit /\ [][TunnelsNext]_tunnelVars

\* The greenlets of the mesh run on, and time passes; users and processes are free.
TunnelsFairness ==
    /\ WF_tunnelVars(WatchdogWakes \/ WatchdogLooks \/ WatchdogVerifies)
    /\ WF_tunnelVars(CooldownPasses) /\ WF_tunnelVars(MeshStopped)
    /\ WF_tunnelVars(RunnerSteps("recovery") \/ RecoveryCompletes)

FairTunnels == TunnelsSpec /\ TunnelsFairness

-----------------------------------------------------------------------------
(* Properties. *)

Settled ==
    /\ launching = {} /\ stopping = None /\ poll = "none"
    /\ \A r \in Runners : runner[r] = "none"

\* When no tunnel is active and nothing is under way, this run of the server leaves
\* nothing that gives access from outside: no process runs and Headscale is down,
\* whatever crashed, failed, was restarted or killed half-way, and whatever status
\* requests go on meanwhile.  Excepted are a Headscale that the server found running
\* when it started, and one that a recovery has brought up which the stop did not end.
StoppedMeansStopped ==
    ~StartsOverlap /\ Settled /\ active.provider = None =>
        processes = {} /\ (hs # "down" => inherited \/ loose)

\* Once stop_mesh_tunnel has answered "Secure Mesh stopped.", Headscale does not run,
\* also when the greenlets that were under way have ended.
StoppedMeshIsDown ==
    Settled /\ active.provider = None => hs # "up" \/ inherited

\* A mesh that is said to run and whose Headscale is down gets it back, unless it
\* is stopped or started anew.
MeshRecovers ==
    (active.provider = "mesh" /\ active.status = "running" /\ hs # "up")
        ~> (hs = "up" \/ active.provider # "mesh" \/ active.status # "running")
=============================================================================
