--------------------------- MODULE ApplianceProofs ---------------------------
(* Proofs about what runs beside the server: TvCast, for every number of      *)
(* clients, TV pages and pending boot timers; and Tunnels, for every set of   *)
(* processes, crashes and any number of failures.                             *)
EXTENDS TvCast, Tunnels, TLAPS

LEMMA InitHolds == Init => IInv
<1> SUFFICES ASSUME Init PROVE IInv
  OBVIOUS
<1>1. /\ DOMAIN starts = {} /\ DOMAIN stops = {}
      /\ starts \in [DOMAIN starts -> {"check", "command", "settle"}]
      /\ stops \in [DOMAIN stops -> {"command", "refresh"}]
  BY DEF Init, KioskInit
<1>2. TypeOK
  BY <1>1 DEF Init, KioskInit, TypeOK, KioskTypeOK
<1>3. TvShowsTheCast /\ BootPendingIsArmed /\ TimersMeanNoCast
  BY <1>1 DEF Init, KioskInit, TvShowsTheCast, BootPendingIsArmed, TimersMeanNoCast, At
<1> QED
  BY <1>2, <1>3 DEF IInv

-----------------------------------------------------------------------------
(* Types. *)

(* A client's start of the kiosk begins, goes on and ends.                   *)
LEMMA StartsType ==
  ASSUME KioskTypeOK, NEW c \in Clients, NEW y \in {"check", "command", "settle"}
  PROVE  /\ DOMAIN With(starts, c, y) \subseteq Clients
         /\ With(starts, c, y) \in [DOMAIN With(starts, c, y) -> {"check", "command", "settle"}]
         /\ DOMAIN [starts EXCEPT ![c] = y] = DOMAIN starts
         /\ [starts EXCEPT ![c] = y] \in [DOMAIN starts -> {"check", "command", "settle"}]
         /\ DOMAIN Without(starts, c) \subseteq Clients
         /\ Without(starts, c) \in [DOMAIN Without(starts, c) -> {"check", "command", "settle"}]
  BY DEF KioskTypeOK, With, Without, Restrict

(* So does a stop of the kiosk.                                              *)
LEMMA StopsType ==
  ASSUME KioskTypeOK, NEW who \in Stoppers, NEW y \in {"command", "refresh"}
  PROVE  /\ DOMAIN With(stops, who, y) \subseteq Stoppers
         /\ With(stops, who, y) \in [DOMAIN With(stops, who, y) -> {"command", "refresh"}]
         /\ DOMAIN [stops EXCEPT ![who] = y] = DOMAIN stops
         /\ [stops EXCEPT ![who] = y] \in [DOMAIN stops -> {"command", "refresh"}]
         /\ DOMAIN Without(stops, who) \subseteq Stoppers
         /\ Without(stops, who) \in [DOMAIN Without(stops, who) -> {"command", "refresh"}]
  BY DEF KioskTypeOK, With, Without, Restrict

(* What the calls of a client leave well-typed.                              *)
LEMMA ClientCallType ==
  ASSUME KioskTypeOK, NEW c \in Clients,
         \/ on_cast_start(c) \/ NeedsStart(c) \/ StartCommand(c) \/ KioskStarted(c)
         \/ on_cast_stop(c)
  PROVE  KioskTypeOK'
<1>1. CASE on_cast_start(c)
  BY <1>1, StartsType DEF on_cast_start, KioskTypeOK
<1>2. CASE NeedsStart(c)
  BY <1>2, StartsType DEF NeedsStart, KioskTypeOK
<1>3. CASE StartCommand(c)
  BY <1>3, StartsType DEF StartCommand, KioskTypeOK
<1>4. CASE KioskStarted(c)
  BY <1>4, StartsType DEF KioskStarted, KioskTypeOK
<1>5. CASE on_cast_stop(c)
  <2>1. c \in Stoppers
    BY DEF Stoppers
  <2>2. stops' = With(stops, c, "command") \/ stops' = stops
    BY <1>5 DEF on_cast_stop, BeginStop
  <2>3. DOMAIN stops' \subseteq Stoppers /\ stops' \in [DOMAIN stops' -> {"command", "refresh"}]
    BY <2>1, <2>2, StopsType DEF KioskTypeOK
  <2> QED
    BY <1>5, <2>3 DEF on_cast_stop, KioskTypeOK
<1> QED
  BY <1>1, <1>2, <1>3, <1>4, <1>5

(* The kiosk's own steps, which leave the cast alone.                        *)
KioskStep ==
    \/ \E who \in Stoppers : StopCommand(who) \/ RefreshAfterStop(who)
    \/ IdleExpires \/ CountdownEnds \/ PlugOrUnplug
    \/ MonitorSeesPlug \/ MonitorSeesUnplug \/ RestartKiosk
    \/ StatusRead \/ StatusWrite

LEMMA KioskStepType ==
  ASSUME KioskTypeOK, KioskStep
  PROVE  KioskTypeOK'
<1>a. "countdown" \in Stoppers /\ "hotplug" \in Stoppers
  BY DEF Stoppers
<1>1. ASSUME NEW who \in Stoppers, StopCommand(who) \/ RefreshAfterStop(who)
      PROVE  KioskTypeOK'
  BY <1>1, StopsType DEF StopCommand, RefreshAfterStop, KioskTypeOK
<1>2. CASE CountdownEnds
  <2>1. stops' = With(stops, "countdown", "command") \/ stops' = stops
    BY <1>2 DEF CountdownEnds, BeginStop
  <2>2. DOMAIN stops' \subseteq Stoppers /\ stops' \in [DOMAIN stops' -> {"command", "refresh"}]
    BY <1>a, <2>1, StopsType DEF KioskTypeOK
  <2> QED
    BY <1>2, <2>2 DEF CountdownEnds, KioskTypeOK
<1>3. CASE MonitorSeesUnplug
  <2>1. /\ timer' \in {timer, "none"}
        /\ stops' = With(stops, "hotplug", "command") \/ stops' = stops
    BY <1>3 DEF MonitorSeesUnplug, BeginStop
  <2>2. DOMAIN stops' \subseteq Stoppers /\ stops' \in [DOMAIN stops' -> {"command", "refresh"}]
    BY <1>a, <2>1, StopsType DEF KioskTypeOK
  <2> QED
    BY <1>3, <2>1, <2>2 DEF MonitorSeesUnplug, KioskTypeOK
<1>4. CASE IdleExpires \/ PlugOrUnplug \/ MonitorSeesPlug \/ RestartKiosk
           \/ StatusRead \/ StatusWrite
  BY <1>4 DEF IdleExpires, PlugOrUnplug, MonitorSeesPlug, RestartKiosk, StatusRead,
              StatusWrite, KioskTypeOK
<1> QED
  BY <1>1, <1>2, <1>3, <1>4 DEF KioskStep

(* The cases of a step.                                                      *)
LEMMA NextCases ==
  ASSUME Next
  PROVE  \/ \E c \in Clients : \/ BeginCast(c) \/ StartKiosk(c)
                               \/ FinishCast(c) \/ StopCast(c)
         \/ CheckBootTimeout \/ TvDisconnect
         \/ \E t \in TVs : TvConnected(t)
         \/ KioskStep /\ UNCHANGED castVars
  BY DEF Next, Kiosk, KioskStep

LEMMA TypeNext == TypeOK /\ [Next]_vars => TypeOK'
<1> SUFFICES ASSUME TypeOK, [Next]_vars PROVE TypeOK'
  OBVIOUS
<1> USE DEF TypeOK
<1>1. ASSUME NEW c \in Clients, BeginCast(c) \/ StartKiosk(c) \/ FinishCast(c) \/ StopCast(c)
      PROVE  TypeOK'
  <2>1. KioskTypeOK'
    <3>1. CASE UNCHANGED kioskVars
      BY <3>1 DEF kioskVars, KioskTypeOK
    <3>2. CASE on_cast_start(c) \/ NeedsStart(c) \/ StartCommand(c) \/ KioskStarted(c)
               \/ on_cast_stop(c)
      BY <3>2, ClientCallType
    <3> QED
      BY <1>1, <3>1, <3>2 DEF BeginCast, StartKiosk, FinishCast, StopCast
  <2>2. exposed' \subseteq exposed \cup {c} \cup DOMAIN starts
    BY <1>1 DEF BeginCast, StartKiosk, FinishCast, StopCast, castVars, Expose
  <2>3. exposed' \subseteq Clients
    BY <2>2 DEF KioskTypeOK
  <2> QED
    BY <1>1, <2>1, <2>3 DEF BeginCast, StartKiosk, FinishCast, StopCast, castVars
<1>2. CASE CheckBootTimeout \/ TvDisconnect \/ \E t \in TVs : TvConnected(t)
  <2>1. KioskTypeOK'
    BY <1>2 DEF CheckBootTimeout, TvDisconnect, TvConnected, kioskVars, KioskTypeOK
  <2> QED
    BY <1>2, <2>1 DEF CheckBootTimeout, TvDisconnect, TvConnected, Expose
<1>3. CASE KioskStep /\ UNCHANGED castVars
  BY <1>3, KioskStepType DEF castVars
<1>4. CASE UNCHANGED vars
  BY <1>4 DEF vars, kioskVars, castVars, KioskTypeOK
<1> QED
  BY <1>1, <1>2, <1>3, <1>4, NextCases

-----------------------------------------------------------------------------
(* What a step of a client, of the TV or of the kiosk preserves.             *)

LEMMA ShownNext == TvShowsTheCast /\ [Next]_vars => TvShowsTheCast'
<1> SUFFICES ASSUME TvShowsTheCast, [Next]_vars PROVE TvShowsTheCast'
  OBVIOUS
<1> USE DEF TvShowsTheCast
<1>1. ASSUME NEW c \in Clients, BeginCast(c) \/ StartKiosk(c) \/ FinishCast(c) \/ StopCast(c)
      PROVE  TvShowsTheCast'
  BY <1>1 DEF BeginCast, StartKiosk, FinishCast, StopCast, castVars
<1>2. CASE CheckBootTimeout \/ TvDisconnect \/ \E t \in TVs : TvConnected(t)
  BY <1>2 DEF CheckBootTimeout, TvDisconnect, TvConnected
<1>3. CASE UNCHANGED castVars
  BY <1>3 DEF castVars
<1> QED
  BY <1>1, <1>2, <1>3, NextCases DEF vars

LEMMA BootNext == TypeOK /\ BootPendingIsArmed /\ [Next]_vars => BootPendingIsArmed'
<1> SUFFICES ASSUME TypeOK, BootPendingIsArmed, [Next]_vars PROVE BootPendingIsArmed'
  OBVIOUS
<1> USE DEF BootPendingIsArmed
<1>1. boot_timers \in Nat
  BY DEF TypeOK
<1>2. ASSUME NEW c \in Clients, BeginCast(c) \/ StartKiosk(c) \/ FinishCast(c) \/ StopCast(c)
      PROVE  BootPendingIsArmed'
  BY <1>1, <1>2 DEF BeginCast, StartKiosk, FinishCast, StopCast, castVars
<1>3. CASE CheckBootTimeout \/ TvDisconnect \/ \E t \in TVs : TvConnected(t)
  BY <1>1, <1>3 DEF CheckBootTimeout, TvDisconnect, TvConnected
<1>4. CASE UNCHANGED castVars
  BY <1>4 DEF castVars
<1> QED
  BY <1>2, <1>3, <1>4, NextCases DEF vars

LEMMA TimersNext == TypeOK /\ TimersMeanNoCast /\ [Next]_vars => TimersMeanNoCast'
<1> DEFINE Armed == timer # "none" \/ At(stops, "countdown", "command")
           Exposed == playback_state \in {NoCast} \cup exposed /\ DOMAIN starts \subseteq exposed
<1> SUFFICES ASSUME TypeOK, Armed => Exposed, [Next]_vars, Armed'
             PROVE  Exposed'
  BY DEF TimersMeanNoCast
<1>1. ASSUME NEW c \in Clients, BeginCast(c)
      PROVE  Exposed'
  <2>1. /\ timer' = "none" /\ stops' = stops /\ playback_state' = playback_state
        /\ DOMAIN starts' = DOMAIN starts \cup {c}
    BY <1>1 DEF BeginCast, on_cast_start, With
  <2>2. At(stops, "countdown", "command")
    BY <2>1 DEF At
  <2>3. exposed' = exposed \cup {c}
    BY <1>1, <2>2 DEF BeginCast
  <2> QED
    BY <2>1, <2>2, <2>3
<1>2. ASSUME NEW c \in Clients, StartKiosk(c)
      PROVE  Exposed'
  BY <1>2 DEF StartKiosk, NeedsStart, StartCommand, castVars, At
<1>3. ASSUME NEW c \in Clients, FinishCast(c)
      PROVE  Exposed'
  <2>1. /\ UNCHANGED <<timer, stops>> /\ c \in DOMAIN starts
        /\ DOMAIN starts' = DOMAIN starts \ {c}
        /\ playback_state' = c
        /\ exposed' = exposed \cap (DOMAIN starts' \cup {c})
    BY <1>3 DEF FinishCast, KioskStarted, At, Without, Restrict, Expose
  <2> QED
    BY <2>1 DEF At
<1>4. ASSUME NEW c \in Clients, StopCast(c)
      PROVE  Exposed'
  <2>1. /\ playback_state' = NoCast /\ UNCHANGED starts
        /\ timer' = "idle" => DOMAIN starts \subseteq exposed'
        /\ exposed \cap DOMAIN starts \subseteq exposed'
    BY <1>4 DEF StopCast, on_cast_stop, kioskVars, Expose
  <2>2. timer' # "idle" => Armed
    <3>1. "countdown" # c
      BY ClientsAssumption
    <3> QED
      BY <1>4, <3>1 DEF StopCast, on_cast_stop, kioskVars, BeginStop, With, At
  <2> QED
    BY <2>1, <2>2
<1>5. CASE CheckBootTimeout \/ \E t \in TVs : TvConnected(t)
  BY <1>5 DEF CheckBootTimeout, TvConnected, kioskVars, At
<1>6. CASE TvDisconnect
  BY <1>6 DEF TvDisconnect, kioskVars, Expose, At
<1>7. CASE KioskStep /\ UNCHANGED castVars
  <2> SUFFICES ASSUME KioskStep, UNCHANGED castVars
               PROVE  UNCHANGED starts /\ Armed
    BY <1>7 DEF castVars
  <2>1. ASSUME NEW who \in Stoppers, StopCommand(who) \/ RefreshAfterStop(who)
        PROVE  UNCHANGED starts /\ Armed
    BY <2>1 DEF StopCommand, RefreshAfterStop, At, Without, Restrict
  <2>2. CASE IdleExpires \/ CountdownEnds
    BY <2>2 DEF IdleExpires, CountdownEnds
  <2>3. CASE MonitorSeesUnplug
    BY <2>3 DEF MonitorSeesUnplug, BeginStop, At, With
  <2>4. CASE PlugOrUnplug \/ MonitorSeesPlug \/ RestartKiosk \/ StatusRead \/ StatusWrite
    BY <2>4 DEF PlugOrUnplug, MonitorSeesPlug, RestartKiosk, StatusRead, StatusWrite, At
  <2> QED
    BY <2>1, <2>2, <2>3, <2>4 DEF KioskStep
<1>8. CASE UNCHANGED vars
  BY <1>8 DEF vars, kioskVars, castVars, At
<1> QED
  BY <1>1, <1>2, <1>3, <1>4, <1>5, <1>6, <1>7, <1>8, NextCases

-----------------------------------------------------------------------------
(* Every variable keeps its type, the TV shows the recorded cast, a client    *)
(* told to wait has a timeout ahead, and under an armed timer only exposed    *)
(* casts are recorded or start: the conjunction is inductive.                 *)
THEOREM Safe == Spec => []IInv
<1>1. IInv /\ [Next]_vars => IInv'
  BY TypeNext, ShownNext, BootNext, TimersNext DEF IInv
<1> QED
  BY <1>1, InitHolds, PTL DEF Spec

(* Whatever overlaps, a registered TV page shows the cast that the server    *)
(* records and announces.                                                    *)
THEOREM Shown == Spec => []TvShowsTheCast
<1>1. IInv => TvShowsTheCast
  BY DEF IInv
<1> QED
  BY <1>1, Safe, PTL

(* A client told to wait for the kiosk's boot always has a timeout ahead.    *)
THEOREM BootArmed == Spec => []BootPendingIsArmed
<1>1. IInv => BootPendingIsArmed
  BY DEF IInv
<1> QED
  BY <1>1, Safe, PTL

(* Whatever overlaps, the inactivity timers stop the kiosk of no cast but one *)
(* that began during their own systemctl stop, or was starting when another  *)
(* was stopped.                                                              *)
THEOREM TimersSpare == Spec => TimersSpareCasts
<1>1. IInv => (StopCommand("countdown") => playback_state \in {NoCast} \cup exposed)
  BY DEF IInv, TimersMeanNoCast, StopCommand
<1> QED
  BY <1>1, Safe, PTL DEF TimersSpareCasts

-----------------------------------------------------------------------------
(* To who casts, TvCast is CastService.                                      *)

LEMMA CastServiceInitially == Init => AbstractService!CastServiceInit
  BY DEF Init, KioskInit, AbstractService!CastServiceInit

\* A start of the kiosk is a cast under way until it ends; what a client, the TV or
\* the kiosk does is one step of the service or none.
LEMMA CastServiceStep ==
  IInv /\ [Next]_vars =>
    [AbstractService!CastServiceNext]_(AbstractService!serviceVars)
<1> SUFFICES ASSUME IInv, [Next]_vars
             PROVE  AbstractService!CastServiceNext \/ UNCHANGED AbstractService!serviceVars
  OBVIOUS
<1> DEFINE Stutters == UNCHANGED <<playback_state, tv_sid, casting_active, kiosk_boot>>
                       /\ DOMAIN starts' = DOMAIN starts
<1>s. Stutters => UNCHANGED AbstractService!serviceVars
  BY DEF AbstractService!serviceVars
<1>1. ASSUME NEW c \in Clients, BeginCast(c)
      PROVE  AbstractService!BeginCast(c)
  <2>1. DOMAIN starts' = DOMAIN starts \cup {c}
    BY <1>1 DEF BeginCast, on_cast_start, With
  <2> QED
    BY <1>1, <2>1 DEF BeginCast, on_cast_start, castVars, AbstractService!BeginCast
<1>2. ASSUME NEW c \in Clients, StartKiosk(c)
      PROVE  Stutters
  BY <1>2 DEF StartKiosk, NeedsStart, StartCommand, castVars
<1>3. ASSUME NEW c \in Clients, FinishCast(c)
      PROVE  AbstractService!RecordCast(c)
  <2>1. c \in DOMAIN starts /\ DOMAIN starts' = DOMAIN starts \ {c} /\ UNCHANGED casting_active
    BY <1>3 DEF FinishCast, KioskStarted, At, Without, Restrict
  <2>2. c # NoClient
    BY NoneAssumption
  <2>3. UNCHANGED tv_sid /\ playback_state' = c
    BY <1>3 DEF FinishCast
  <2>4. (kiosk_boot' # NoClient) <=> (kiosk_boot # NoClient \/ ~(tv_sid # NoTv))
    BY <1>3, <2>2 DEF FinishCast
  <2> QED
    BY <2>1, <2>3, <2>4 DEF AbstractService!RecordCast
<1>4. ASSUME NEW c \in Clients, StopCast(c)
      PROVE  AbstractService!StopCast
  <2>1. /\ playback_state # NoCast /\ playback_state' = NoCast
        /\ UNCHANGED <<tv_sid, kiosk_boot>>
    BY <1>4 DEF StopCast
  <2>2. UNCHANGED starts /\ casting_active' \in BOOLEAN
        /\ (casting_active' <=> casting_active /\ ~(tv_sid # NoTv))
    BY <1>4 DEF StopCast, on_cast_stop, kioskVars, IInv, TypeOK, KioskTypeOK
  <2> QED
    BY <2>1, <2>2 DEF AbstractService!StopCast, IInv, TypeOK, KioskTypeOK
<1>5. CASE CheckBootTimeout
  <2>1. UNCHANGED <<playback_state, tv_sid, casting_active, starts>>
        /\ kiosk_boot' \in {kiosk_boot, NoClient}
    BY <1>5 DEF CheckBootTimeout, kioskVars
  <2> QED
    BY <1>s, <2>1 DEF AbstractService!GiveUpWaiting, AbstractService!CastServiceNext
<1>6. CASE TvDisconnect
  <2>1. AbstractService!TvLeaves
    BY <1>6 DEF TvDisconnect, kioskVars, AbstractService!TvLeaves
  <2> QED
    BY <2>1 DEF AbstractService!CastServiceNext
<1>7. ASSUME NEW t \in TVs, TvConnected(t)
      PROVE  AbstractService!TvArrives
  BY <1>7, NoneAssumption DEF TvConnected, kioskVars, AbstractService!TvArrives
<1>8. CASE KioskStep /\ UNCHANGED castVars
  <2>1. UNCHANGED <<playback_state, tv_sid, kiosk_boot>>
    BY <1>8 DEF castVars
  <2>2. CASE MonitorSeesUnplug
    <3>1. AbstractService!Unplug
      BY <2>1, <2>2 DEF MonitorSeesUnplug, AbstractService!Unplug
    <3> QED
      BY <3>1 DEF AbstractService!CastServiceNext
  <2>3. ASSUME NEW who \in Stoppers, StopCommand(who) \/ RefreshAfterStop(who)
        PROVE  UNCHANGED <<casting_active, starts>>
    BY <2>3 DEF StopCommand, RefreshAfterStop
  <2>4. ASSUME \/ IdleExpires \/ CountdownEnds \/ PlugOrUnplug \/ MonitorSeesPlug
               \/ RestartKiosk \/ StatusRead \/ StatusWrite
        PROVE  UNCHANGED <<casting_active, starts>>
    BY <2>4 DEF IdleExpires, CountdownEnds, PlugOrUnplug, MonitorSeesPlug, RestartKiosk,
                StatusRead, StatusWrite
  <2> QED
    BY <1>8, <1>s, <2>1, <2>2, <2>3, <2>4 DEF KioskStep
<1>9. CASE UNCHANGED vars
  BY <1>9, <1>s DEF vars, kioskVars, castVars
<1> QED
  BY <1>s, <1>1, <1>2, <1>3, <1>4, <1>5, <1>6, <1>7, <1>8, <1>9, NextCases
  DEF AbstractService!CastServiceNext

(* Whatever the kiosk, its timers and the cable do: every behaviour is one of *)
(* CastService, for any number of clients, TV pages and timeouts.             *)
THEOREM CastsAreServed == Spec => ImplementsCastService
  BY Safe, CastServiceInitially, CastServiceStep, PTL
  DEF Spec, ImplementsCastService, AbstractService!CastServiceSpec

-----------------------------------------------------------------------------
(* Tunnels: what is not recorded does not run, when starts do not overlap.    *)

\* A process that runs is the active one, or a request is about to register it.
ProcessesAreKnown == processes \subseteq launching \cup {active.process}

\* Nothing else is active or ends while a process is launched.
LaunchesAlone ==
    launching # {} =>
        /\ \E p \in Processes : launching = {p}
        /\ stopping = None /\ NoProcessRuns /\ active.provider # "mesh"

\* A stop of a process is alone; one of the mesh has neither startup nor watchdog
\* beside it, but status requests and recoveries go on.
StopsAlone ==
    /\ stopping \in Processes =>
        launching = {} /\ processes \subseteq {stopping} /\ active.provider # "mesh"
    /\ stopping = "mesh" =>
        active.provider = "mesh" /\ watchdog = "gone" /\ runner["startup"] = "none"

\* The startup and the watchdog belong to the active mesh; so do the recovery and
\* Headscale, unless they escaped a stop or are older than this run of the server.
MeshIsRecorded ==
    /\ watchdog # "gone" \/ runner["startup"] # "none" => active.provider = "mesh"
    /\ runner["recovery"] # "none" => (active.provider = "mesh" /\ stopping # "mesh") \/ loose
    /\ hs # "down" => active.provider = "mesh" \/ inherited \/ loose

ProcessHasProvider == active.provider \in {None, "mesh"} => active.process = None

TunnelsInv ==
    /\ TunnelsTypeOK
    /\ ProcessesAreKnown /\ LaunchesAlone /\ StopsAlone /\ MeshIsRecorded /\ ProcessHasProvider

USE TunnelAssumption

\* Where the server starts, at first and anew.
LEMMA StartsClean ==
  ASSUME active' = Default, processes' = {}, launching' = {}, stopping' = None,
         hs' \in {"up", "down"}, inherited' = TRUE, loose' = FALSE,
         runner' = [r \in Runners |-> "none"], cooled' = TRUE, failures' = 0,
         watchdog' = "gone", poll' = "none", faults' \in 0..MaxFaults
  PROVE  TunnelsInv'
<1>1. TunnelsTypeOK'
  <2>1. runner' \in [Runners -> Places]
    BY DEF Runners, Places
  <2>2. Default \in [provider : {None, "mesh", "cloudflare", "pinggy"},
                      status : {None, "starting", "running", "error"},
                      process : Processes \cup {None}, url : Processes \cup {None, "mesh"}]
    BY DEF Default
  <2>3. 0 \in 0..3
    OBVIOUS
  <2> QED
    BY <2>1, <2>2, <2>3 DEF TunnelsTypeOK
<1>2. runner'["startup"] = "none" /\ runner'["recovery"] = "none"
  BY DEF Runners
<1>3. /\ ProcessesAreKnown' /\ LaunchesAlone' /\ StopsAlone' /\ MeshIsRecorded'
      /\ ProcessHasProvider'
  BY <1>2 DEF ProcessesAreKnown, LaunchesAlone, StopsAlone, MeshIsRecorded,
              ProcessHasProvider, Default
<1> QED
  BY <1>1, <1>3 DEF TunnelsInv

LEMMA TunnelsInitHolds == TunnelsInit => TunnelsInv
<1> SUFFICES ASSUME TunnelsInit PROVE TunnelsInv
  OBVIOUS
<1>1. TunnelsTypeOK
  <2>1. runner \in [Runners -> Places]
    BY DEF TunnelsInit, Runners, Places
  <2>2. Default \in [provider : {None, "mesh", "cloudflare", "pinggy"},
                      status : {None, "starting", "running", "error"},
                      process : Processes \cup {None}, url : Processes \cup {None, "mesh"}]
    BY DEF Default
  <2>3. 0 \in 0..3 /\ 0 \in 0..MaxFaults
    BY TunnelAssumption
  <2> QED
    BY <2>1, <2>2, <2>3 DEF TunnelsInit, TunnelsTypeOK
<1>2. runner["startup"] = "none" /\ runner["recovery"] = "none"
  BY DEF TunnelsInit, Runners
<1>3. ProcessesAreKnown /\ LaunchesAlone /\ StopsAlone /\ MeshIsRecorded /\ ProcessHasProvider
  BY <1>2 DEF TunnelsInit, ProcessesAreKnown, LaunchesAlone, StopsAlone, MeshIsRecorded,
              ProcessHasProvider, Default
<1> QED
  BY <1>1, <1>3 DEF TunnelsInv

\* The processes of a tunnel, from their launch to their end.
LEMMA ProcessStepKeeps ==
  ASSUME TunnelsInv, ~StartsOverlap, NEW p \in Processes,
         \/ Launch(p) \/ Register(p) \/ ExitedDuringStartup(p) \/ PinggyRefused(p)
         \/ StoreCapturedUrl(p) \/ ProcessExits(p)
  PROVE  TunnelsInv'
<1> USE DEF TunnelsInv, TunnelsTypeOK, ProcessesAreKnown, LaunchesAlone, StopsAlone,
            MeshIsRecorded, ProcessHasProvider, meshVars, unitVars, processVars, NoProcessRuns
<1>1. CASE Launch(p)
  <2>1. launching = {} /\ stopping = None /\ active.provider # "mesh" /\ processes = {}
    BY <1>1 DEF Launch, Underway
  <2>2. /\ launching' = {p} /\ processes' = {p} /\ active.process # p
        /\ UNCHANGED <<active, stopping, hs, inherited, loose, runner, cooled, failures, watchdog,
                       poll, faults>>
    BY <1>1, <2>1 DEF Launch
  <2> QED
    BY <2>1, <2>2
<1>2. CASE Register(p)
  <2>1. launching = {p} /\ launching' = {} /\ processes \subseteq {p} /\ stopping = None
    BY <1>2 DEF Register
  <2>2. active' = [provider |-> ProviderOf(p), status |-> None, process |-> p, url |-> None]
    BY <1>2 DEF Register, Default
  <2>3. ProviderOf(p) \in {"cloudflare", "pinggy"}
    BY DEF ProviderOf
  <2> QED
    BY <1>2, <2>1, <2>2, <2>3 DEF Register
<1>3. CASE ExitedDuringStartup(p)
  <2>1. launching = {p} /\ launching' = {} /\ processes = {}
    BY <1>3 DEF ExitedDuringStartup
  <2> QED
    BY <1>3, <2>1 DEF ExitedDuringStartup, Default
<1>4. CASE PinggyRefused(p)
  <2>1. launching = {p} /\ launching' = {} /\ processes' = {}
    BY <1>4 DEF PinggyRefused
  <2> QED
    BY <1>4, <2>1 DEF PinggyRefused
<1>5. CASE StoreCapturedUrl(p)
  <2>1. /\ active' = [active EXCEPT !.url = p] /\ active'.provider = active.provider
        /\ active'.process = active.process
    BY <1>5 DEF StoreCapturedUrl
  <2> QED
    BY <1>5, <2>1 DEF StoreCapturedUrl
<1>6. CASE ProcessExits(p)
  BY <1>6 DEF ProcessExits
<1> QED
  BY <1>1, <1>2, <1>3, <1>4, <1>5, <1>6

\* Stops of processes, starts and stops of the mesh, and a new start of the server.
LEMMA StartStopKeeps ==
  ASSUME TunnelsInv, ~StartsOverlap,
         \/ StopProcess \/ ProcessStopped \/ NoticeExit
         \/ StartMesh \/ StopMesh \/ MeshStopped \/ ServerRestarts
  PROVE  TunnelsInv'
<1> USE DEF TunnelsInv, TunnelsTypeOK, ProcessesAreKnown, LaunchesAlone, StopsAlone,
            MeshIsRecorded, ProcessHasProvider, meshVars, unitVars, processVars, NoProcessRuns,
            Default
<1>1. CASE StopProcess
  BY <1>1 DEF StopProcess
<1>2. CASE ProcessStopped
  BY <1>2 DEF ProcessStopped
<1>3. CASE NoticeExit
  BY <1>3 DEF NoticeExit
<1>4. CASE StartMesh
  <2>1. launching = {} /\ stopping = None /\ active.process = None
    BY <1>4 DEF StartMesh, Underway
  <2>2. active' = [provider |-> "mesh", status |-> "starting", process |-> None, url |-> "mesh"]
    BY <1>4, <2>1 DEF StartMesh
  <2>3. runner' \in [Runners -> Places]
    BY <1>4 DEF StartMesh, Runners, Places
  <2>4. runner'["recovery"] = runner["recovery"]
    BY <1>4 DEF StartMesh, Runners
  <2> QED
    BY <1>4, <2>1, <2>2, <2>3, <2>4 DEF StartMesh
<1>5. CASE StopMesh
  <2>1. /\ runner'["startup"] = "none" /\ runner'["recovery"] = runner["recovery"]
        /\ runner' \in [Runners -> Places]
    BY <1>5 DEF StopMesh, Runners, Places
  <2>2. hs' \in {"up", "down", "fallen"} /\ inherited' \in BOOLEAN /\ launching = {}
    BY <1>5 DEF StopMesh, Systemctl
  <2>3. loose' \in BOOLEAN /\ (runner["recovery"] # "none" => loose')
    BY <1>5 DEF StopMesh
  <2> QED
    BY <1>5, <2>1, <2>2, <2>3 DEF StopMesh
<1>6. CASE MeshStopped
  <2>1. hs' = "down" /\ inherited' = FALSE
    BY <1>6 DEF MeshStopped, Systemctl
  <2>2. loose' \in BOOLEAN /\ (runner["recovery"] # "none" => loose')
    BY <1>6 DEF MeshStopped
  <2> QED
    BY <1>6, <2>1, <2>2 DEF MeshStopped
<1>7. CASE ServerRestarts
  BY <1>7, StartsClean DEF ServerRestarts
<1> QED
  BY <1>1, <1>2, <1>3, <1>4, <1>5, <1>6, <1>7

\* A step of the mesh that touches neither a process nor a stop, nor says that another
\* tunnel is active.
MeshStep ==
    /\ TunnelsTypeOK' /\ active'.provider = active.provider /\ active'.process = active.process
    /\ UNCHANGED <<processVars, stopping>>

LEMMA MeshStepKeeps ==
  ASSUME TunnelsInv, MeshStep, StopsAlone', MeshIsRecorded'
  PROVE  TunnelsInv'
  BY DEF MeshStep, TunnelsInv, ProcessesAreKnown, LaunchesAlone, ProcessHasProvider,
         NoProcessRuns, processVars

\* One of the startup or of a recovery: whatever it does to Headscale, the other is left
\* alone, and only the startup touches the watchdog.
LEMMA RunnerStepKeeps ==
  ASSUME TunnelsInv, MeshStep, NEW r \in Runners, runner[r] # "none",
         \A q \in Runners \ {r} : runner'[q] = runner[q],
         r = "recovery" => UNCHANGED watchdog,
         UNCHANGED loose
  PROVE  TunnelsInv'
<1>0. TunnelsTypeOK
  BY DEF TunnelsInv
<1>1. CASE r = "startup"
  <2>1. active.provider = "mesh" /\ stopping # "mesh" /\ runner'["recovery"] = runner["recovery"]
    BY <1>1 DEF TunnelsInv, MeshIsRecorded, StopsAlone, Runners
  <2>2. active'.provider = "mesh" /\ stopping' # "mesh" /\ stopping' = stopping
    BY <2>1 DEF MeshStep
  <2>3. StopsAlone' /\ MeshIsRecorded'
    BY <2>1, <2>2 DEF MeshStep, TunnelsInv, StopsAlone, MeshIsRecorded, processVars
  <2> QED
    BY <2>3, MeshStepKeeps
<1>2. CASE r = "recovery"
  <2>1. /\ (active.provider = "mesh" /\ stopping # "mesh") \/ loose
        /\ runner'["startup"] = runner["startup"] /\ watchdog' = watchdog
    BY <1>2 DEF TunnelsInv, MeshIsRecorded, Runners
  <2>2. /\ active'.provider = active.provider /\ stopping' = stopping /\ loose' = loose
        /\ processes' = processes /\ launching' = launching
    BY DEF MeshStep, processVars
  <2>3. StopsAlone' /\ MeshIsRecorded'
    BY <2>1, <2>2 DEF TunnelsInv, StopsAlone, MeshIsRecorded
  <2> QED
    BY <2>3, MeshStepKeeps
<1> QED
  BY <1>1, <1>2 DEF Runners

\* The stages of Headscale's start.
LEMMA AdvanceKeeps ==
  ASSUME TunnelsInv, NEW r \in Runners, NEW from \in Places \ {"none"}, NEW to \in Places,
         Advance(r, from, to), hs' \in {"up", "down", "fallen"}, inherited' \in BOOLEAN
  PROVE  TunnelsInv'
<1>1. active' \in {active, [active EXCEPT !.status = "starting"]}
  BY DEF Advance
<1>2. /\ runner' \in [Runners -> Places] /\ runner[r] # "none"
      /\ \A q \in Runners \ {r} : runner'[q] = runner[q]
  BY DEF Advance, TunnelsInv, TunnelsTypeOK
<1>3. UNCHANGED <<processVars, stopping, loose, cooled, failures, watchdog, poll, faults>>
  BY DEF Advance
<1>4. MeshStep
  BY <1>1, <1>2, <1>3 DEF MeshStep, TunnelsInv, TunnelsTypeOK, processVars
<1> QED
  BY <1>2, <1>3, <1>4, RunnerStepKeeps

LEMMA RunnerKeeps ==
  ASSUME TunnelsInv,
         \/ Configure \/ StartupCompletes \/ RecoveryCompletes
         \/ \E r \in Runners : RunnerSteps(r)
  PROVE  TunnelsInv'
<1>0. TunnelsTypeOK /\ "startup" \in Runners /\ "recovery" \in Runners
  BY DEF TunnelsInv, Runners
<1>1. hs \in {"up", "down", "fallen"} /\ inherited \in BOOLEAN
  BY <1>0 DEF TunnelsTypeOK
<1>2. CASE Configure
  BY <1>0, <1>1, <1>2, AdvanceKeeps DEF Configure, Places, unitVars
<1>3. CASE StartupCompletes
  <2>1. active' = [active EXCEPT !.status = "running"] /\ watchdog' \in {watchdog, "asleep"}
    BY <1>3 DEF StartupCompletes, WatchdogStarts
  <2>2. /\ runner' \in [Runners -> Places] /\ runner["startup"] # "none"
        /\ \A q \in Runners \ {"startup"} : runner'[q] = runner[q]
    BY <1>0, <1>3 DEF StartupCompletes, TunnelsTypeOK, Places
  <2>3. UNCHANGED <<processVars, stopping, unitVars, loose, cooled, failures, poll, faults>>
    BY <1>3 DEF StartupCompletes
  <2>4. MeshStep
    BY <1>0, <2>1, <2>2, <2>3 DEF MeshStep, TunnelsTypeOK, processVars, unitVars
  <2> QED
    BY <1>0, <2>2, <2>3, <2>4, RunnerStepKeeps
<1>4. CASE RecoveryCompletes
  <2>2. /\ runner' \in [Runners -> Places] /\ runner["recovery"] # "none"
        /\ \A q \in Runners \ {"recovery"} : runner'[q] = runner[q]
    BY <1>0, <1>4 DEF RecoveryCompletes, TunnelsTypeOK, Places
  <2>3. UNCHANGED <<active, processVars, stopping, unitVars, loose, cooled, failures, watchdog, poll,
                    faults>>
    BY <1>4 DEF RecoveryCompletes
  <2>4. MeshStep
    BY <1>0, <2>2, <2>3 DEF MeshStep, TunnelsTypeOK, processVars, unitVars
  <2> QED
    BY <1>0, <2>2, <2>3, <2>4, RunnerStepKeeps
<1>5. ASSUME NEW r \in Runners, RunnerSteps(r)
      PROVE  TunnelsInv'
  <2>1. ASSUME NEW to \in {"stale", "joining", "keys", "clearing"},
               Advance(r, "checking", to), UNCHANGED unitVars
        PROVE  TunnelsInv'
    BY <1>1, <2>1, AdvanceKeeps DEF Places, unitVars
  <2>2. CASE CheckHeadscale(r)
    BY <2>1, <2>2 DEF CheckHeadscale
  <2>3. CASE ReloadHeadscale(r)
    BY <2>3, AdvanceKeeps DEF ReloadHeadscale, Places, Systemctl
  <2>4. CASE ClearHeadscale(r)
    BY <2>4, AdvanceKeeps DEF ClearHeadscale, Places, Systemctl
  <2>5. CASE RestartHeadscale(r)
    BY <2>5, AdvanceKeeps DEF RestartHeadscale, Places, Systemctl
  <2>6. CASE HeadscaleAnswers(r)
    BY <1>1, <2>6, AdvanceKeeps DEF HeadscaleAnswers, Places, unitVars
  <2>7. CASE JoinMesh(r)
    BY <1>1, <2>7, AdvanceKeeps DEF JoinMesh, Places, unitVars
  <2>8. CASE StartFails(r)
    <3>1. active' \in {active, [active EXCEPT !.status = "error"]}
      BY <2>8 DEF StartFails
    <3>2. /\ runner' \in [Runners -> Places] /\ runner[r] # "none" /\ faults' \in 0..MaxFaults
          /\ \A q \in Runners \ {r} : runner'[q] = runner[q]
      BY <1>0, <2>8 DEF StartFails, TunnelsTypeOK, Places
    <3>3. UNCHANGED <<processVars, stopping, unitVars, loose, cooled, failures, poll>>
      BY <2>8 DEF StartFails
    <3>4. watchdog' \in {watchdog, "asleep"} /\ (r = "recovery" => UNCHANGED watchdog)
      BY <2>8 DEF StartFails, WatchdogStarts
    <3>5. MeshStep
      BY <1>0, <3>1, <3>2, <3>3, <3>4 DEF MeshStep, TunnelsTypeOK, processVars, unitVars
    <3> QED
      BY <3>2, <3>3, <3>4, <3>5, RunnerStepKeeps
  <2> QED
    BY <1>5, <2>2, <2>3, <2>4, <2>5, <2>6, <2>7, <2>8 DEF RunnerSteps
<1> QED
  BY <1>2, <1>3, <1>4, <1>5

\* An attempt to recover, and a look at the connectivity that may end in one.
Attempts ==
    /\ runner' \in [Runners -> Places] /\ cooled' \in BOOLEAN /\ loose' \in BOOLEAN
    /\ runner'["startup"] = runner["startup"]
    /\ loose => loose'
    /\ \/ runner'["recovery"] = runner["recovery"]
       \/ (active.provider = "mesh" /\ stopping # "mesh") \/ loose'

LEMMA AttemptsRecover ==
  ASSUME TunnelsTypeOK, NEW when \in BOOLEAN
  PROVE  /\ AttemptRecovery(when) => Attempts
         /\ CountConnectivity => Attempts /\ failures' \in 0..3
<1>1. ASSUME NEW b, AttemptRecovery(b)
      PROVE  Attempts
  <2> DEFINE starts_ == b /\ cooled /\ runner["recovery"] = "none"
  <2>1. /\ runner' = IF starts_ THEN [runner EXCEPT !["recovery"] = "checking"] ELSE runner
        /\ cooled' = (cooled /\ ~starts_)
        /\ loose' = (loose \/ (starts_ /\ (stopping = "mesh" \/ active.provider # "mesh")))
    BY <1>1 DEF AttemptRecovery
  <2>2. runner \in [Runners -> Places] /\ cooled \in BOOLEAN /\ loose \in BOOLEAN
    BY DEF TunnelsTypeOK
  <2> HIDE DEF starts_
  <2>3. cooled' \in BOOLEAN /\ loose' \in BOOLEAN /\ (loose => loose')
    BY <2>1, <2>2
  <2>4. runner' \in [Runners -> Places] /\ runner'["startup"] = runner["startup"]
    BY <2>1, <2>2 DEF Runners, Places
  <2>5. \/ runner' = runner
        \/ (active.provider = "mesh" /\ stopping # "mesh") \/ loose'
    BY <2>1
  <2> QED
    BY <2>3, <2>4, <2>5 DEF Attempts
<1>2. ASSUME UNCHANGED <<runner, cooled, loose>>
      PROVE  Attempts
  BY <1>2 DEF Attempts, TunnelsTypeOK
<1> QED
  BY <1>1, <1>2 DEF CountConnectivity, TunnelsTypeOK

\* The watchdog, status requests, and what Headscale's unit does by itself.
LEMMA WatchKeeps ==
  ASSUME TunnelsInv,
         \/ WatchdogWakes \/ WatchdogLooks \/ WatchdogVerifies \/ CooldownPasses
         \/ BeginStatus \/ StatusLooks \/ StatusVerifies \/ HeadscaleDies \/ SystemdRestarts
  PROVE  TunnelsInv'
<1>0. TunnelsTypeOK
  BY DEF TunnelsInv
<1>1. CASE CooldownPasses
  BY <1>1 DEF CooldownPasses, TunnelsInv, TunnelsTypeOK, ProcessesAreKnown, LaunchesAlone,
              StopsAlone, MeshIsRecorded, ProcessHasProvider, NoProcessRuns, processVars, unitVars
<1>2. CASE HeadscaleDies \/ SystemdRestarts
  <2>1. /\ hs # "down" /\ hs' \in {"up", "fallen"}
        /\ UNCHANGED <<active, processVars, stopping, inherited, loose, runner, cooled, failures,
                       watchdog, poll, faults>>
    BY <1>2 DEF HeadscaleDies, SystemdRestarts
  <2> QED
    BY <2>1 DEF TunnelsInv, TunnelsTypeOK, ProcessesAreKnown, LaunchesAlone,
         StopsAlone, MeshIsRecorded, ProcessHasProvider, NoProcessRuns, processVars
<1>3. CASE \/ WatchdogWakes \/ WatchdogLooks \/ WatchdogVerifies
           \/ BeginStatus \/ StatusLooks \/ StatusVerifies
  <2>1. UNCHANGED <<active, processVars, stopping, unitVars, faults>>
    BY <1>3 DEF WatchdogWakes, WatchdogLooks, WatchdogVerifies, BeginStatus, StatusLooks,
                StatusVerifies, Watches, Polls
  <2>2. Attempts /\ failures' \in 0..3
    <3>1. ASSUME UNCHANGED <<runner, cooled, loose>>
          PROVE  Attempts
      BY <1>0, <3>1 DEF Attempts, TunnelsTypeOK
    <3> QED
      BY <1>0, <1>3, <3>1, AttemptsRecover
         DEF WatchdogWakes, WatchdogLooks, WatchdogVerifies, BeginStatus, StatusLooks,
             StatusVerifies, TunnelsTypeOK
  <2>3. /\ watchdog' \in {"gone", "asleep", "looking", "verifying"}
        /\ watchdog = "gone" => watchdog' = "gone"
        /\ poll' \in {"none", "looking", "verifying"}
    BY <1>0, <1>3 DEF WatchdogWakes, WatchdogLooks, WatchdogVerifies, BeginStatus, StatusLooks,
                      StatusVerifies, Watches, Polls, TunnelsTypeOK
  <2>4. MeshStep
    BY <1>0, <2>1, <2>2, <2>3 DEF MeshStep, Attempts, TunnelsTypeOK, processVars, unitVars
  <2>5. StopsAlone'
    BY <2>1, <2>2, <2>3 DEF Attempts, TunnelsInv, StopsAlone, processVars
  <2>6. MeshIsRecorded'
    BY <2>1, <2>2, <2>3 DEF Attempts, TunnelsInv, MeshIsRecorded, unitVars
  <2> QED
    BY <2>4, <2>5, <2>6, MeshStepKeeps
<1> QED
  BY <1>1, <1>2, <1>3

LEMMA TunnelsNextKeeps == ~StartsOverlap /\ TunnelsInv /\ [TunnelsNext]_tunnelVars => TunnelsInv'
<1> SUFFICES ASSUME ~StartsOverlap, TunnelsInv, [TunnelsNext]_tunnelVars PROVE TunnelsInv'
  OBVIOUS
<1>1. CASE UNCHANGED tunnelVars
  BY <1>1 DEF tunnelVars, processVars, meshVars, unitVars, TunnelsInv, TunnelsTypeOK,
              ProcessesAreKnown, LaunchesAlone, StopsAlone, MeshIsRecorded, ProcessHasProvider,
              NoProcessRuns
<1>2. CASE TunnelsNext
  BY <1>2, ProcessStepKeeps, StartStopKeeps, RunnerKeeps, WatchKeeps DEF TunnelsNext
<1> QED
  BY <1>1, <1>2

\* When starts do not overlap, whatever runs belongs to the recorded tunnel, to a request
\* under way, to a recovery that escaped a stop or to an earlier run of the server,
\* whatever status requests and recoveries go on beside a stop: the conjunction is
\* inductive.
THEOREM TunnelsKeep == ~StartsOverlap => (TunnelsSpec => []TunnelsInv)
<1> SUFFICES ASSUME ~StartsOverlap PROVE TunnelsSpec => []TunnelsInv
  OBVIOUS
<1>1. TunnelsInv /\ [TunnelsNext]_tunnelVars => TunnelsInv'
  BY TunnelsNextKeeps
<1>2. TunnelsInit => TunnelsInv
  BY TunnelsInitHolds
<1> QED
  BY <1>1, <1>2, PTL DEF TunnelsSpec

\* With no tunnel active and nothing under way, no process runs, and Headscale is down
\* unless the server found it running or a recovery escaped its stop.
THEOREM StoppedIsStopped == TunnelsSpec => []StoppedMeansStopped
<1>1. CASE StartsOverlap
  BY <1>1, PTL DEF StoppedMeansStopped
<1>2. CASE ~StartsOverlap
  <2>1. TunnelsInv => StoppedMeansStopped
    BY DEF TunnelsInv, TunnelsTypeOK, ProcessesAreKnown, MeshIsRecorded, ProcessHasProvider,
           StoppedMeansStopped, Settled
  <2>2. TunnelsSpec => []TunnelsInv
    BY <1>2, TunnelsKeep
  <2> QED
    BY <2>1, <2>2, PTL
<1> QED
  BY <1>1, <1>2
==============================================================================
