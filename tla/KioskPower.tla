------------------------------ MODULE KioskPower ------------------------------
(***************************************************************************)
(* The HDMI output and the kiosk service behind it: hdmi_runtime_service,   *)
(* kiosk_timer_service, kiosk_process_service and hotplug_service.          *)
(*                                                                          *)
(* A cast starts the kiosk; when it ends, an idle time and a countdown      *)
(* later, a timer stops it again.  systemctl runs in a subprocess, so a     *)
(* start or a stop of the kiosk yields between its steps; the store updates *)
(* between two yields are one action.  Durations are abstracted: a timer    *)
(* that is armed may expire at any time.  Killing a timer greenlet takes    *)
(* effect with the update that forgets it.                                  *)
(***************************************************************************)
EXTENDS Naturals, FiniteSets, Functions

CONSTANTS Clients,    \* the clients that cast
          MayFail     \* TRUE: systemctl may fail to start or restart the kiosk

ASSUME MayFailAssumption == MayFail \in BOOLEAN
\* The other callers of stop_kiosk are told from the clients.
ASSUME ClientsAssumption == {"countdown", "hotplug"} \cap Clients = {}

VARIABLES hdmi,            \* the cable, as check_hdmi_status reports it
          kiosk,           \* the ghosthub-kiosk unit is active
          connected,       \* store: the last status seen
          kiosk_running,   \* store: the last kiosk state seen
          casting_active,  \* store
          timer,           \* the idle or countdown greenlet of the store
          starts,          \* by client: the step its on_cast_start is in
          stops,           \* by caller: the step its stop_kiosk is in
          restarting,      \* the hotplug monitor restarts the kiosk
          status_read      \* the HDMI status read by a get_status under way

kioskVars == <<hdmi, kiosk, connected, kiosk_running, casting_active, timer,
               starts, stops, restarting, status_read>>

Stoppers == Clients \cup {"countdown", "hotplug"}

KioskTypeOK ==
    /\ {hdmi, kiosk, connected, kiosk_running, casting_active, restarting} \subseteq BOOLEAN
    /\ timer \in {"none", "idle", "countdown"}
    /\ DOMAIN starts \subseteq Clients
    /\ starts \in [DOMAIN starts -> {"check", "command", "settle"}]
    /\ DOMAIN stops \subseteq Stoppers
    /\ stops \in [DOMAIN stops -> {"command", "refresh"}]
    /\ status_read \subseteq BOOLEAN

\* initialize_runtime; the kiosk unit is not enabled at boot.
KioskInit ==
    /\ hdmi \in BOOLEAN
    /\ connected = hdmi
    /\ kiosk = FALSE
    /\ kiosk_running = FALSE
    /\ casting_active = FALSE
    /\ timer = "none"
    /\ starts = <<>>
    /\ stops = <<>>
    /\ restarting = FALSE
    /\ status_read = {}

With(f, x, y) == [z \in DOMAIN f \cup {x} |-> IF z = x THEN y ELSE f[z]]
Without(f, x) == Restrict(f, DOMAIN f \ {x})

At(f, x, step) == x \in DOMAIN f /\ f[x] = step

-----------------------------------------------------------------------------
(* Starting the kiosk: on_cast_start and start_kiosk. *)

\* casting_active first, then the timers are cancelled.
on_cast_start(c) ==
    /\ casting_active' = TRUE
    /\ timer' = "none"
    /\ connected' = hdmi
    /\ starts' = With(starts, c, "check")
    /\ UNCHANGED <<hdmi, kiosk, kiosk_running, stops, restarting, status_read>>

\* is-active said no: wake the screen, then start the unit.
NeedsStart(c) ==
    /\ At(starts, c, "check")
    /\ ~kiosk
    /\ starts' = [starts EXCEPT ![c] = "command"]
    /\ UNCHANGED <<hdmi, kiosk, connected, kiosk_running, casting_active, timer, stops,
                   restarting, status_read>>

StartCommand(c) ==
    /\ At(starts, c, "command")
    /\ kiosk' \in {TRUE} \cup (IF MayFail THEN {kiosk} ELSE {})
    /\ starts' = [starts EXCEPT ![c] = "settle"]
    /\ UNCHANGED <<hdmi, connected, kiosk_running, casting_active, timer, stops,
                   restarting, status_read>>

\* on_cast_start returns: the kiosk ran already, or was looked at two seconds
\* after the command.
KioskStarted(c) ==
    /\ (At(starts, c, "check") /\ kiosk) \/ At(starts, c, "settle")
    /\ kiosk_running' = kiosk
    /\ starts' = Without(starts, c)
    /\ UNCHANGED <<hdmi, kiosk, connected, casting_active, timer, stops, restarting,
                   status_read>>

-----------------------------------------------------------------------------
(* Stopping it: stop_kiosk, then the store learns the outcome. *)

BeginStop(who) == stops' = With(stops, who, "command")

StopCommand(who) ==
    /\ At(stops, who, "command")
    /\ kiosk' = FALSE
    /\ stops' = [stops EXCEPT ![who] = "refresh"]
    /\ UNCHANGED <<hdmi, connected, kiosk_running, casting_active, timer, starts,
                   restarting, status_read>>

RefreshAfterStop(who) ==
    /\ At(stops, who, "refresh")
    /\ kiosk_running' = kiosk
    /\ stops' = Without(stops, who)
    /\ UNCHANGED <<hdmi, kiosk, connected, casting_active, timer, starts, restarting,
                   status_read>>

\* on_cast_stop: idle mode while the screen is connected, else an immediate stop.
on_cast_stop(c) ==
    /\ casting_active' = FALSE
    /\ timer' = IF casting_active /\ connected THEN "idle" ELSE "none"
    /\ IF casting_active /\ ~connected THEN BeginStop(c) ELSE UNCHANGED stops
    /\ UNCHANGED <<hdmi, kiosk, connected, kiosk_running, starts, restarting, status_read>>

\* The idle callback starts the countdown.  The idle time is longer than any
\* start: one that began before it is over, and a later one has cancelled it.
IdleExpires ==
    /\ timer = "idle"
    /\ DOMAIN starts = {}
    /\ timer' = IF casting_active THEN "none" ELSE "countdown"
    /\ UNCHANGED <<hdmi, kiosk, connected, kiosk_running, casting_active, starts, stops,
                   restarting, status_read>>

\* The last check of the countdown; from here on nothing can cancel it.
CountdownStopsNothing ==
    /\ timer = "countdown"
    /\ timer' = "none"
    /\ UNCHANGED <<hdmi, kiosk, connected, kiosk_running, casting_active, starts, stops,
                   restarting, status_read>>
CountdownEnds ==
    /\ timer = "countdown"
    /\ "countdown" \notin DOMAIN stops
    /\ timer' = "none"
    /\ IF casting_active THEN UNCHANGED stops ELSE BeginStop("countdown")
    /\ UNCHANGED <<hdmi, kiosk, connected, kiosk_running, casting_active, starts,
                   restarting, status_read>>

-----------------------------------------------------------------------------
(* The hotplug monitor polls the status and handles a change. *)

PlugOrUnplug ==
    /\ hdmi' = ~hdmi
    /\ UNCHANGED <<kiosk, connected, kiosk_running, casting_active, timer, starts, stops,
                   restarting, status_read>>

MonitorIsFree == ~restarting /\ "hotplug" \notin DOMAIN stops

MonitorSeesPlug ==
    /\ MonitorIsFree
    /\ hdmi /\ ~connected
    /\ connected' = TRUE
    /\ restarting' = kiosk_running
    /\ UNCHANGED <<hdmi, kiosk, kiosk_running, casting_active, timer, starts, stops,
                   status_read>>

MonitorSeesUnplug ==
    /\ MonitorIsFree
    /\ ~hdmi /\ connected
    /\ connected' = FALSE
    /\ casting_active' = FALSE
    /\ IF casting_active
       THEN timer' = "none" /\ BeginStop("hotplug")
       ELSE UNCHANGED <<timer, stops>>
    /\ UNCHANGED <<hdmi, kiosk, kiosk_running, starts, restarting, status_read>>

\* restart_kiosk, which may fail before or after the unit has stopped; the store
\* keeps the kiosk state it has.
RestartKiosk ==
    /\ restarting
    /\ kiosk' \in {TRUE} \cup (IF MayFail THEN {FALSE} ELSE {})
    /\ restarting' = FALSE
    /\ UNCHANGED <<hdmi, connected, kiosk_running, casting_active, timer, starts, stops,
                   status_read>>

-----------------------------------------------------------------------------
(* get_status, for every client that connects or asks: the status it read    *)
(* before it yielded to systemctl goes to the store.  One at a time.         *)

StatusRead ==
    /\ status_read = {}
    /\ status_read' = {hdmi}
    /\ UNCHANGED <<hdmi, kiosk, connected, kiosk_running, casting_active, timer, starts,
                   stops, restarting>>

StatusWrite ==
    /\ connected' \in status_read
    /\ kiosk_running' = kiosk
    /\ status_read' = {}
    /\ UNCHANGED <<hdmi, kiosk, casting_active, timer, starts, stops, restarting>>
=============================================================================
