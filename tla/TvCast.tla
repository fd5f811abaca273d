-------------------------------- MODULE TvCast --------------------------------
(***************************************************************************)
(* Casting to the TV: tv_cast_service.py and tv_store.py on top of the      *)
(* kiosk.  start_cast first brings the kiosk up, which yields for seconds,  *)
(* and only then records the cast; a cast without a registered TV stays     *)
(* pending until the TV's page connects.  Emits do not yield.               *)
(***************************************************************************)
EXTENDS KioskPower

CONSTANTS Admins,      \* the clients that are administrators
          TVs,         \* sids a TV page may connect with
          NoTv, NoCast, NoClient,
          MaxTimers,   \* boot-timeout timers pending at a time
          Overlap,     \* TRUE: a cast may start or stop while another client's
                       \* start is under way
          Beside       \* the callers beside whose stop of the kiosk a cast may start

ASSUME AdminsAssumption == Admins \subseteq Clients
ASSUME NoneAssumption ==
    /\ NoTv \notin TVs
    /\ {NoCast, NoClient} \cap Clients = {}
ASSUME OverlapAssumption == Overlap \in BOOLEAN /\ Beside \subseteq Stoppers

VARIABLES tv_sid,          \* the registered TV page
          playback_state,  \* the cast: the client that started it
          kiosk_boot,      \* the client told that the kiosk boots
          boot_timers,     \* _check_boot_timeout calls to come
          showing,         \* what the registered TV was last told to show
          exposed          \* history: the clients whose last cast the inactivity
                           \* timers cannot take into account

castVars == <<tv_sid, playback_state, kiosk_boot, boot_timers, showing, exposed>>
vars == <<kioskVars, castVars>>

TypeOK ==
    /\ KioskTypeOK
    /\ tv_sid \in TVs \cup {NoTv}
    /\ playback_state \in Clients \cup {NoCast}
    /\ kiosk_boot \in Clients \cup {NoClient}
    /\ boot_timers \in Nat
    /\ showing \in Clients \cup {NoCast}
    /\ exposed \subseteq Clients

Init ==
    /\ KioskInit
    /\ tv_sid = NoTv
    /\ playback_state = NoCast
    /\ kiosk_boot = NoClient
    /\ boot_timers = 0
    /\ showing = NoCast
    /\ exposed = {}

\* Casts that have ended are forgotten.
Expose(cs) == exposed' = (exposed \cup cs) \cap (DOMAIN starts' \cup {playback_state'})

-----------------------------------------------------------------------------
(* Starting a cast. *)

\* A cast that begins after the countdown's last check is exposed to its stop.
BeginCast(c) ==
    /\ c \notin DOMAIN starts
    /\ Overlap \/ DOMAIN starts = {}
    /\ DOMAIN stops \subseteq Beside
    /\ on_cast_start(c)
    /\ exposed' = IF At(stops, "countdown", "command") THEN exposed \cup {c} ELSE exposed \ {c}
    /\ UNCHANGED <<tv_sid, playback_state, kiosk_boot, boot_timers, showing>>

StartKiosk(c) ==
    /\ NeedsStart(c) \/ StartCommand(c)
    /\ UNCHANGED castVars

\* The rest of start_cast: record the cast, then hand it to the TV or wait for
\* the kiosk's page and arm the boot timeout.
FinishUnsent(c) ==
    /\ KioskStarted(c)
    /\ playback_state' = c
    /\ Expose({})
    /\ UNCHANGED <<tv_sid, kiosk_boot, boot_timers, showing>>
FinishCast(c) ==
    /\ KioskStarted(c)
    /\ playback_state' = c
    /\ IF tv_sid = NoTv
       THEN /\ boot_timers < MaxTimers
            /\ kiosk_boot' = c
            /\ boot_timers' = boot_timers + 1
            /\ UNCHANGED showing
       ELSE /\ showing' = c
            /\ UNCHANGED <<kiosk_boot, boot_timers>>
    /\ Expose({})
    /\ UNCHANGED tv_sid

\* _check_boot_timeout: only the timer of the last request finds it old enough.
KeepBootPending ==
    /\ boot_timers > 0
    /\ boot_timers' = boot_timers - 1
    /\ UNCHANGED <<kioskVars, tv_sid, playback_state, kiosk_boot, showing, exposed>>
CheckBootTimeout ==
    /\ boot_timers > 0
    /\ boot_timers' = boot_timers - 1
    /\ kiosk_boot' = IF boot_timers = 1 THEN NoClient ELSE kiosk_boot
    /\ UNCHANGED <<kioskVars, tv_sid, playback_state, showing, exposed>>

-----------------------------------------------------------------------------
(* Stopping it. *)

MayStop(c) == playback_state \in Admins => c \in Admins

\* stop_cast: without a TV the kiosk runtime is not told.  Without a cast it only
\* repeats the stop to a TV that shows nothing.  Casts that are starting are exposed
\* to the idle time it begins.
StopCastKeepsState(c) ==
    /\ Overlap \/ DOMAIN starts = {}
    /\ c \notin DOMAIN stops
    /\ playback_state # NoCast
    /\ tv_sid # NoTv
    /\ showing' = NoCast /\ on_cast_stop(c)
    /\ UNCHANGED <<tv_sid, playback_state, kiosk_boot, boot_timers>>
    /\ Expose(IF timer' = "idle" THEN DOMAIN starts ELSE {})
StopCast(c) ==
    /\ Overlap \/ DOMAIN starts = {}
    /\ c \notin DOMAIN stops
    /\ playback_state # NoCast
    /\ MayStop(c)
    /\ playback_state' = NoCast
    /\ IF tv_sid = NoTv
       THEN UNCHANGED <<kioskVars, showing>>
       ELSE showing' = NoCast /\ on_cast_stop(c)
    /\ Expose(IF timer' = "idle" THEN DOMAIN starts ELSE {})
    /\ UNCHANGED <<tv_sid, kiosk_boot, boot_timers>>

-----------------------------------------------------------------------------
(* The TV's page, which the kiosk runs; a second one is turned away. *)

TvConnected(t) ==
    /\ kiosk
    /\ tv_sid \in {NoTv, t}
    /\ tv_sid' = t
    /\ kiosk_boot' = NoClient
    /\ showing' = playback_state
    /\ UNCHANGED <<kioskVars, playback_state, boot_timers, exposed>>

\* handle_tv_disconnect: an active cast survives for the TV's return.
TvDisconnectEndsCast ==
    /\ tv_sid # NoTv
    /\ tv_sid' = NoTv
    /\ playback_state' = NoCast
    /\ showing' = NoCast
    /\ UNCHANGED <<kioskVars, kiosk_boot, boot_timers>>
    /\ Expose({})
TvDisconnect ==
    /\ tv_sid # NoTv
    /\ tv_sid' = NoTv
    /\ playback_state' = IF casting_active THEN playback_state ELSE NoCast
    /\ showing' = NoCast
    /\ UNCHANGED <<kioskVars, kiosk_boot, boot_timers>>
    /\ Expose({})

-----------------------------------------------------------------------------
Kiosk(A) == A /\ UNCHANGED castVars

Next ==
    \/ \E c \in Clients : BeginCast(c) \/ StartKiosk(c) \/ FinishCast(c) \/ StopCast(c)
    \/ CheckBootTimeout
    \/ \E t \in TVs : TvConnected(t)
    \/ TvDisconnect
    \/ \E who \in Stoppers : Kiosk(StopCommand(who)) \/ Kiosk(RefreshAfterStop(who))
    \/ Kiosk(IdleExpires)
    \/ Kiosk(CountdownEnds)
    \/ Kiosk(PlugOrUnplug)
    \/ Kiosk(MonitorSeesPlug)
    \/ Kiosk(MonitorSeesUnplug)
    \/ Kiosk(RestartKiosk)
    \/ Kiosk(StatusRead)
    \/ Kiosk(StatusWrite)

Spec == Init /\ [][Next]_vars

\* systemctl and the sleeps return, the timers expire and the monitor polls; the
\* kiosk's page may never connect.
Fairness ==
    /\ \A c \in Clients : WF_vars(StartKiosk(c) \/ FinishCast(c))
    /\ \A who \in Stoppers : WF_vars(Kiosk(StopCommand(who) \/ RefreshAfterStop(who)))
    /\ WF_vars(CheckBootTimeout)
    /\ WF_vars(Kiosk(IdleExpires \/ CountdownEnds))
    /\ WF_vars(Kiosk(MonitorSeesPlug \/ MonitorSeesUnplug \/ RestartKiosk))

FairSpec == Spec /\ Fairness

-----------------------------------------------------------------------------
(* Properties. *)

\* A registered TV shows the cast the server records and announces, whatever
\* the order of casts, stops, reconnects and hotplugs.
TvShowsTheCast == tv_sid # NoTv => showing = playback_state

\* A client is only told to wait for the kiosk while no TV is registered, and
\* while a timeout that will answer it is armed.
BootPendingIsArmed == kiosk_boot # NoClient => tv_sid = NoTv /\ boot_timers > 0

\* The inactivity timers never stop the kiosk of a cast ("Casting resumed during
\* countdown, aborting shutdown"), however casts, stops, hotplugs and reconnects
\* overlap; save for a cast that began while the countdown already waited for
\* systemctl, and one that was starting when another was stopped.
TimersSpareCasts ==
    [][StopCommand("countdown") => playback_state \in {NoCast} \cup exposed]_vars

\* An armed timer stops the kiosk unless a cast resumes, or an exposed cast is recorded:
\* its stop is taken for one that was handled already, and cancels the timer.
ArmedTimerStopsKiosk ==
    timer # "none" ~> ~kiosk \/ casting_active \/ playback_state \in exposed

\* A client told to wait is told the outcome, unless casts keep starting.
BootIsAnswered == kiosk_boot # NoClient ~> kiosk_boot = NoClient \/ DOMAIN starts # {}

\* To who casts, all of this is CastService: kiosks that fail to start or are
\* stopped, second TV pages and old timers do not show.
AbstractService == INSTANCE CastService
    WITH Casts    <- Clients,
         cast     <- playback_state,
         tv       <- tv_sid # NoTv,
         active   <- casting_active,
         starting <- DOMAIN starts,
         waiting  <- kiosk_boot # NoClient

ImplementsCastService == AbstractService!CastServiceSpec

\* Why the timers spare casts: while one is armed or about to stop the kiosk,
\* only exposed casts are recorded or start.
TimersMeanNoCast ==
    timer # "none" \/ At(stops, "countdown", "command")
      => playback_state \in {NoCast} \cup exposed /\ DOMAIN starts \subseteq exposed

IInv ==
    /\ TypeOK
    /\ TvShowsTheCast
    /\ BootPendingIsArmed
    /\ TimersMeanNoCast
=============================================================================
