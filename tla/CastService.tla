------------------------------ MODULE CastService ------------------------------
(***************************************************************************)
(* What the server promises to those who cast: a cast that was asked for is *)
(* recorded when the kiosk has been started, it stays recorded until it is  *)
(* stopped, or until the TV's page leaves while no casting is going on, and *)
(* who waits for the page hears of it or of a timeout.  TvCast implements   *)
(* this on top of the kiosk; the server of CastControllers is nothing else. *)
(***************************************************************************)
CONSTANTS Casts,     \* what can be recorded
          NoCast

VARIABLES cast,      \* what is recorded
          tv,        \* a TV page is registered
          active,    \* casting_active: the kiosk is to be up
          starting,  \* the casts for which the kiosk is being started
          waiting    \* somebody was told that the kiosk boots

serviceVars == <<cast, tv, active, starting, waiting>>

\* Nothing is under way; a cast that is recorded keeps the kiosk up.
CastServiceInit ==
    /\ cast \in Casts \cup {NoCast}
    /\ tv \in BOOLEAN
    /\ active <=> cast # NoCast
    /\ starting = {}
    /\ waiting = FALSE

BeginCast(c) ==
    /\ starting' = starting \cup {c}
    /\ active' = TRUE
    /\ UNCHANGED <<cast, tv, waiting>>

RecordCast(c) ==
    /\ c \in starting
    /\ starting' = starting \ {c}
    /\ cast' = c
    /\ waiting' = (waiting \/ ~tv)
    /\ UNCHANGED <<tv, active>>

\* Without a TV the kiosk does not hear of it and stays up.
StopCast ==
    /\ cast # NoCast
    /\ cast' = NoCast
    /\ active' = (active /\ ~tv)
    /\ UNCHANGED <<tv, starting, waiting>>

GiveUpWaiting ==
    /\ waiting' = FALSE
    /\ UNCHANGED <<cast, tv, active, starting>>

TvArrives ==
    /\ tv' = TRUE
    /\ waiting' = FALSE
    /\ UNCHANGED <<cast, active, starting>>

TvLeaves ==
    /\ tv
    /\ tv' = FALSE
    /\ cast' = IF active THEN cast ELSE NoCast
    /\ UNCHANGED <<active, starting, waiting>>

Unplug ==
    /\ active' = FALSE
    /\ UNCHANGED <<cast, tv, starting, waiting>>

CastServiceNext ==
    \/ \E c \in Casts : BeginCast(c) \/ RecordCast(c)
    \/ StopCast \/ GiveUpWaiting
    \/ TvArrives \/ TvLeaves \/ Unplug

CastServiceSpec == CastServiceInit /\ [][CastServiceNext]_serviceVars
=============================================================================
