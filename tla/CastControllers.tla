---------------------------- MODULE CastControllers ----------------------------
(***************************************************************************)
(* The cast buttons of several browsers (tvCast.js, and the close button of *)
(* tvPlayerModal.js) and what they hear of the TV's cast.  A browser shows a *)
(* cast before the server has heard of it and learns the truth from          *)
(* tv_status_update; on a socket messages keep their order, a lost           *)
(* connection loses some, and a new one begins with a status.                *)
(*                                                                         *)
(* The server's side is tv_cast_service.py as in TvCast, without the kiosk:  *)
(* a cast waits there for a while, and a TV page comes and goes.  Positions, *)
(* titles and the right to use the modal's controls are left out.            *)
(***************************************************************************)
EXTENDS Naturals, Sequences, FiniteSets

CONSTANTS Browsers,
          Administrators,
          Nobody,
          MaxCasts,     \* bound: casts the users ask for
          MaxInputs     \* bound: those, their other commands, reloads, lost
                        \* connections, comings and goings of the TV

ASSUME ControllersAssumption ==
    /\ Administrators \subseteq Browsers
    /\ Nobody \notin Browsers /\ "gone" \notin Browsers \cup {Nobody}
    /\ MaxCasts \in Nat \ {0} /\ MaxInputs \in Nat

NoMedia == 0

VARIABLES playing,   \* tv_playback_state: the media cast, and whether by a guest
          tv,        \* a TV page is registered
          active,    \* casting_active
          boot,      \* the requester in kiosk_boot_pending
          starting,  \* casts inside on_cast_start, with the socket that asked
          ending,    \* stop_cast handlers inside on_cast_stop, which stops the kiosk
          greeting,  \* by browser: the status its connect handler has read
          inbox, outbox,  \* by browser: messages to and from it
          online,    \* browsers with a socket
          page,      \* by browser: the variables of tvCast.js
          misled,    \* history: browsers whose last word on the cast was untrue
          casts, inputs  \* what the bounds bound

serverVars == <<playing, tv, active, boot, starting, ending>>
counters == <<casts, inputs>>
castVars == <<serverVars, greeting, inbox, outbox, online, page, misled, counters>>

Casts == [media : 0..MaxCasts, guest : BOOLEAN]
NoCast == [media |-> NoMedia, guest |-> FALSE]

\* preparing: casts whose progress and subtitles are being fetched; restoring:
\* the timer that shows the modal again after a reload.
Pages == [casting : BOOLEAN, media : 0..MaxCasts, stop : BOOLEAN, modal : BOOLEAN,
          saved : 0..MaxCasts, restoring : BOOLEAN, preparing : SUBSET (1..MaxCasts)]
FreshPage(saved) ==
    [casting |-> saved # NoMedia, media |-> saved, stop |-> FALSE, modal |-> FALSE,
     saved |-> saved, restoring |-> saved # NoMedia, preparing |-> {}]

Status(casting, media) == [kind |-> "status", casting |-> casting, media |-> media]
Truth == Status(playing.media # NoMedia, playing.media)
NotCasting == Status(FALSE, NoMedia)
Note(kind) == [kind |-> kind, casting |-> FALSE, media |-> NoMedia]
NoGreeting == Note("none")

\* What the server sends, and what it is sent.
Statuses == [kind: {"status"}, casting: {TRUE}, media: 0..MaxCasts] \cup {NotCasting}
Notices == [kind: {"cast_success", "kiosk_boot_complete", "kiosk_boot_timeout", "tv_error"},
            casting: {FALSE}, media: {NoMedia}]
Commands == [kind: {"stop", "control", "request"}, media: {NoMedia}]
              \cup [kind: {"cast"}, media: 1..MaxCasts]
RealCasts == [media: 1..MaxCasts, guest: BOOLEAN]

ControllersTypeOK ==
    /\ playing \in RealCasts \cup {NoCast}
    /\ tv \in BOOLEAN /\ active \in BOOLEAN
    /\ boot \in Browsers \cup {Nobody, "gone"}
    /\ starting \subseteq [by: Browsers \cup {"gone"}, cast: RealCasts]
    /\ ending \in Nat
    /\ greeting \in [Browsers -> (Statuses \ {Status(TRUE, NoMedia)}) \cup {NoGreeting}]
    /\ inbox \in [Browsers -> Seq(Notices \cup Statuses)]
    /\ outbox \in [Browsers -> Seq(Commands)]
    /\ online \subseteq Browsers /\ misled \subseteq Browsers
    /\ page \in [Browsers -> Pages]
    /\ casts \in 0..MaxCasts /\ inputs \in 0..MaxInputs

\* Nothing is cast, or the first cast has settled and all browsers show it.
ControllersInit ==
    /\ casts \in 0..1
    /\ playing \in {c \in Casts : c.media = casts /\ (casts = 0 => c = NoCast)}
    /\ tv \in BOOLEAN /\ active = (casts = 1) /\ boot = Nobody /\ starting = {} /\ ending = 0
    /\ greeting = [b \in Browsers |-> NoGreeting]
    /\ inbox = [b \in Browsers |-> <<>>] /\ outbox = [b \in Browsers |-> <<>>]
    /\ online = Browsers
    /\ page = [b \in Browsers |-> [FreshPage(casts) EXCEPT !.modal = (casts = 1), !.restoring = FALSE]]
    /\ misled = {}
    /\ inputs = 0

-----------------------------------------------------------------------------
(* The server. *)

\* Pages that sent a cast while a stop was wanted do not take back from a status
\* that they cast.
Deaf == {b \in Browsers : page[b].stop /\ page[b].casting}

Told(f, b, m) == [f EXCEPT ![b] = Append(@, m)]
ToldAll(m) == [b \in Browsers |-> IF b \in online THEN Append(inbox[b], m) ELSE inbox[b]]
ToldOne(f, b, m) == IF b \in online THEN Told(f, b, m) ELSE f

Arrives(b, kind) ==
    /\ b \in online /\ greeting[b] = NoGreeting
    /\ outbox[b] # <<>> /\ Head(outbox[b]).kind = kind
    /\ outbox' = [outbox EXCEPT ![b] = Tail(@)]
    /\ UNCHANGED <<greeting, online, page, counters>>

StartCast(b) ==
    /\ Arrives(b, "cast")
    /\ starting' = starting \cup {[by |-> b, cast |-> [media |-> Head(outbox[b]).media,
                                                      guest |-> b \notin Administrators]]}
    /\ active' = TRUE
    /\ UNCHANGED <<playing, tv, boot, ending, inbox, misled>>

\* The rest of start_cast, when on_cast_start returns.
FinishStart(s) ==
    /\ s \in starting
    /\ starting' = starting \ {s}
    /\ playing' = s.cast
    /\ LET told == ToldAll(Status(TRUE, s.cast.media))
       IN  IF tv THEN inbox' = ToldOne(told, s.by, Note("cast_success")) /\ UNCHANGED boot
                 ELSE inbox' = told /\ boot' = s.by
    /\ misled' = misled \cap Deaf
    /\ UNCHANGED <<tv, active, ending, greeting, outbox, online, page, counters>>

\* A command the server refuses; the sender takes it for the end of the cast.
Refused(b) ==
    /\ inbox' = Told(inbox, b, Note("tv_error"))
    /\ misled' = IF playing = NoCast THEN misled ELSE misled \cup {b}
    /\ UNCHANGED serverVars

\* The cast is cleared first and all are told last.  In between on_cast_stop, which is
\* not called without a TV, waits for the kiosk to stop if the cast was active and no
\* display is plugged in.
StopCastingAlwaysEnds(b) ==
    /\ Arrives(b, "stop")
    /\ IF playing # NoCast /\ ~playing.guest /\ b \notin Administrators
       THEN Refused(b)
       ELSE /\ playing' = NoCast
            /\ active' = FALSE
            /\ inbox' = ToldAll(NotCasting) /\ misled' = misled \cap Deaf
            /\ UNCHANGED <<tv, boot, starting, ending>>
StopCasting(b) ==
    /\ Arrives(b, "stop")
    /\ IF playing # NoCast /\ ~playing.guest /\ b \notin Administrators
       THEN Refused(b)
       ELSE /\ playing' = NoCast
            /\ active' = (active /\ ~(tv /\ playing # NoCast))
            /\ \/ inbox' = ToldAll(NotCasting) /\ misled' = misled \cap Deaf /\ UNCHANGED ending
               \/ active /\ ~active' /\ ending' = ending + 1 /\ UNCHANGED <<inbox, misled>>
            /\ UNCHANGED <<tv, boot, starting>>

\* The rest of stop_cast, when on_cast_stop returns, whatever is cast by then.
AnnounceStop ==
    /\ ending > 0
    /\ ending' = ending - 1
    /\ inbox' = ToldAll(NotCasting)
    /\ misled' = IF playing = NoCast THEN misled \cap Deaf ELSE misled \cup online
    /\ UNCHANGED <<playing, tv, active, boot, starting, greeting, outbox, online, page, counters>>

RelayControl(b) ==
    /\ Arrives(b, "control")
    /\ IF playing = NoCast \/ (~playing.guest /\ b \notin Administrators) \/ ~tv
       THEN Refused(b)
       ELSE UNCHANGED <<serverVars, inbox, misled>>

\* Whatever is recorded, without a TV the answer is that nothing is cast.
RequestStatus(b) ==
    /\ Arrives(b, "request")
    /\ inbox' = Told(inbox, b, IF tv THEN Truth ELSE NotCasting)
    /\ misled' = IF tv \/ playing = NoCast THEN misled \ ({b} \ Deaf) ELSE misled \cup {b}
    /\ UNCHANGED serverVars

CheckBoot ==
    /\ boot # Nobody
    /\ boot' = Nobody
    /\ inbox' = IF boot = "gone" THEN inbox ELSE Told(inbox, boot, Note("kiosk_boot_timeout"))
    /\ misled' = IF playing = NoCast THEN misled ELSE misled \cup ({boot} \cap Browsers)
    /\ UNCHANGED <<playing, tv, active, starting, ending, greeting, outbox, online, page, counters>>

-----------------------------------------------------------------------------
(* The TV's page. *)

Input == inputs < MaxInputs /\ inputs' = inputs + 1

TvChanges == Input /\ UNCHANGED <<starting, ending, greeting, outbox, online, page, casts>>

TvArrives ==
    /\ ~tv /\ TvChanges
    /\ tv' = TRUE /\ boot' = Nobody
    /\ LET told == IF boot \in Browsers
                   THEN Told(inbox, boot, Note("kiosk_boot_complete")) ELSE inbox
       IN  inbox' = [b \in Browsers |-> IF b \in online THEN Append(told[b], Truth) ELSE told[b]]
    /\ misled' = misled \cap Deaf
    /\ UNCHANGED <<playing, active>>

\* A cast that is active survives; the browsers are told, without what is cast.
TvLeaves ==
    /\ tv /\ TvChanges
    /\ tv' = FALSE
    /\ IF active
       THEN inbox' = ToldAll(Status(TRUE, NoMedia)) /\ UNCHANGED <<playing, misled>>
       ELSE playing' = NoCast /\ inbox' = ToldAll(NotCasting) /\ misled' = misled \cap Deaf
    /\ UNCHANGED <<active, boot>>

HdmiUnplugged ==
    /\ active /\ TvChanges
    /\ active' = FALSE
    /\ UNCHANGED <<playing, tv, boot, inbox, misled>>

-----------------------------------------------------------------------------
(* The button, the modal and the other senders of a browser. *)

Turn(b, p) == page' = [page EXCEPT ![b] = p]
Emit(b, kind, media) ==
    outbox' = Told(outbox, b, [kind |-> kind, media |-> media])
Silent == UNCHANGED outbox

\* resetCastingState
Reset(p, keepStop) ==
    [p EXCEPT !.casting = FALSE, !.media = NoMedia, !.saved = NoMedia, !.modal = FALSE,
              !.stop = keepStop /\ @]

\* What is being cast counts as cast from the click on; the fetches come first.
castMediaToTv(b) ==
    /\ b \in online /\ ~page[b].casting
    /\ casts < MaxCasts /\ Input
    /\ casts' = casts + 1
    /\ Turn(b, [page[b] EXCEPT !.stop = FALSE, !.media = casts', !.preparing = @ \cup {casts'}])
    /\ UNCHANGED <<serverVars, greeting, inbox, outbox, online, misled>>

\* The rest of it.  What the page holds by now is saved, not what was prepared.
SendCast(b, media) ==
    /\ media \in page[b].preparing
    /\ Emit(b, "cast", media)
    /\ Turn(b, [page[b] EXCEPT !.casting = TRUE, !.modal = TRUE, !.saved = page[b].media,
                               !.preparing = @ \ {media}])
    /\ misled' = IF page[b].stop THEN misled \cup {b} ELSE misled
    /\ UNCHANGED <<serverVars, greeting, inbox, online, counters>>

Command(b) ==
    /\ Input
    /\ UNCHANGED <<serverVars, greeting, inbox, online, misled, casts>>

stopCasting(b) ==
    /\ b \in online /\ page[b].casting
    /\ Command(b)
    /\ Turn(b, Reset([page[b] EXCEPT !.stop = TRUE], TRUE))
    /\ Emit(b, "stop", NoMedia)

\* The minimized modal's close button and its controls only send.
UseModal(b) ==
    /\ page[b].modal
    /\ Command(b)
    /\ \E kind \in {"stop", "control"} : Emit(b, kind, NoMedia)
    /\ UNCHANGED page

requestTvStatus(b) ==
    /\ Command(b)
    /\ Emit(b, "request", NoMedia)
    /\ UNCHANGED page

-----------------------------------------------------------------------------
(* What a browser makes of a message. *)

Heard(b, kind) ==
    /\ b \in online /\ greeting[b] = NoGreeting
    /\ inbox[b] # <<>> /\ Head(inbox[b]).kind = kind
    /\ inbox' = [inbox EXCEPT ![b] = Tail(@)]
    /\ UNCHANGED <<serverVars, greeting, online, misled, counters>>

\* While a stop is wanted, a cast that goes on is stopped again and a cast that
\* has ended fulfils it.
StopAgain(b, p) == Emit(b, "stop", NoMedia) /\ Turn(b, p)

StatusWhileStopping(b, casting) ==
    LET p == [page[b] EXCEPT !.stop = casting, !.modal = FALSE]
    IN  IF casting THEN StopAgain(b, p) ELSE Silent /\ Turn(b, p)

Showing(p, media) ==
    [p EXCEPT !.casting = TRUE, !.media = media, !.modal = TRUE,
              !.saved = IF p.modal THEN @ ELSE media]

handleTvStatusUpdateKeepsCast(b) ==
    LET m == Head(inbox[b])
        p == page[b]
    IN  /\ Heard(b, "status")
        /\ IF p.stop THEN StatusWhileStopping(b, m.casting)
           ELSE Silent /\ Turn(b, IF m.media # NoMedia THEN Showing(p, m.media) ELSE p)
handleTvStatusUpdate(b) ==
    LET m == Head(inbox[b])
        p == page[b]
    IN  /\ Heard(b, "status")
        /\ IF p.stop THEN StatusWhileStopping(b, m.casting)
           ELSE Silent /\ Turn(b, IF m.media # NoMedia THEN Showing(p, m.media)
                                  ELSE IF ~m.casting /\ p.casting THEN Reset(p, FALSE)
                                  ELSE p)

handleCastSuccess(b) ==
    /\ Heard(b, "cast_success")
    /\ IF page[b].stop THEN StopAgain(b, Reset(page[b], TRUE))
       ELSE Silent /\ Turn(b, [page[b] EXCEPT !.casting = TRUE])

\* The modal comes back if the page knows what it would show.
handleKioskBootComplete(b) ==
    /\ Heard(b, "kiosk_boot_complete")
    /\ IF page[b].stop THEN StopAgain(b, Reset(page[b], TRUE))
       ELSE Silent /\ Turn(b, IF page[b].casting /\ ~page[b].modal /\ ~page[b].restoring
                              THEN Showing(page[b], page[b].media) ELSE page[b])

handleKioskBootTimeout(b) == Heard(b, "kiosk_boot_timeout") /\ Silent /\ Turn(b, Reset(page[b], FALSE))
handleTvError(b) == Heard(b, "tv_error") /\ Silent /\ Turn(b, Reset(page[b], FALSE))

\* The TV reports many times a second; each report saves what the page casts.
handleTvPlaybackState(b) ==
    /\ page[b].casting /\ b \in online
    /\ Turn(b, [page[b] EXCEPT !.saved = page[b].media])
    /\ UNCHANGED <<serverVars, greeting, inbox, outbox, online, misled, counters>>

-----------------------------------------------------------------------------
(* Connections. *)

\* The server keeps the old socket's id where it waits for something.
Forget(b) ==
    /\ Input
    /\ online' = online \ {b}
    /\ greeting' = [greeting EXCEPT ![b] = NoGreeting]
    /\ inbox' = [inbox EXCEPT ![b] = <<>>]
    /\ boot' = IF boot = b THEN "gone" ELSE boot
    /\ starting' = {[s EXCEPT !.by = IF @ = b THEN "gone" ELSE @] : s \in starting}
    /\ UNCHANGED <<playing, tv, active, ending, misled, casts>>

\* What was on its way is lost, what was not sent waits for the next socket.
LoseSocket(b) ==
    /\ b \in online
    /\ Forget(b)
    /\ \E n \in 0..Len(outbox[b]) : outbox' = [outbox EXCEPT ![b] = SubSeq(@, n + 1, Len(@))]
    /\ UNCHANGED page

\* initTvCastManager of the new page, which asks for the status too.
ReloadPage(b) ==
    /\ Forget(b)
    /\ Turn(b, FreshPage(page[b].saved))
    /\ outbox' = [outbox EXCEPT ![b] = <<[kind |-> "request", media |-> NoMedia]>>]

RestoreModal(b) ==
    /\ page[b].restoring
    /\ Turn(b, [page[b] EXCEPT !.modal = TRUE, !.restoring = FALSE])
    /\ UNCHANGED <<serverVars, greeting, inbox, outbox, online, misled, counters>>

\* The connect handler reads the cast, waits for the state of the kiosk, and sends
\* what it read; the socket gets what is sent to all in the meantime.
Connect(b) ==
    /\ b \notin online
    /\ online' = online \cup {b}
    /\ greeting' = [greeting EXCEPT ![b] = Truth]
    /\ UNCHANGED <<serverVars, inbox, outbox, page, misled, counters>>

Greet(b) ==
    /\ greeting[b] # NoGreeting
    /\ inbox' = Told(inbox, b, greeting[b])
    /\ misled' = IF greeting[b] = Truth THEN misled \ ({b} \ Deaf) ELSE misled \cup {b}
    /\ greeting' = [greeting EXCEPT ![b] = NoGreeting]
    /\ UNCHANGED <<serverVars, outbox, online, page, counters>>

-----------------------------------------------------------------------------
Server(b) == StartCast(b) \/ StopCasting(b) \/ RelayControl(b) \/ RequestStatus(b)
Hear(b) ==
    \/ handleTvStatusUpdate(b)
    \/ handleCastSuccess(b)
    \/ handleKioskBootComplete(b)
    \/ handleKioskBootTimeout(b)
    \/ handleTvError(b)

ControllersNext ==
    \/ \E b \in Browsers :
        \/ castMediaToTv(b) \/ stopCasting(b) \/ UseModal(b) \/ requestTvStatus(b)
        \/ \E media \in page[b].preparing : SendCast(b, media)
        \/ Hear(b) \/ handleTvPlaybackState(b) \/ RestoreModal(b)
        \/ LoseSocket(b) \/ ReloadPage(b) \/ Connect(b) \/ Greet(b)
        \/ Server(b)
    \/ \E s \in starting : FinishStart(s)
    \/ CheckBoot \/ AnnounceStop
    \/ TvArrives \/ TvLeaves \/ HdmiUnplugged

ControllersSpec == ControllersInit /\ [][ControllersNext]_castVars

-----------------------------------------------------------------------------
(* Properties. *)

Quiet ==
    /\ starting = {} /\ ending = 0 /\ online = Browsers
    /\ \A b \in Browsers : inbox[b] = <<>> /\ outbox[b] = <<>> /\ greeting[b] = NoGreeting

\* When all messages have been handled, no browser still wants a stop (it would
\* stop somebody else's next cast), and every browser shows the cast the server
\* records, with its modal, or none if there is none: but for those to which the
\* server's last word was untrue (an error that refuses a command, a boot timeout,
\* an answer given without a TV, a greeting overtaken by a change, the end of a cast
\* announced after the next one's beginning) and those that sent a cast while they
\* wanted a stop.
ControllersAgree ==
    Quiet => \A b \in Browsers :
        LET p == page[b] IN
        /\ ~p.stop
        /\ b \notin misled =>
              /\ p.casting <=> playing # NoCast
              /\ p.casting => p.media = playing.media /\ (p.modal \/ p.restoring)

\* The server is used only as CastService allows, which TvCast implements: each
\* cast the users ask for reaches it once, whatever sockets are lost meanwhile.
AbstractService == INSTANCE CastService
    WITH Casts    <- RealCasts,
         cast     <- playing,
         starting <- {s.cast : s \in starting},
         waiting  <- boot # Nobody

ReliesOnCastService == AbstractService!CastServiceSpec
=============================================================================
