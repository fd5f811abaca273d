------------------------------ MODULE SyncMode ------------------------------
(***************************************************************************)
(* Sync mode: sync_controller.py, and static/js/modules/sync/manager.js in  *)
(* every browser.  The browsers' socket messages to the server and the      *)
(* server's to them keep their order; HTTP requests and answers (toggle,     *)
(* status, update) overtake them.  Handlers run to their end.                *)
(*                                                                          *)
(* One browser per session.  HTTP exchanges succeed.  What is played of a     *)
(* media file is left out, but not that a playback message opens the file in  *)
(* the guests; connections closed by the server are left out.                 *)
(***************************************************************************)
EXTENDS Naturals, Sequences

CONSTANTS Browsers, Media,
          Nothing,       \* no media, no session, no HTTP exchange under way
          MaxPresses,    \* bound: presses of the sync button
          MaxOpened,     \* bound: media opened and viewers closed by the users
          MaxPlays,      \* bound: playback messages of hosts
          MaxDrops,      \* bound: connections lost and pages reloaded
          MaxEvents      \* bound: all of these together

VARIABLES enabled, host_session_id, current_media,   \* sync_state
          played,       \* history: the media of the playback message relayed to a
                        \* browser since it was last sent the server's, or none
          room,         \* browsers whose socket is in SYNC_ROOM
          online,       \* browsers whose socket is connected
          mode,         \* syncModeEnabled and isHost
          listening,    \* browsers whose sync handlers are attached to the socket
          shown,        \* the media in the viewer
          opening,      \* navigations that wait for the media's order
          closing,      \* browsers whose viewer saves its state before it closes
          strayed,      \* history: guests whose users have opened or closed something
                        \* since they last followed their host
          inbox, outbox,           \* socket messages, by browser
          toggling, checking,      \* HTTP requests and answers, by browser
          posted,                  \* media updates sent by HTTP
          lost,         \* history: browsers that missed or ignored a message, or
                        \* handled one in the middle of something else
          presses, opened, plays, drops   \* bounds

server == <<enabled, host_session_id, current_media, played>>
viewers == <<shown, opening, closing, strayed>>
bounds == <<presses, opened, plays, drops>>
vars == <<server, room, online, mode, listening, viewers, inbox, outbox,
          toggling, checking, posted, lost, bounds>>

Shown == Media \cup {Nothing}
Asked == [asked |-> TRUE]
Status == [active: BOOLEAN, is_host: BOOLEAN]

ASSUME SyncAssumption ==
    /\ Nothing \notin Browsers \cup Media \cup Status \cup {Asked}
    /\ Nothing \notin [enable: BOOLEAN, media: Shown]
    /\ {MaxPresses, MaxOpened, MaxPlays, MaxDrops, MaxEvents} \subseteq Nat

ToBrowser == [type: {"sync_enabled"}, host: Browsers, media: Shown]
               \cup [type: {"sync_state"}, media: Shown] \cup [type: {"sync_disabled"}]
               \cup [type: {"playback_sync"}, media: Media]
ToServer == [type: {"join_sync", "leave_sync"}]
              \cup [type: {"sync_update", "playback_sync"}, media: Media]

\* The states of the server and the browsers are well typed, and only connected
\* sockets are in the room.
TypeOK ==
    /\ enabled \in BOOLEAN
    /\ host_session_id \in Browsers \cup {Nothing}
    /\ current_media \in Shown
    /\ played \in [Browsers -> Shown]
    /\ room \subseteq online
    /\ online \subseteq Browsers
    /\ mode \in [Browsers -> {"off", "guest", "host"}]
    /\ listening \subseteq Browsers
    /\ shown \in [Browsers -> Shown]
    /\ opening \in [Browsers -> SUBSET Media]
    /\ closing \subseteq Browsers
    /\ strayed \subseteq Browsers
    /\ inbox \in [Browsers -> Seq(ToBrowser)]
    /\ outbox \in [Browsers -> Seq(ToServer)]
    /\ toggling \in [Browsers -> {Nothing} \cup Status \cup [enable: BOOLEAN, media: Shown]]
    /\ checking \in [Browsers -> {Nothing, Asked} \cup Status]
    /\ posted \in [Browsers -> Shown]
    /\ lost \subseteq Browsers
    /\ presses \in 0..MaxPresses
    /\ opened \in 0..MaxOpened
    /\ plays \in 0..MaxPlays
    /\ drops \in 0..MaxDrops

Init ==
    /\ enabled = FALSE
    /\ host_session_id = Nothing
    /\ current_media = Nothing
    /\ played = [b \in Browsers |-> Nothing]
    /\ room = {}
    /\ online = Browsers
    /\ mode = [b \in Browsers |-> "off"]
    /\ listening = Browsers
    /\ shown = [b \in Browsers |-> Nothing]
    /\ opening = [b \in Browsers |-> {}]
    /\ closing = {}
    /\ strayed = {}
    /\ inbox = [b \in Browsers |-> <<>>]
    /\ outbox = [b \in Browsers |-> <<>>]
    /\ toggling = [b \in Browsers |-> Nothing]
    /\ checking = [b \in Browsers |-> Nothing]
    /\ posted = [b \in Browsers |-> Nothing]
    /\ lost = {}
    /\ presses = 0
    /\ opened = 0
    /\ plays = 0
    /\ drops = 0

\* The members of bs get a message; all others are as they were.
Sent(box, bs, message) ==
    [b \in Browsers |-> IF b \in bs THEN Append(box[b], message) ELSE box[b]]

Join == [type |-> "join_sync"]
State(m) == [type |-> "sync_state", media |-> m]

-----------------------------------------------------------------------------
(* The users. *)

MoreEvents == presses + opened + plays + drops < MaxEvents

\* A guest whose user does something with its viewer no longer follows its host.
Strays(b) == strayed' = IF mode[b] = "guest" THEN strayed \cup {b} ELSE strayed

\* openCategoryViewer and its like, and the next media in the viewer.  A guest's
\* navigation is disabled, but not its cards, its search and its commands.
OpenMedia(b, m) ==
    /\ opened < MaxOpened /\ MoreEvents
    /\ opened' = opened + 1
    /\ opening' = [opening EXCEPT ![b] = @ \cup {m}]
    /\ Strays(b)
    /\ UNCHANGED <<server, room, online, mode, listening, shown, closing, inbox, outbox,
                   toggling, checking, posted, lost, presses, plays, drops>>

\* The media's order has arrived, and the media is rendered; navigations that this
\* one has aborted never end.  In a host sendSyncUpdate tells the server, or not:
\* updates within 100 ms of the last one are dropped.
Opened(b, m) ==
    /\ m \in opening[b]
    /\ \E others \in SUBSET (opening[b] \ {m}) : opening' = [opening EXCEPT ![b] = others]
    /\ shown' = [shown EXCEPT ![b] = m]
    /\ \/ UNCHANGED <<outbox, posted>>
       \/ /\ mode[b] = "host" /\ b \in listening \cap online
          /\ outbox' = Sent(outbox, {b}, [type |-> "sync_update", media |-> m])
          /\ UNCHANGED posted
       \/ /\ mode[b] = "host" /\ b \notin listening \cap online
          /\ posted' = [posted EXCEPT ![b] = m]
          /\ UNCHANGED outbox
    /\ UNCHANGED <<server, room, online, mode, listening, closing, strayed, inbox, toggling,
                   checking, lost, bounds>>

\* goBackToCategories, by the back button or Escape, in a guest, too.
CloseViewer(b) ==
    /\ opened < MaxOpened /\ MoreEvents
    /\ opened' = opened + 1
    /\ shown[b] # Nothing
    /\ b \notin closing
    /\ closing' = closing \cup {b}
    /\ Strays(b)
    /\ UNCHANGED <<server, room, online, mode, listening, shown, opening, inbox, outbox,
                   toggling, checking, posted, lost, presses, plays, drops>>

\* The state is saved; a navigation under way may be aborted.  sendSyncUpdate refuses
\* to send an update without a media, so nobody is told.
Closed(b) ==
    /\ b \in closing
    /\ closing' = closing \ {b}
    /\ shown' = [shown EXCEPT ![b] = Nothing]
    /\ opening' = opening \/ opening' = [opening EXCEPT ![b] = {}]
    /\ UNCHANGED <<server, room, online, mode, listening, strayed, inbox, outbox, toggling,
                   checking, posted, lost, bounds>>

\* sendPlaybackSync: the host plays, pauses or seeks, or plays on (every 10 s); the
\* message names the media in its viewer, whether or not the server was told of it.
SendPlayback(b) ==
    /\ mode[b] = "host" /\ b \in listening \cap online
    /\ shown[b] # Nothing
    /\ plays < MaxPlays /\ MoreEvents
    /\ plays' = plays + 1
    /\ outbox' = Sent(outbox, {b}, [type |-> "playback_sync", media |-> shown[b]])
    /\ UNCHANGED <<server, room, online, mode, listening, viewers, inbox, toggling,
                   checking, posted, lost, presses, opened, drops>>

\* toggleSyncMode; a guest leaves without asking the server.
Press(b) ==
    /\ presses < MaxPresses /\ MoreEvents
    /\ presses' = presses + 1
    /\ toggling[b] = Nothing
    /\ \/ /\ mode[b] = "guest"
          /\ outbox' = IF b \in listening \cap online
                       THEN Sent(outbox, {b}, [type |-> "leave_sync"]) ELSE outbox
          /\ mode' = [mode EXCEPT ![b] = "off"]
          /\ listening' = listening \ {b}
          /\ UNCHANGED toggling
       \/ /\ mode[b] # "guest"
          /\ toggling' = [toggling EXCEPT ![b] =
                            [enable |-> mode[b] = "off", media |-> shown[b]]]
          /\ UNCHANGED <<outbox, mode, listening>>
    /\ UNCHANGED <<server, room, online, viewers, inbox, checking, posted, lost, opened,
                   plays, drops>>

-----------------------------------------------------------------------------
(* SyncController *)

StatusAsHost(b) == [active |-> enabled, is_host |-> enabled]
StatusOf(b) == [active |-> enabled, is_host |-> enabled /\ b = host_session_id]

\* What a playback message has named last to the members of bs; Nothing: they are
\* sent the server's media.
Names(bs, m) == played' = [b \in Browsers |-> IF b \in bs THEN m ELSE played[b]]

\* To everybody, in the room or not.
Broadcast(message) ==
    /\ inbox' = Sent(inbox, online, message)
    /\ Names(Browsers, Nothing)
    /\ lost' = lost \cup (Browsers \ online)

\* toggle_sync
MayTakeOver(b) ==
    ~enabled \/ host_session_id \notin online \/ host_session_id = b
ToggleSync(b) ==
    /\ toggling[b] \in [enable: BOOLEAN, media: Shown]
    /\ \/ /\ toggling[b].enable /\ MayTakeOver(b)
          /\ enabled' = TRUE
          /\ host_session_id' = b
          /\ current_media' = toggling[b].media
          /\ Broadcast([type |-> "sync_enabled", host |-> b, media |-> toggling[b].media])
       \/ /\ ~toggling[b].enable /\ enabled /\ host_session_id = b
          /\ enabled' = FALSE
          /\ host_session_id' = Nothing
          /\ current_media' = Nothing
          /\ Broadcast([type |-> "sync_disabled"])
       \/ /\ IF toggling[b].enable THEN ~MayTakeOver(b)
             ELSE ~(enabled /\ host_session_id = b)
          /\ UNCHANGED <<server, inbox, lost>>
    /\ toggling' = [toggling EXCEPT ![b] = StatusOf(b)']
    /\ UNCHANGED <<room, online, mode, listening, viewers, outbox, checking, posted, bounds>>

\* get_status
GetStatus(b) ==
    /\ checking[b] = Asked
    /\ checking' = [checking EXCEPT ![b] = StatusOf(b)]
    /\ UNCHANGED <<server, room, online, mode, listening, viewers, inbox, outbox, toggling,
                   posted, lost, bounds>>

\* update_current_media
UpdateCurrentMedia(b, m) ==
    IF enabled /\ b = host_session_id
    THEN /\ current_media' = m
         /\ inbox' = Sent(inbox, room, State(m))
         /\ Names(room, Nothing)
    ELSE UNCHANGED <<current_media, inbox, played>>

HttpUpdate(b) ==
    /\ posted[b] # Nothing
    /\ UpdateCurrentMedia(b, posted[b])
    /\ posted' = [posted EXCEPT ![b] = Nothing]
    /\ UNCHANGED <<enabled, host_session_id, room, online, mode, listening, viewers,
                   outbox, toggling, checking, lost, bounds>>

Receives(b, type) == b \in online /\ outbox[b] # <<>> /\ Head(outbox[b]).type = type
Received(b) == outbox' = [outbox EXCEPT ![b] = Tail(@)]

\* handle_join_sync; in JoinSilently it would not answer with the state.
JoinSilently(b) ==
    /\ Receives(b, "join_sync")
    /\ Received(b)
    /\ room' = IF enabled THEN room \cup {b} ELSE room
    /\ UNCHANGED <<server, online, mode, listening, viewers, inbox, toggling, checking,
                   posted, lost, bounds>>
HandleJoin(b) ==
    /\ Receives(b, "join_sync")
    /\ Received(b)
    /\ IF enabled
       THEN /\ room' = room \cup {b}
            /\ inbox' = Sent(inbox, {b}, State(current_media))
            /\ Names({b}, Nothing)
       ELSE UNCHANGED <<room, inbox, played>>
    /\ UNCHANGED <<enabled, host_session_id, current_media, online, mode, listening, viewers,
                   toggling, checking, posted, lost, bounds>>

\* handle_leave_sync
HandleLeave(b) ==
    /\ Receives(b, "leave_sync")
    /\ Received(b)
    /\ room' = room \ {b}
    /\ UNCHANGED <<server, online, mode, listening, viewers, inbox, toggling, checking,
                   posted, lost, bounds>>

\* handle_sync_update_ws
HandleUpdate(b) ==
    /\ Receives(b, "sync_update")
    /\ Received(b)
    /\ UpdateCurrentMedia(b, Head(outbox[b]).media)
    /\ UNCHANGED <<enabled, host_session_id, room, online, mode, listening, viewers,
                   toggling, checking, posted, lost, bounds>>

\* handle_playback_sync: relayed to the others in the room; current_media stays.
HandlePlayback(b) ==
    /\ Receives(b, "playback_sync")
    /\ Received(b)
    /\ IF enabled /\ b = host_session_id
       THEN /\ inbox' = Sent(inbox, room \ {b}, Head(outbox[b]))
            /\ Names(room \ {b}, Head(outbox[b]).media)
       ELSE UNCHANGED <<inbox, played>>
    /\ UNCHANGED <<enabled, host_session_id, current_media, room, online, mode, listening,
                   viewers, toggling, checking, posted, lost, bounds>>

-----------------------------------------------------------------------------
(* The sync manager of browser b. *)

ModeOf(status) ==
    CASE ~status.active -> "off" [] status.is_host -> "host" [] OTHER -> "guest"

\* The answer to the toggle; initWebSocket attaches the handlers again, and
\* joins the room only if it has to connect.
ToggleAnswered(b) ==
    /\ toggling[b] \in Status
    /\ toggling' = [toggling EXCEPT ![b] = Nothing]
    /\ mode' = [mode EXCEPT ![b] = ModeOf(toggling[b])]
    /\ listening' = IF toggling[b].active THEN listening \cup {b} ELSE listening \ {b}
    /\ UNCHANGED <<server, room, online, viewers, inbox, outbox, checking, posted, lost,
                   bounds>>

\* applySyncStatus
StatusAnswered(b) ==
    /\ checking[b] \in Status
    /\ checking' = [checking EXCEPT ![b] = Nothing]
    /\ mode' = [mode EXCEPT ![b] = ModeOf(checking[b])]
    /\ listening' = IF checking[b].active THEN listening \cup {b}
                    ELSE IF mode[b] # "off" THEN listening \ {b} ELSE listening
    /\ outbox' = IF ModeOf(checking[b]) = "guest" THEN Sent(outbox, {b}, Join) ELSE outbox
    /\ UNCHANGED <<server, room, online, viewers, inbox, toggling, posted, lost, bounds>>

\* Nothing is under way that may undo what a message does: no answer, no navigation
\* and no closing of the viewer.
Undisturbed(b) ==
    checking[b] = Nothing /\ toggling[b] = Nothing /\ opening[b] = {} /\ b \notin closing

\* handleSyncUpdate in a guest, and applyPlaybackSync, whose messages name a media:
\* it opens what it does not show yet when the media's order is there.  Without a
\* media the viewer closes; but a video that plays is only stopped, and remains.
Follows(b, m) ==
    /\ lost' = IF Undisturbed(b) THEN lost \ {b} ELSE lost \cup {b}
    /\ UNCHANGED shown
    /\ \/ /\ m = shown[b]
          /\ strayed' = strayed \ {b}
          /\ UNCHANGED <<opening, closing>>
       \/ /\ m # shown[b] /\ m # Nothing
          /\ strayed' = strayed \ {b}
          /\ opening' = [opening EXCEPT ![b] = @ \cup {m}]
          /\ UNCHANGED closing
       \/ /\ m # shown[b] /\ m = Nothing
          /\ \/ closing' = closing \cup {b} /\ strayed' = strayed \ {b}
             \/ strayed' = strayed \cup {b} /\ UNCHANGED closing
          /\ UNCHANGED opening

Handles(b, type) == inbox[b] # <<>> /\ Head(inbox[b]).type = type
Handled(b) == inbox' = [inbox EXCEPT ![b] = Tail(@)]
Ignores(b) == UNCHANGED <<mode, viewers, outbox>> /\ lost' = lost \cup {b}

\* A browser that waits for its own toggle's answer ignores the announcement.
OnSyncEnabled(b) ==
    /\ Handles(b, "sync_enabled")
    /\ Handled(b)
    /\ LET h == Head(inbox[b]).host
           m == Head(inbox[b]).media
       IN IF b \notin listening \/ toggling[b] # Nothing THEN Ignores(b)
          ELSE IF h = b
          THEN /\ mode' = [mode EXCEPT ![b] = "host"]
               /\ lost' = IF Undisturbed(b) THEN lost \ {b} ELSE lost \cup {b}
               /\ UNCHANGED <<viewers, outbox>>
          ELSE /\ mode' = [mode EXCEPT ![b] = "guest"]
               /\ outbox' = Sent(outbox, {b}, Join)
               /\ IF m # Nothing THEN Follows(b, m)
                  ELSE /\ UNCHANGED viewers
                       /\ lost' = IF Undisturbed(b) THEN lost ELSE lost \cup {b}
    /\ UNCHANGED <<server, room, online, listening, toggling, checking, posted, bounds>>

\* The host's media, or the one that it plays.
OnSyncState(b) ==
    /\ Handles(b, "sync_state") \/ Handles(b, "playback_sync")
    /\ Handled(b)
    /\ IF b \in listening /\ mode[b] = "guest"
       THEN Follows(b, Head(inbox[b]).media) /\ UNCHANGED <<mode, outbox>>
       ELSE Ignores(b)
    /\ UNCHANGED <<server, room, online, listening, toggling, checking, posted, bounds>>

OnSyncDisabled(b) ==
    /\ Handles(b, "sync_disabled")
    /\ Handled(b)
    /\ IF b \in listening
       THEN /\ mode' = [mode EXCEPT ![b] = "off"]
            /\ lost' = IF Undisturbed(b) THEN lost ELSE lost \cup {b}
       ELSE lost' = lost \cup {b} /\ UNCHANGED mode
    /\ UNCHANGED <<server, room, online, listening, viewers, outbox, toggling, checking,
                   posted, bounds>>

-----------------------------------------------------------------------------
(* Connections. *)

\* The server forgets the socket and its rooms; what was under way is lost.
Disconnected(b) ==
    /\ drops < MaxDrops /\ MoreEvents
    /\ drops' = drops + 1
    /\ b \in online
    /\ room' = room \ {b}
    /\ inbox' = [inbox EXCEPT ![b] = <<>>]
    /\ outbox' = [outbox EXCEPT ![b] = <<>>]
    /\ lost' = lost \cup {b}

Drop(b) ==
    /\ Disconnected(b)
    /\ online' = online \ {b}
    /\ UNCHANGED <<server, mode, listening, viewers, toggling, checking, posted, presses,
                   opened, plays>>

\* The connect handler joins the room again, but does not ask for the status.
Reconnect(b) ==
    /\ b \notin online
    /\ online' = online \cup {b}
    /\ outbox' = IF b \in listening /\ mode[b] # "off" THEN Sent(outbox, {b}, Join) ELSE outbox
    /\ UNCHANGED <<server, room, mode, listening, viewers, inbox, toggling, checking,
                   posted, lost, bounds>>

\* After enough failed attempts to connect a guest stops waiting for its host.
ConnectionError(b) ==
    /\ b \notin online
    /\ b \in listening /\ mode[b] = "guest"
    /\ mode' = [mode EXCEPT ![b] = "off"]
    /\ UNCHANGED <<server, room, online, listening, viewers, inbox, outbox, toggling,
                   checking, posted, lost, bounds>>

\* The page is loaded again and asks for the status (initSync).
Reload(b) ==
    /\ Disconnected(b)
    /\ mode' = [mode EXCEPT ![b] = "off"]
    /\ listening' = listening \cup {b}
    /\ shown' = [shown EXCEPT ![b] = Nothing]
    /\ opening' = [opening EXCEPT ![b] = {}]
    /\ closing' = closing \ {b}
    /\ strayed' = strayed \ {b}
    /\ toggling[b] = Nothing
    /\ checking' = [checking EXCEPT ![b] = Asked]
    /\ UNCHANGED <<server, online, toggling, posted, presses, opened, plays>>

Next ==
    \/ \E b \in Browsers, m \in Media : OpenMedia(b, m) \/ Opened(b, m)
    \/ \E b \in Browsers :
         \/ CloseViewer(b) \/ Closed(b) \/ SendPlayback(b) \/ Press(b)
         \/ ToggleSync(b) \/ GetStatus(b) \/ HttpUpdate(b)
         \/ HandleJoin(b) \/ HandleLeave(b) \/ HandleUpdate(b) \/ HandlePlayback(b)
         \/ ToggleAnswered(b) \/ StatusAnswered(b)
         \/ OnSyncEnabled(b) \/ OnSyncState(b) \/ OnSyncDisabled(b)
         \/ Drop(b) \/ Reconnect(b) \/ ConnectionError(b) \/ Reload(b)

Spec == Init /\ [][Next]_vars

-----------------------------------------------------------------------------
(* Properties. *)

\* Nothing that concerns the browser is under way.
Settled(b) ==
    /\ b \in online
    /\ inbox[b] = <<>> /\ outbox[b] = <<>>
    /\ toggling[b] = Nothing /\ checking[b] = Nothing /\ posted[b] = Nothing
    /\ opening[b] = {} /\ b \notin closing

\* What a browser in the room was last sent: the server's media, or the one of a
\* playback message that came after it.
HostsMedia(b) == IF played[b] = Nothing THEN current_media ELSE played[b]

\* A guest that is in the room, has not lost a message, and whose user has left the
\* viewer alone since, shows what the server holds for the host's media, or what a
\* later playback message of the host named, once nothing is under way: a late
\* joiner gets the state, no update overtakes another on its way, and the next one
\* brings back a guest that has strayed.
GuestsInRoomFollow ==
    \A b \in room \ (lost \cup strayed) :
        Settled(b) /\ mode[b] = "guest" /\ enabled => shown[b] = HostsMedia(b)

\* A browser that takes itself for the host is the server's host: no toggle,
\* takeover or disabling leaves a second one that still thinks so, unless a
\* message was lost on it.
HostsAreHosts ==
    \A b \in Browsers \ lost :
        Settled(b) /\ mode[b] = "host" => enabled /\ host_session_id = b

=============================================================================
