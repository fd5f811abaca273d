---------------------------- MODULE SyncModeProofs ----------------------------
(* Proofs about SyncMode and Viewer, for every number of browsers, media and  *)
(* records, and any bounds on what the users and the network do.              *)
EXTENDS SyncMode, Viewer, TLAPS

\* What the server tells everybody: who is the host now, or that nobody is.
Announces(message) == message.type \in {"sync_enabled", "sync_disabled"}
IsTrue(message, on, host) ==
    IF message.type = "sync_enabled" THEN on /\ host = message.host ELSE ~on

\* The last announcement of a queue is true; or it has none.
LastIsTrue(queue, on, host) ==
    \A i \in 1..Len(queue) :
        Announces(queue[i]) /\ (\A j \in i+1..Len(queue) : ~Announces(queue[j]))
            => IsTrue(queue[i], on, host)
Silent(queue) == \A i \in 1..Len(queue) : ~Announces(queue[i])

IsHost(b) == enabled /\ host_session_id = b

\* When no announcement is on its way, a browser that has lost nothing is right to
\* take itself for the host, and so is the answer to its toggle.
KnowsHost(b) ==
    Silent(inbox[b]) =>
        /\ mode[b] = "host" => IsHost(b)
        /\ toggling[b] \in Status /\ ModeOf(toggling[b]) = "host" => IsHost(b)

\* A browser that is offline has no messages, and has lost some; one that asks for
\* the status has been reloaded, and has lost some, too.
LostIsLost(b) ==
    /\ b \notin online => inbox[b] = <<>> /\ b \in lost
    /\ checking[b] # Nothing => b \in lost

HostInv ==
    /\ TypeOK
    /\ \A b \in Browsers : LastIsTrue(inbox[b], enabled, host_session_id) /\ LostIsLost(b)
    /\ \A b \in Browsers \ lost : KnowsHost(b)

-----------------------------------------------------------------------------
(* Types. *)

\* What is sent and received stays a queue of messages.
LEMMA SentIsTyped ==
  ASSUME TypeOK
  PROVE  /\ \A bs, message : message \in ToBrowser =>
               Sent(inbox, bs, message) \in [Browsers -> Seq(ToBrowser)]
         /\ \A bs, message : message \in ToServer =>
               Sent(outbox, bs, message) \in [Browsers -> Seq(ToServer)]
BY DEF Sent, TypeOK

\* And so does what is left of one when its first message has been received.
LEMMA TailIsTyped ==
  ASSUME NEW S, NEW box \in [Browsers -> Seq(S)], NEW b \in Browsers, box[b] # <<>>
  PROVE  [box EXCEPT ![b] = Tail(@)] \in [Browsers -> Seq(S)]
BY DEF Sent

\* The types hold when the server has started and everybody is connected.
LEMMA TypeInit == Init => TypeOK
<1> SUFFICES ASSUME Init PROVE TypeOK
  OBVIOUS
<1>1. /\ inbox \in [Browsers -> Seq(ToBrowser)]
      /\ outbox \in [Browsers -> Seq(ToServer)]
  BY DEF Init
<1>2. /\ presses \in 0..MaxPresses /\ opened \in 0..MaxOpened
      /\ plays \in 0..MaxPlays /\ drops \in 0..MaxDrops
  BY SyncAssumption DEF Init
<1> QED
  BY <1>1, <1>2 DEF Init, TypeOK, Shown

\* And every step of a user, the server, a browser or the network keeps them.
LEMMA TypeNext == TypeOK /\ [Next]_vars => TypeOK'
<1> SUFFICES ASSUME TypeOK, [Next]_vars PROVE TypeOK'
  OBVIOUS
<1>0. inbox \in [Browsers -> Seq(ToBrowser)] /\ outbox \in [Browsers -> Seq(ToServer)]
  BY DEF TypeOK
<1>1. CASE UNCHANGED vars
  BY <1>1 DEF vars, server, viewers, bounds, TypeOK
<1>2. ASSUME NEW b \in Browsers, NEW m \in Media, OpenMedia(b, m) PROVE TypeOK'
  <2>1. opened' \in 0..MaxOpened
    BY <1>2, SyncAssumption DEF OpenMedia, TypeOK
  <2>2. opening' \in [Browsers -> SUBSET Media] /\ strayed' \subseteq Browsers
    BY <1>2 DEF OpenMedia, Strays, TypeOK
  <2> QED
    BY <1>2, <2>1, <2>2 DEF OpenMedia, server, TypeOK
<1>3. ASSUME NEW b \in Browsers, NEW m \in Media, Opened(b, m) PROVE TypeOK'
  <2>1. [type |-> "sync_update", media |-> m] \in ToServer /\ m \in Shown
    BY DEF ToServer, Shown
  <2>2. outbox' \in [Browsers -> Seq(ToServer)]
    <3>1. outbox' = outbox \/ outbox' = Sent(outbox, {b}, [type |-> "sync_update", media |-> m])
      BY <1>3 DEF Opened
    <3> QED
      BY <1>0, <2>1, <3>1, SentIsTyped
  <2>3. posted' \in [Browsers -> Shown]
    <3>1. posted' = posted \/ posted' = [posted EXCEPT ![b] = m]
      BY <1>3 DEF Opened
    <3> QED
      BY <2>1, <3>1 DEF TypeOK
  <2>4. shown' \in [Browsers -> Shown] /\ opening' \in [Browsers -> SUBSET Media]
    <3>1. PICK others \in SUBSET (opening[b] \ {m}) : opening' = [opening EXCEPT ![b] = others]
      BY <1>3 DEF Opened
    <3>2. others \in SUBSET Media
      BY <3>1 DEF TypeOK
    <3>3. opening' \in [Browsers -> SUBSET Media]
      BY <3>1, <3>2 DEF TypeOK
    <3>4. shown' \in [Browsers -> Shown]
      BY <1>3, <2>1 DEF Opened, TypeOK
    <3> QED
      BY <3>3, <3>4
  <2> QED
    BY <1>3, <2>2, <2>3, <2>4 DEF Opened, server, bounds, TypeOK
<1>4. ASSUME NEW b \in Browsers, CloseViewer(b) PROVE TypeOK'
  <2>1. opened' \in 0..MaxOpened
    BY <1>4, SyncAssumption DEF CloseViewer, TypeOK
  <2>2. closing' \subseteq Browsers /\ strayed' \subseteq Browsers
    BY <1>4 DEF CloseViewer, Strays, TypeOK
  <2> QED
    BY <1>4, <2>1, <2>2 DEF CloseViewer, server, TypeOK
<1>5. ASSUME NEW b \in Browsers, Closed(b) PROVE TypeOK'
  BY <1>5 DEF Closed, server, bounds, Shown, TypeOK
<1>6. ASSUME NEW b \in Browsers, SendPlayback(b) PROVE TypeOK'
  <2>1. [type |-> "playback_sync", media |-> shown[b]] \in ToServer
    BY <1>6 DEF SendPlayback, ToServer, Shown, TypeOK
  <2>2. outbox' \in [Browsers -> Seq(ToServer)]
    BY <1>0, <1>6, <2>1, SentIsTyped DEF SendPlayback
  <2>3. plays' \in 0..MaxPlays
    BY <1>6, SyncAssumption DEF SendPlayback, TypeOK
  <2> QED
    BY <1>6, <2>2, <2>3 DEF SendPlayback, server, viewers, TypeOK
<1>7. ASSUME NEW b \in Browsers, Press(b) PROVE TypeOK'
  <2>1. [type |-> "leave_sync"] \in ToServer
    BY DEF ToServer
  <2>2. outbox' = outbox \/ outbox' = Sent(outbox, {b}, [type |-> "leave_sync"])
    BY <1>7 DEF Press
  <2>3. outbox' \in [Browsers -> Seq(ToServer)]
    BY <1>0, <2>1, <2>2, SentIsTyped
  <2>4. toggling' \in [Browsers -> {Nothing} \cup Status \cup [enable: BOOLEAN, media: Shown]]
    <3>1. \/ toggling' = toggling
          \/ toggling' = [toggling EXCEPT ![b] = [enable |-> mode[b] = "off", media |-> shown[b]]]
      BY <1>7 DEF Press, TypeOK
    <3>2. [enable |-> mode[b] = "off", media |-> shown[b]] \in [enable: BOOLEAN, media: Shown]
      BY DEF TypeOK
    <3> QED
      BY <3>1, <3>2 DEF TypeOK
  <2>5. presses' \in 0..MaxPresses
    BY <1>7, SyncAssumption DEF Press, TypeOK
  <2>6. mode' \in [Browsers -> {"off", "guest", "host"}] /\ listening' \subseteq Browsers
    BY <1>7 DEF Press, TypeOK
  <2> QED
    BY <1>7, <2>3, <2>4, <2>5, <2>6 DEF Press, server, viewers, TypeOK
<1>8. ASSUME NEW bs, NEW m \in Shown, Names(bs, m) PROVE played' \in [Browsers -> Shown]
  BY <1>8 DEF Names, TypeOK
<1>9. ASSUME NEW b \in Browsers, ToggleSync(b) PROVE TypeOK'
  <2>1. /\ enabled' \in BOOLEAN /\ host_session_id' \in Browsers \cup {Nothing}
        /\ current_media' \in Shown /\ played' \in [Browsers -> Shown]
    BY <1>9, <1>8 DEF ToggleSync, Broadcast, server, Shown, TypeOK
  <2>2. toggling' \in [Browsers -> {Nothing} \cup Status \cup [enable: BOOLEAN, media: Shown]]
    <3>1. toggling' = [toggling EXCEPT ![b] = [active |-> enabled',
                                               is_host |-> enabled' /\ b = host_session_id']]
      BY <1>9 DEF ToggleSync, StatusOf, TypeOK
    <3> QED
      BY <2>1, <3>1 DEF Status, TypeOK
  <2>3. inbox' \in [Browsers -> Seq(ToBrowser)] /\ lost' \subseteq Browsers
    <3>1. CASE UNCHANGED <<inbox, lost>>
      BY <3>1 DEF TypeOK
    <3>2. CASE Broadcast([type |-> "sync_disabled"])
      BY <1>0, <3>2, SentIsTyped DEF Broadcast, ToBrowser, TypeOK
    <3>3. CASE /\ toggling[b] \in [enable: BOOLEAN, media: Shown]
               /\ Broadcast([type |-> "sync_enabled", host |-> b, media |-> toggling[b].media])
      <4>1. [type |-> "sync_enabled", host |-> b, media |-> toggling[b].media] \in ToBrowser
        BY <3>3 DEF ToBrowser
      <4> QED
        BY <1>0, <3>3, <4>1, SentIsTyped DEF Broadcast, TypeOK
    <3> QED
      BY <1>9, <3>1, <3>2, <3>3 DEF ToggleSync, TypeOK
  <2> QED
    BY <1>9, <2>1, <2>2, <2>3 DEF ToggleSync, viewers, bounds, TypeOK
<1>10. ASSUME NEW b \in Browsers, GetStatus(b) PROVE TypeOK'
  BY <1>10 DEF GetStatus, StatusOf, Status, server, viewers, bounds, TypeOK
<1>11. ASSUME NEW b \in Browsers, NEW m \in Shown, UpdateCurrentMedia(b, m)
      PROVE  /\ current_media' \in Shown /\ inbox' \in [Browsers -> Seq(ToBrowser)]
             /\ played' \in [Browsers -> Shown]
  <2>1. State(m) \in ToBrowser
    BY DEF State, ToBrowser, TypeOK
  <2>2. current_media' \in Shown
    BY <1>11 DEF UpdateCurrentMedia, TypeOK
  <2>3. inbox' = inbox \/ inbox' = Sent(inbox, room, State(m))
    BY <1>11 DEF UpdateCurrentMedia
  <2>4. played' \in [Browsers -> Shown]
    BY <1>11, <1>8 DEF UpdateCurrentMedia, Shown, TypeOK
  <2> QED
    BY <1>0, <2>1, <2>2, <2>3, <2>4, SentIsTyped
<1>12. ASSUME NEW b \in Browsers, HttpUpdate(b) PROVE TypeOK'
  BY <1>11, <1>12 DEF HttpUpdate, viewers, bounds, Shown, TypeOK
<1>13. ASSUME NEW b \in Browsers, NEW type, Receives(b, type), Received(b)
       PROVE  outbox' \in [Browsers -> Seq(ToServer)]
  BY <1>0, <1>13, TailIsTyped DEF Receives, Received
<1>14. ASSUME NEW b \in Browsers, HandleJoin(b) PROVE TypeOK'
  <2>1. State(current_media) \in ToBrowser
    BY DEF State, ToBrowser, TypeOK
  <2>2. inbox' \in [Browsers -> Seq(ToBrowser)]
    BY <1>0, <1>14, <2>1, SentIsTyped DEF HandleJoin
  <2>3. room' \subseteq online
    BY <1>14 DEF HandleJoin, Receives, TypeOK
  <2>4. played' \in [Browsers -> Shown]
    BY <1>14, <1>8 DEF HandleJoin, Shown, TypeOK
  <2> QED
    BY <1>13, <1>14, <2>2, <2>3, <2>4 DEF HandleJoin, viewers, bounds, TypeOK
<1>15. ASSUME NEW b \in Browsers, HandleLeave(b) PROVE TypeOK'
  BY <1>13, <1>15 DEF HandleLeave, server, viewers, bounds, TypeOK
<1>16. ASSUME NEW b \in Browsers, HandleUpdate(b) PROVE TypeOK'
  <2>1. Head(outbox[b]).media \in Shown
    <3>1. Head(outbox[b]) \in ToServer /\ Head(outbox[b]).type = "sync_update"
      BY <1>16 DEF HandleUpdate, Receives, TypeOK
    <3> QED
      BY <3>1 DEF ToServer, Shown, TypeOK
  <2> QED
    BY <1>11, <1>13, <1>16, <2>1 DEF HandleUpdate, viewers, bounds, TypeOK
<1>17. ASSUME NEW b \in Browsers, HandlePlayback(b) PROVE TypeOK'
  <2>1. Head(outbox[b]) \in ToBrowser /\ Head(outbox[b]).media \in Shown
    <3>1. Head(outbox[b]) \in ToServer /\ Head(outbox[b]).type = "playback_sync"
      BY <1>17 DEF HandlePlayback, Receives, TypeOK
    <3> QED
      BY <3>1 DEF ToServer, ToBrowser, Shown
  <2>2. inbox' \in [Browsers -> Seq(ToBrowser)]
    <3>1. inbox' = inbox \/ inbox' = Sent(inbox, room \ {b}, Head(outbox[b]))
      BY <1>17 DEF HandlePlayback
    <3> QED
      BY <1>0, <2>1, <3>1, SentIsTyped
  <2>3. played' \in [Browsers -> Shown]
    BY <1>8, <1>17, <2>1 DEF HandlePlayback, TypeOK
  <2> QED
    BY <1>13, <1>17, <2>2, <2>3 DEF HandlePlayback, viewers, bounds, TypeOK
<1>18. ASSUME NEW b \in Browsers, ToggleAnswered(b) PROVE TypeOK'
  BY <1>18 DEF ToggleAnswered, ModeOf, server, viewers, bounds, TypeOK
<1>19. ASSUME NEW b \in Browsers, StatusAnswered(b) PROVE TypeOK'
  <2>1. outbox' \in [Browsers -> Seq(ToServer)]
    BY <1>0, <1>19, SentIsTyped DEF StatusAnswered, Join, ToServer
  <2>2. mode' \in [Browsers -> {"off", "guest", "host"}]
    BY <1>19 DEF StatusAnswered, ModeOf, TypeOK
  <2> QED
    BY <1>19, <2>1, <2>2 DEF StatusAnswered, server, viewers, bounds, TypeOK
<1>20. ASSUME NEW b \in Browsers, NEW m \in Shown, Follows(b, m)
       PROVE  /\ lost' \subseteq Browsers /\ shown' \in [Browsers -> Shown]
              /\ opening' \in [Browsers -> SUBSET Media]
              /\ closing' \subseteq Browsers /\ strayed' \subseteq Browsers
  <2>1. lost' \subseteq Browsers /\ shown' = shown
    BY <1>20 DEF Follows, TypeOK
  <2>2. CASE m = shown[b]
    BY <1>20, <2>1, <2>2 DEF Follows, TypeOK
  <2>3. CASE m # shown[b] /\ m = Nothing
    <3>1. /\ opening' = opening
          /\ closing' = closing \cup {b} \/ closing' = closing
          /\ strayed' = strayed \cup {b} \/ strayed' = strayed \ {b}
      BY <1>20, <2>3 DEF Follows
    <3> QED
      BY <2>1, <3>1 DEF TypeOK
  <2>4. CASE m # shown[b] /\ m # Nothing
    <3>1. /\ opening' = [opening EXCEPT ![b] = @ \cup {m}]
          /\ closing' = closing /\ strayed' = strayed \ {b}
      BY <1>20, <2>4 DEF Follows
    <3> QED
      BY <2>1, <2>4, <3>1 DEF Shown, TypeOK
  <2> QED
    BY <2>2, <2>3, <2>4
<1>21. ASSUME NEW b \in Browsers, NEW type, Handles(b, type), Handled(b)
       PROVE  inbox' \in [Browsers -> Seq(ToBrowser)] /\ Head(inbox[b]) \in ToBrowser
  BY <1>0, <1>21, TailIsTyped DEF Handles, Handled
<1>22. ASSUME NEW b \in Browsers, OnSyncEnabled(b) PROVE TypeOK'
  <2>1. inbox' \in [Browsers -> Seq(ToBrowser)] /\ Head(inbox[b]).media \in Shown
    <3>1. /\ inbox' \in [Browsers -> Seq(ToBrowser)] /\ Head(inbox[b]) \in ToBrowser
          /\ Head(inbox[b]).type = "sync_enabled"
      BY <1>21, <1>22 DEF OnSyncEnabled, Handles, TypeOK
    <3> QED
      BY <3>1 DEF ToBrowser, TypeOK
  <2>2. outbox' \in [Browsers -> Seq(ToServer)]
    BY <1>0, <1>22, SentIsTyped DEF OnSyncEnabled, Ignores, Join, ToServer
  <2>3. mode' \in [Browsers -> {"off", "guest", "host"}]
    BY <1>22 DEF OnSyncEnabled, Ignores, TypeOK
  <2>4. /\ lost' \subseteq Browsers /\ shown' \in [Browsers -> Shown]
        /\ opening' \in [Browsers -> SUBSET Media]
        /\ closing' \subseteq Browsers /\ strayed' \subseteq Browsers
    BY <1>20, <1>22, <2>1 DEF OnSyncEnabled, Ignores, viewers, TypeOK
  <2> QED
    BY <1>22, <2>1, <2>2, <2>3, <2>4 DEF OnSyncEnabled, server, bounds, TypeOK
<1>23. ASSUME NEW b \in Browsers, OnSyncState(b) PROVE TypeOK'
  <2>1. inbox' \in [Browsers -> Seq(ToBrowser)] /\ Head(inbox[b]).media \in Shown
    <3>1. /\ inbox' \in [Browsers -> Seq(ToBrowser)] /\ Head(inbox[b]) \in ToBrowser
          /\ Head(inbox[b]).type \in {"sync_state", "playback_sync"}
      BY <1>21, <1>23 DEF OnSyncState, Handles, TypeOK
    <3> QED
      BY <3>1 DEF ToBrowser, Shown, TypeOK
  <2>2. /\ lost' \subseteq Browsers /\ shown' \in [Browsers -> Shown]
        /\ opening' \in [Browsers -> SUBSET Media] /\ UNCHANGED <<mode, outbox>>
        /\ closing' \subseteq Browsers /\ strayed' \subseteq Browsers
    BY <1>20, <1>23, <2>1 DEF OnSyncState, Ignores, viewers, TypeOK
  <2> QED
    BY <1>23, <2>1, <2>2 DEF OnSyncState, server, bounds, TypeOK
<1>24. ASSUME NEW b \in Browsers, OnSyncDisabled(b) PROVE TypeOK'
  BY <1>21, <1>24 DEF OnSyncDisabled, server, viewers, bounds, TypeOK
<1>25. ASSUME NEW b \in Browsers, Disconnected(b)
       PROVE  /\ inbox' \in [Browsers -> Seq(ToBrowser)]
              /\ outbox' \in [Browsers -> Seq(ToServer)]
              /\ room' \subseteq online \ {b} /\ lost' \subseteq Browsers
              /\ drops' \in 0..MaxDrops
  BY <1>25, SyncAssumption DEF Disconnected, TypeOK
<1>26. ASSUME NEW b \in Browsers, Drop(b) PROVE TypeOK'
  BY <1>25, <1>26 DEF Drop, server, viewers, TypeOK
<1>27. ASSUME NEW b \in Browsers, Reload(b) PROVE TypeOK'
  BY <1>25, <1>27 DEF Reload, server, Shown, TypeOK
<1>28. ASSUME NEW b \in Browsers, Reconnect(b) PROVE TypeOK'
  <2>1. outbox' \in [Browsers -> Seq(ToServer)]
    BY <1>0, <1>28, SentIsTyped DEF Reconnect, Join, ToServer
  <2> QED
    BY <1>28, <2>1 DEF Reconnect, server, viewers, bounds, TypeOK
<1>29. ASSUME NEW b \in Browsers, ConnectionError(b) PROVE TypeOK'
  BY <1>29 DEF ConnectionError, server, viewers, bounds, TypeOK
<1> QED
  BY <1>1, <1>2, <1>3, <1>4, <1>5, <1>6, <1>7, <1>9, <1>10, <1>12, <1>14, <1>15, <1>16,
     <1>17, <1>18, <1>19, <1>22, <1>23, <1>24, <1>26, <1>27, <1>28, <1>29 DEF Next

(* The server's state, the browsers' and all messages on their way keep their *)
(* types, and the room holds connected sockets only.                         *)
THEOREM SyncTyping == Spec => []TypeOK
  BY TypeInit, TypeNext, PTL DEF Spec

-----------------------------------------------------------------------------
(* Queues of announcements. *)

\* An announcement that is sent is the last one; anything else changes nothing.
LEMMA Appended ==
  ASSUME NEW queue \in Seq(ToBrowser), NEW on, NEW host, NEW message \in ToBrowser
  PROVE  /\ Announces(message) =>
               /\ IsTrue(message, on, host) => LastIsTrue(Append(queue, message), on, host)
               /\ ~Silent(Append(queue, message))
         /\ ~Announces(message) =>
               /\ LastIsTrue(queue, on, host) => LastIsTrue(Append(queue, message), on, host)
               /\ Silent(Append(queue, message)) => Silent(queue)
<1> DEFINE longer == Append(queue, message)
           n == Len(queue)
<1>1. /\ Len(longer) = n + 1 /\ n \in Nat
      /\ longer[n + 1] = message
      /\ \A i \in 1..n : longer[i] = queue[i]
  OBVIOUS
<1>2. ASSUME Announces(message), IsTrue(message, on, host) PROVE LastIsTrue(longer, on, host)
  <2>1. \A i \in 1..n : n + 1 \in i+1..n+1
    BY <1>1
  <2> QED
    BY <1>1, <1>2, <2>1 DEF LastIsTrue
<1>3. ASSUME Announces(message) PROVE ~Silent(longer)
  BY <1>1, <1>3 DEF Silent
<1>4. ASSUME ~Announces(message), LastIsTrue(queue, on, host) PROVE LastIsTrue(longer, on, host)
  <2> SUFFICES ASSUME NEW i \in 1..n+1, Announces(longer[i]),
                      \A j \in i+1..n+1 : ~Announces(longer[j])
               PROVE  IsTrue(longer[i], on, host)
    BY <1>1 DEF LastIsTrue
  <2>1. i \in 1..n
    BY <1>1, <1>4
  <2>2. \A j \in i+1..n : j \in i+1..n+1 /\ j \in 1..n
    BY <1>1, <2>1
  <2> QED
    BY <1>1, <1>4, <2>1, <2>2 DEF LastIsTrue
<1>5. ASSUME Silent(longer) PROVE Silent(queue)
  BY <1>1, <1>5 DEF Silent
<1> QED
  BY <1>2, <1>3, <1>4, <1>5

\* When a message has been handled, the rest of the queue has none, and then it was
\* the last one, or it has the same last one.
LEMMA Taken ==
  ASSUME NEW queue \in Seq(ToBrowser), NEW on, NEW host, queue # <<>>, LastIsTrue(queue, on, host)
  PROVE  /\ LastIsTrue(Tail(queue), on, host)
         /\ Silent(Tail(queue)) /\ Announces(Head(queue)) => IsTrue(Head(queue), on, host)
         /\ Silent(Tail(queue)) /\ ~Announces(Head(queue)) => Silent(queue)
<1> DEFINE rest == Tail(queue)
           n == Len(queue)
<1>1. /\ n \in Nat /\ n > 0 /\ Len(rest) = n - 1
      /\ Head(queue) = queue[1]
      /\ \A i \in 1..n-1 : rest[i] = queue[i+1]
  OBVIOUS
<1>2. \A j \in 2..n : j - 1 \in 1..n-1 /\ queue[j] = rest[j - 1]
  BY <1>1
<1>3. LastIsTrue(rest, on, host)
  <2> SUFFICES ASSUME NEW i \in 1..n-1, Announces(rest[i]),
                      \A j \in i+1..n-1 : ~Announces(rest[j])
               PROVE  IsTrue(rest[i], on, host)
    BY <1>1 DEF LastIsTrue
  <2>1. \A j \in (i+1)+1..n : j \in 2..n /\ j - 1 \in i+1..n-1
    BY <1>1
  <2>2. \A j \in (i+1)+1..n : ~Announces(queue[j])
    BY <1>2, <2>1
  <2>3. i + 1 \in 1..n /\ queue[i+1] = rest[i]
    BY <1>1
  <2> QED
    BY <2>2, <2>3 DEF LastIsTrue
<1>4. ASSUME Silent(rest) PROVE \A j \in 2..n : ~Announces(queue[j])
  BY <1>1, <1>2, <1>4 DEF Silent
<1>5. ASSUME Silent(rest), Announces(Head(queue)) PROVE IsTrue(Head(queue), on, host)
  <2>1. 1 \in 1..n /\ 1 + 1 = 2
    BY <1>1
  <2> QED
    BY <1>1, <1>4, <1>5, <2>1 DEF LastIsTrue
<1>6. ASSUME Silent(rest), ~Announces(Head(queue)) PROVE Silent(queue)
  <2>1. \A j \in 1..n : j = 1 \/ j \in 2..n
    BY <1>1
  <2> QED
    BY <1>1, <1>4, <1>6, <2>1 DEF Silent
<1> QED
  BY <1>3, <1>5, <1>6

-----------------------------------------------------------------------------
(* Who is the host. *)

\* Nobody is host when the server has started.
LEMMA HostInit == Init => HostInv
<1> SUFFICES ASSUME Init PROVE HostInv
  OBVIOUS
<1>1. TypeOK
  BY TypeInit
<1>2. \A b \in Browsers : inbox[b] = <<>> /\ LostIsLost(b)
  BY DEF Init, LostIsLost
<1>3. \A b \in Browsers : LastIsTrue(inbox[b], enabled, host_session_id)
  <2>1. Len(<<>>) = 0 /\ 1..0 = {}
    OBVIOUS
  <2> QED
    BY <1>2, <2>1 DEF LastIsTrue
<1>4. \A b \in Browsers : KnowsHost(b)
  BY SyncAssumption DEF Init, KnowsHost
<1> QED
  BY <1>1, <1>2, <1>3, <1>4 DEF HostInv

\* A step that announces nothing, and takes no message, leaves everybody as right
\* as before: at most a message about the media comes on top.
Quiet ==
    /\ UNCHANGED <<enabled, host_session_id, lost>>
    /\ online \subseteq online'
    /\ \A b \in Browsers :
         /\ \/ inbox'[b] = inbox[b]
            \/ b \in online /\ \E message \in ToBrowser :
                 ~Announces(message) /\ inbox'[b] = Append(inbox[b], message)
         /\ checking'[b] # Nothing => checking[b] # Nothing
         /\ toggling'[b] \in Status => toggling'[b] = toggling[b]
         /\ b \notin lost /\ mode'[b] = "host" =>
              mode[b] = "host" \/ (toggling[b] \in Status /\ ModeOf(toggling[b]) = "host")
LEMMA QuietKeeps == HostInv /\ TypeOK' /\ Quiet => HostInv'
<1> SUFFICES ASSUME HostInv, TypeOK', Quiet PROVE HostInv'
  OBVIOUS
<1>1. ASSUME NEW b \in Browsers
      PROVE  /\ LastIsTrue(inbox'[b], enabled, host_session_id)
             /\ Silent(inbox'[b]) => Silent(inbox[b])
  <2>1. inbox[b] \in Seq(ToBrowser) /\ LastIsTrue(inbox[b], enabled, host_session_id)
    BY DEF HostInv, TypeOK
  <2>2. CASE inbox'[b] = inbox[b]
    BY <2>1, <2>2
  <2>3. ASSUME NEW message \in ToBrowser, ~Announces(message),
               inbox'[b] = Append(inbox[b], message)
        PROVE  /\ LastIsTrue(inbox'[b], enabled, host_session_id)
               /\ Silent(inbox'[b]) => Silent(inbox[b])
    BY <2>1, <2>3, Appended
  <2> QED
    BY <2>2, <2>3 DEF Quiet
<1>2. \A b \in Browsers : LastIsTrue(inbox[b], enabled, host_session_id)'
  BY <1>1 DEF Quiet
<1>3. \A b \in Browsers : LostIsLost(b)'
  BY DEF HostInv, Quiet, LostIsLost
<1>4. ASSUME NEW b \in Browsers \ lost' PROVE KnowsHost(b)'
  <2>1. KnowsHost(b) /\ b \notin lost
    BY DEF HostInv, Quiet
  <2>2. Silent(inbox'[b]) => Silent(inbox[b])
    BY <1>1
  <2>3. IsHost(b)' <=> IsHost(b)
    BY DEF Quiet, IsHost
  <2>4. /\ mode'[b] = "host" =>
             mode[b] = "host" \/ (toggling[b] \in Status /\ ModeOf(toggling[b]) = "host")
        /\ toggling'[b] \in Status => toggling'[b] = toggling[b]
    BY <2>1 DEF Quiet
  <2> QED
    BY <2>1, <2>2, <2>3, <2>4 DEF KnowsHost, Silent
<1> QED
  BY <1>2, <1>3, <1>4 DEF HostInv

\* A toggle that succeeds is announced to everybody who has lost nothing, and its
\* answer says who is the host now.
LEMMA ToggleKeeps ==
  ASSUME HostInv, TypeOK', NEW b \in Browsers, ToggleSync(b)
  PROVE  HostInv'
<1>1. \/ UNCHANGED <<enabled, host_session_id, inbox, lost>>
      \/ \E message \in ToBrowser :
           Announces(message) /\ IsTrue(message, enabled, host_session_id)' /\ Broadcast(message)
  <2>1. CASE /\ enabled' = TRUE /\ host_session_id' = b
             /\ toggling[b] \in [enable: BOOLEAN, media: Shown]
             /\ Broadcast([type |-> "sync_enabled", host |-> b, media |-> toggling[b].media])
    <3> DEFINE message == [type |-> "sync_enabled", host |-> b, media |-> toggling[b].media]
    <3>1. message \in ToBrowser
      BY <2>1 DEF ToBrowser
    <3>2. Announces(message) /\ IsTrue(message, enabled', host_session_id')
      BY <2>1 DEF Announces, IsTrue
    <3> QED
      BY <2>1, <3>1, <3>2 DEF IsTrue
  <2>2. CASE enabled' = FALSE /\ Broadcast([type |-> "sync_disabled"])
    <3> DEFINE message == [type |-> "sync_disabled"]
    <3>1. message \in ToBrowser
      BY DEF ToBrowser
    <3>2. Announces(message) /\ IsTrue(message, enabled', host_session_id')
      BY <2>2 DEF Announces, IsTrue
    <3> QED
      BY <2>2, <3>1, <3>2 DEF IsTrue
  <2> QED
    BY <2>1, <2>2 DEF ToggleSync, server
<1>2. /\ UNCHANGED <<online, mode, checking>>
      /\ toggling' = [toggling EXCEPT ![b] = [active |-> enabled', is_host |-> IsHost(b)']]
  BY DEF ToggleSync, StatusOf, IsHost
<1>3. \A c \in Browsers : inbox[c] \in Seq(ToBrowser)
  BY DEF HostInv, TypeOK
<1>4. CASE UNCHANGED <<enabled, host_session_id, inbox, lost>>
  <2>1. \A c \in Browsers : LastIsTrue(inbox[c], enabled, host_session_id)'
    BY <1>4 DEF HostInv
  <2>2. \A c \in Browsers : LostIsLost(c)'
    BY <1>2, <1>4 DEF HostInv, LostIsLost
  <2>3. ASSUME NEW c \in Browsers \ lost' PROVE KnowsHost(c)'
    <3>1. KnowsHost(c)
      BY <1>4 DEF HostInv
    <3>2. CASE c # b
      <4>1. toggling'[c] = toggling[c] /\ mode'[c] = mode[c] /\ inbox'[c] = inbox[c]
        BY <1>2, <1>4, <3>2 DEF HostInv, TypeOK
      <4>2. IsHost(c)' <=> IsHost(c)
        BY <1>4 DEF IsHost
      <4> QED
        BY <3>1, <4>1, <4>2 DEF KnowsHost, Silent
    <3>3. CASE c = b
      <4>1. toggling'[c] = [active |-> enabled', is_host |-> IsHost(c)']
        BY <1>2, <3>3 DEF HostInv, TypeOK
      <4>2. ModeOf(toggling'[c]) = "host" => IsHost(c)'
        BY <4>1 DEF ModeOf
      <4>3. mode'[c] = mode[c] /\ inbox'[c] = inbox[c] /\ (IsHost(c)' <=> IsHost(c))
        BY <1>2, <1>4 DEF IsHost
      <4> QED
        BY <3>1, <4>2, <4>3 DEF KnowsHost, Silent
    <3> QED
      BY <3>2, <3>3
  <2> QED
    BY <2>1, <2>2, <2>3 DEF HostInv
<1>5. ASSUME NEW message \in ToBrowser, Announces(message),
             IsTrue(message, enabled, host_session_id)', Broadcast(message)
      PROVE  HostInv'
  <2>1. ASSUME NEW c \in online
        PROVE  /\ LastIsTrue(inbox'[c], enabled', host_session_id')
               /\ ~Silent(inbox'[c])
    <3>1. c \in Browsers
      BY DEF HostInv, TypeOK
    <3>2. inbox'[c] = Append(inbox[c], message)
      BY <1>5, <3>1 DEF Broadcast, Sent
    <3>3. IsTrue(message, enabled', host_session_id')
      BY <1>5 DEF IsTrue
    <3> QED
      BY <1>3, <1>5, <3>1, <3>2, <3>3, Appended
  <2>2. ASSUME NEW c \in Browsers \ online
        PROVE  inbox'[c] = <<>> /\ c \in lost'
    BY <1>5, <2>2 DEF Broadcast, Sent, HostInv, LostIsLost
  <2>3. \A c \in Browsers : LastIsTrue(inbox'[c], enabled', host_session_id')
    <3>1. LastIsTrue(<<>>, enabled', host_session_id')
      <4>1. Len(<<>>) = 0 /\ 1..0 = {}
        OBVIOUS
      <4> QED
        BY <4>1 DEF LastIsTrue
    <3> QED
      BY <2>1, <2>2, <3>1
  <2>4. \A c \in Browsers : LostIsLost(c)'
    BY <1>2, <1>5, <2>2 DEF Broadcast, HostInv, LostIsLost
  <2>5. \A c \in Browsers \ lost' : KnowsHost(c)'
    BY <2>1, <2>2 DEF KnowsHost, Silent
  <2> QED
    BY <2>3, <2>4, <2>5 DEF HostInv
<1> QED
  BY <1>1, <1>4, <1>5

\* A browser that takes a message knows the host afterwards if it has lost nothing:
\* it has become host by the announcement that it is.
LEMMA TakingKeeps ==
  ASSUME HostInv, TypeOK', NEW b \in Browsers, inbox[b] # <<>>, Handled(b),
         UNCHANGED <<enabled, host_session_id, online, toggling, checking>>,
         \A c \in Browsers \ {b} : mode'[c] = mode[c],
         lost' \ {b} = lost \ {b},
         b \notin lost' => Undisturbed(b),
         b \notin lost' /\ mode'[b] = "host" =>
             Head(inbox[b]).type = "sync_enabled" /\ Head(inbox[b]).host = b
  PROVE  HostInv'
<1>1. /\ inbox'[b] = Tail(inbox[b])
      /\ \A c \in Browsers \ {b} : inbox'[c] = inbox[c]
  BY DEF Handled, HostInv, TypeOK
<1>2. /\ LastIsTrue(Tail(inbox[b]), enabled, host_session_id)
      /\ Silent(Tail(inbox[b])) /\ Announces(Head(inbox[b])) =>
           IsTrue(Head(inbox[b]), enabled, host_session_id)
  <2>1. inbox[b] \in Seq(ToBrowser) /\ LastIsTrue(inbox[b], enabled, host_session_id)
    BY DEF HostInv, TypeOK
  <2> QED
    BY <2>1, Taken
<1>3. \A c \in Browsers : LastIsTrue(inbox'[c], enabled', host_session_id')
  BY <1>1, <1>2 DEF HostInv
<1>4. \A c \in Browsers : LostIsLost(c)'
  BY <1>1 DEF HostInv, LostIsLost, Undisturbed
<1>5. ASSUME NEW c \in Browsers \ lost' PROVE KnowsHost(c)'
  <2>1. CASE c # b
    <3>1. KnowsHost(c)
      BY <2>1 DEF HostInv
    <3>2. inbox'[c] = inbox[c] /\ mode'[c] = mode[c] /\ (IsHost(c)' <=> IsHost(c))
      BY <1>1, <2>1 DEF IsHost
    <3> QED
      BY <3>1, <3>2 DEF KnowsHost, Silent
  <2>2. CASE c = b
    <3>1. toggling'[b] = Nothing /\ Nothing \notin Status
      BY <2>2, SyncAssumption DEF Undisturbed
    <3>2. ASSUME Silent(inbox'[b]), mode'[b] = "host" PROVE IsHost(b)'
      <4>1. Announces(Head(inbox[b])) /\ Head(inbox[b]).host = b
        BY <2>2, <3>2 DEF Announces
      <4>2. IsTrue(Head(inbox[b]), enabled, host_session_id)
        BY <1>1, <1>2, <3>2, <4>1
      <4> QED
        BY <2>2, <3>2, <4>1, <4>2 DEF IsTrue, IsHost
    <3> QED
      BY <2>2, <3>1, <3>2 DEF KnowsHost, Silent
  <2> QED
    BY <2>1, <2>2
<1> QED
  BY <1>3, <1>4, <1>5 DEF HostInv

\* Every step keeps what is known about the host.
LEMMA HostNext == HostInv /\ [Next]_vars => HostInv'
<1> SUFFICES ASSUME HostInv, [Next]_vars PROVE HostInv'
  OBVIOUS
<1>0. TypeOK'
  BY TypeNext DEF HostInv
<1>1. TypeOK /\ Nothing \notin Status /\ Asked # Nothing
  BY SyncAssumption DEF HostInv
<1>2. CASE UNCHANGED vars
  BY <1>0, <1>2, QuietKeeps DEF vars, server, Quiet
<1>3. ASSUME NEW b \in Browsers, NEW m \in Media, OpenMedia(b, m) \/ Opened(b, m) PROVE HostInv'
  BY <1>0, <1>3, QuietKeeps DEF OpenMedia, Opened, server, bounds, Quiet
<1>4. ASSUME NEW b \in Browsers, CloseViewer(b) \/ Closed(b) \/ SendPlayback(b) PROVE HostInv'
  BY <1>0, <1>4, QuietKeeps DEF CloseViewer, Closed, SendPlayback, server, bounds, Quiet
<1>5. ASSUME NEW b \in Browsers, Press(b) PROVE HostInv'
  <2>1. UNCHANGED <<enabled, host_session_id, lost, online, inbox, checking>>
    BY <1>5 DEF Press, server
  <2>2. \A c \in Browsers : mode'[c] = "host" => mode[c] = "host"
    BY <1>1, <1>5 DEF Press, TypeOK
  <2>3. \A c \in Browsers : toggling'[c] \in Status => toggling'[c] = toggling[c]
    <3>1. \/ toggling' = toggling
          \/ toggling' = [toggling EXCEPT ![b] = [enable |-> mode[b] = "off", media |-> shown[b]]]
      BY <1>5 DEF Press
    <3>2. [enable |-> mode[b] = "off", media |-> shown[b]] \notin Status
      BY DEF Status
    <3> QED
      BY <1>1, <3>1, <3>2 DEF TypeOK
  <2> QED
    BY <1>0, <2>1, <2>2, <2>3, QuietKeeps DEF Quiet
<1>6. ASSUME NEW b \in Browsers, ToggleSync(b) PROVE HostInv'
  BY <1>0, <1>6, ToggleKeeps
<1>7. ASSUME NEW b \in Browsers, GetStatus(b) PROVE HostInv'
  <2>1. \A c \in Browsers : checking'[c] # Nothing => checking[c] # Nothing
    BY <1>1, <1>7 DEF GetStatus, TypeOK
  <2> QED
    BY <1>0, <1>7, <2>1, QuietKeeps DEF GetStatus, server, bounds, Quiet
<1>8. ASSUME NEW b \in Browsers, NEW m \in Shown, UpdateCurrentMedia(b, m),
             UNCHANGED <<enabled, host_session_id, lost, online, mode, toggling, checking>>
      PROVE  HostInv'
  <2>1. inbox' = inbox \/ inbox' = Sent(inbox, room, State(m))
    BY <1>8 DEF UpdateCurrentMedia
  <2>2. \A c \in Browsers :
           inbox'[c] = inbox[c] \/ (c \in online /\ inbox'[c] = Append(inbox[c], State(m)))
    BY <1>1, <2>1 DEF Sent, TypeOK
  <2>3. State(m) \in ToBrowser /\ ~Announces(State(m))
    BY DEF State, ToBrowser, Announces
  <2> QED
    BY <1>0, <1>8, <2>2, <2>3, QuietKeeps DEF Quiet
<1>9. ASSUME NEW b \in Browsers, HttpUpdate(b) PROVE HostInv'
  BY <1>1, <1>8, <1>9 DEF HttpUpdate, TypeOK
<1>10. ASSUME NEW b \in Browsers, HandleJoin(b) PROVE HostInv'
  <2>1. inbox' = inbox \/ inbox' = Sent(inbox, {b}, State(current_media))
    BY <1>10 DEF HandleJoin
  <2>2. b \in online /\ current_media \in Shown
    BY <1>1, <1>10 DEF HandleJoin, Receives, TypeOK
  <2>3. \A c \in Browsers :
           \/ inbox'[c] = inbox[c]
           \/ c \in online /\ inbox'[c] = Append(inbox[c], State(current_media))
    BY <1>1, <2>1, <2>2 DEF Sent, TypeOK
  <2>4. State(current_media) \in ToBrowser /\ ~Announces(State(current_media))
    BY <2>2 DEF State, ToBrowser, Announces
  <2> QED
    BY <1>0, <1>10, <2>3, <2>4, QuietKeeps DEF HandleJoin, bounds, Quiet
<1>11. ASSUME NEW b \in Browsers, HandleLeave(b) PROVE HostInv'
  BY <1>0, <1>11, QuietKeeps DEF HandleLeave, server, bounds, Quiet
<1>12. ASSUME NEW b \in Browsers, HandleUpdate(b) PROVE HostInv'
  <2>1. Head(outbox[b]) \in ToServer /\ Head(outbox[b]).type = "sync_update"
    BY <1>1, <1>12 DEF HandleUpdate, Receives, TypeOK
  <2>2. Head(outbox[b]).media \in Shown
    BY <2>1 DEF ToServer, Shown
  <2> QED
    BY <1>8, <1>12, <2>2 DEF HandleUpdate
<1>13. ASSUME NEW b \in Browsers, HandlePlayback(b) PROVE HostInv'
  <2>1. inbox' = inbox \/ inbox' = Sent(inbox, room \ {b}, Head(outbox[b]))
    BY <1>13 DEF HandlePlayback
  <2>2. Head(outbox[b]) \in ToBrowser /\ ~Announces(Head(outbox[b]))
    <3>1. Head(outbox[b]) \in ToServer /\ Head(outbox[b]).type = "playback_sync"
      BY <1>1, <1>13 DEF HandlePlayback, Receives, TypeOK
    <3> QED
      BY <3>1 DEF ToServer, ToBrowser, Announces
  <2>3. \A c \in Browsers :
           \/ inbox'[c] = inbox[c]
           \/ c \in online /\ inbox'[c] = Append(inbox[c], Head(outbox[b]))
    BY <1>1, <2>1 DEF Sent, TypeOK
  <2> QED
    BY <1>0, <1>13, <2>2, <2>3, QuietKeeps DEF HandlePlayback, Quiet
<1>14. ASSUME NEW b \in Browsers, ToggleAnswered(b) PROVE HostInv'
  <2>1. \A c \in Browsers :
          /\ toggling'[c] \in Status => toggling'[c] = toggling[c]
          /\ mode'[c] = "host" =>
               mode[c] = "host" \/ (toggling[c] \in Status /\ ModeOf(toggling[c]) = "host")
    BY <1>1, <1>14 DEF ToggleAnswered, TypeOK
  <2> QED
    BY <1>0, <1>14, <2>1, QuietKeeps DEF ToggleAnswered, server, bounds, Quiet
<1>15. ASSUME NEW b \in Browsers, StatusAnswered(b) PROVE HostInv'
  <2>1. b \in lost
    BY <1>1, <1>15 DEF StatusAnswered, HostInv, LostIsLost
  <2>2. \A c \in Browsers :
          /\ checking'[c] # Nothing => checking[c] # Nothing
          /\ c \notin lost => mode'[c] = mode[c]
    BY <1>1, <1>15, <2>1 DEF StatusAnswered, TypeOK
  <2> QED
    BY <1>0, <1>15, <2>2, QuietKeeps DEF StatusAnswered, server, bounds, Quiet
<1>16. ASSUME NEW b \in Browsers, NEW m, Follows(b, m)
       PROVE  lost' \ {b} = lost \ {b} /\ (b \notin lost' => Undisturbed(b))
  BY <1>16 DEF Follows
<1>17. ASSUME NEW b \in Browsers, OnSyncEnabled(b) PROVE HostInv'
  <2>1. /\ inbox[b] # <<>> /\ Handled(b) /\ Head(inbox[b]).type = "sync_enabled"
        /\ UNCHANGED <<enabled, host_session_id, online, toggling, checking>>
    BY <1>17 DEF OnSyncEnabled, Handles, server
  <2>2. CASE Ignores(b)
    BY <1>0, <2>1, <2>2, TakingKeeps DEF Ignores
  <2>3. CASE /\ Head(inbox[b]).host = b /\ mode' = [mode EXCEPT ![b] = "host"]
             /\ lost' = IF Undisturbed(b) THEN lost \ {b} ELSE lost \cup {b}
    <3>1. \A c \in Browsers \ {b} : mode'[c] = mode[c]
      BY <1>1, <2>3 DEF TypeOK
    <3> QED
      BY <1>0, <2>1, <2>3, <3>1, TakingKeeps
  <2>4. CASE /\ mode' = [mode EXCEPT ![b] = "guest"]
             /\ \/ Follows(b, Head(inbox[b]).media)
                \/ lost' = IF Undisturbed(b) THEN lost ELSE lost \cup {b}
    <3>1. mode'[b] = "guest" /\ \A c \in Browsers \ {b} : mode'[c] = mode[c]
      BY <1>1, <2>4 DEF TypeOK
    <3>2. lost' \ {b} = lost \ {b} /\ (b \notin lost' => Undisturbed(b))
      BY <1>16, <2>4
    <3> QED
      BY <1>0, <2>1, <3>1, <3>2, TakingKeeps
  <2> QED
    BY <1>17, <2>2, <2>3, <2>4 DEF OnSyncEnabled
<1>18. ASSUME NEW b \in Browsers, OnSyncState(b) PROVE HostInv'
  <2>1. /\ inbox[b] # <<>> /\ Handled(b) /\ mode' = mode
        /\ UNCHANGED <<enabled, host_session_id, online, toggling, checking>>
        /\ Ignores(b) \/ (mode[b] = "guest" /\ Follows(b, Head(inbox[b]).media))
    BY <1>18 DEF OnSyncState, Handles, Ignores, server
  <2>2. CASE Ignores(b)
    BY <1>0, <2>1, <2>2, TakingKeeps DEF Ignores
  <2>3. CASE mode[b] = "guest" /\ Follows(b, Head(inbox[b]).media)
    <3>1. lost' \ {b} = lost \ {b} /\ (b \notin lost' => Undisturbed(b))
      BY <1>16, <2>3
    <3> QED
      BY <1>0, <2>1, <2>3, <3>1, TakingKeeps
  <2> QED
    BY <2>1, <2>2, <2>3
<1>19. ASSUME NEW b \in Browsers, OnSyncDisabled(b) PROVE HostInv'
  <2>1. /\ inbox[b] # <<>> /\ Handled(b)
        /\ UNCHANGED <<enabled, host_session_id, online, toggling, checking>>
        /\ \/ mode' = [mode EXCEPT ![b] = "off"]
              /\ lost' = IF Undisturbed(b) THEN lost ELSE lost \cup {b}
           \/ mode' = mode /\ lost' = lost \cup {b}
    BY <1>19 DEF OnSyncDisabled, Handles, server
  <2>2. CASE /\ mode' = [mode EXCEPT ![b] = "off"]
             /\ lost' = IF Undisturbed(b) THEN lost ELSE lost \cup {b}
    <3>1. mode'[b] = "off" /\ \A c \in Browsers \ {b} : mode'[c] = mode[c]
      BY <1>1, <2>2 DEF TypeOK
    <3> QED
      BY <1>0, <2>1, <2>2, <3>1, TakingKeeps
  <2>3. CASE mode' = mode /\ lost' = lost \cup {b}
    BY <1>0, <2>1, <2>3, TakingKeeps
  <2> QED
    BY <2>1, <2>2, <2>3
<1>20. ASSUME NEW b \in Browsers, Disconnected(b),
             UNCHANGED <<enabled, host_session_id, toggling>>,
             online \ {b} \subseteq online',
             \A c \in Browsers \ {b} : mode'[c] = mode[c] /\ checking'[c] = checking[c]
       PROVE  HostInv'
  <2>1. /\ inbox'[b] = <<>> /\ lost' = lost \cup {b}
        /\ \A c \in Browsers \ {b} : inbox'[c] = inbox[c]
    BY <1>1, <1>20 DEF Disconnected, TypeOK
  <2>2. LastIsTrue(<<>>, enabled, host_session_id)
    <3>1. Len(<<>>) = 0 /\ 1..0 = {}
      OBVIOUS
    <3> QED
      BY <3>1 DEF LastIsTrue
  <2>3. \A c \in Browsers : LastIsTrue(inbox'[c], enabled', host_session_id')
    BY <1>20, <2>1, <2>2 DEF HostInv
  <2>4. \A c \in Browsers : LostIsLost(c)'
    BY <1>20, <2>1 DEF HostInv, LostIsLost
  <2>5. ASSUME NEW c \in Browsers \ lost' PROVE KnowsHost(c)'
    <3>1. KnowsHost(c) /\ c # b
      BY <2>1 DEF HostInv
    <3>2. /\ inbox'[c] = inbox[c] /\ mode'[c] = mode[c] /\ toggling' = toggling
          /\ IsHost(c)' <=> IsHost(c)
      BY <1>20, <2>1, <3>1 DEF IsHost
    <3> QED
      BY <3>1, <3>2 DEF KnowsHost, Silent
  <2> QED
    BY <1>0, <2>3, <2>4, <2>5 DEF HostInv
<1>21. ASSUME NEW b \in Browsers, Drop(b) PROVE HostInv'
  BY <1>20, <1>21 DEF Drop, server
<1>22. ASSUME NEW b \in Browsers, Reload(b) PROVE HostInv'
  <2>1. \A c \in Browsers \ {b} : mode'[c] = mode[c] /\ checking'[c] = checking[c]
    BY <1>1, <1>22 DEF Reload, TypeOK
  <2> QED
    BY <1>20, <1>22, <2>1 DEF Reload, server
<1>23. ASSUME NEW b \in Browsers, Reconnect(b) PROVE HostInv'
  BY <1>0, <1>23, QuietKeeps DEF Reconnect, server, bounds, Quiet
<1>24. ASSUME NEW b \in Browsers, ConnectionError(b) PROVE HostInv'
  <2>1. \A c \in Browsers : mode'[c] = "host" => mode[c] = "host"
    BY <1>1, <1>24 DEF ConnectionError, TypeOK
  <2> QED
    BY <1>0, <1>24, <2>1, QuietKeeps DEF ConnectionError, server, bounds, Quiet
<1> QED
  BY <1>2, <1>3, <1>4, <1>5, <1>6, <1>7, <1>9, <1>10, <1>11, <1>12, <1>13, <1>14, <1>15,
     <1>17, <1>18, <1>19, <1>21, <1>22, <1>23, <1>24 DEF Next

\* A browser that takes itself for the host is the server's host, whatever toggles,
\* takeovers, reconnects and late answers came before, unless it has lost a message.
THEOREM Hosts == Spec => []HostsAreHosts
<1>1. HostInv => HostsAreHosts
  <2> SUFFICES ASSUME HostInv, NEW b \in Browsers \ lost, Settled(b), mode[b] = "host"
               PROVE  enabled /\ host_session_id = b
    BY DEF HostsAreHosts
  <2>1. Silent(inbox[b])
    <3>1. Len(<<>>) = 0 /\ 1..0 = {}
      OBVIOUS
    <3> QED
      BY <3>1 DEF Settled, Silent
  <2> QED
    BY <2>1 DEF HostInv, KnowsHost, IsHost
<1> QED
  BY <1>1, HostInit, HostNext, PTL DEF Spec

-----------------------------------------------------------------------------
(* Queues of media, and of joining and leaving the room. *)

Brings(message) == message.type \in {"sync_enabled", "sync_state", "playback_sync"}
Moves(message) == message.type \in {"join_sync", "leave_sync"}

\* The last message of a queue that brings a media brings m; or it has none.
LastMedia(queue, m) ==
    \A i \in 1..Len(queue) :
        Brings(queue[i]) /\ (\A j \in i+1..Len(queue) : ~Brings(queue[j]))
            => queue[i].media = m

\* A queue in which nobody joins or leaves the room, and one whose last word on it
\* is to leave.
Stays(queue) == \A i \in 1..Len(queue) : ~Moves(queue[i])
LeavesLast(queue) ==
    \E i \in 1..Len(queue) :
        queue[i].type = "leave_sync" /\ \A j \in i+1..Len(queue) : ~Moves(queue[j])

\* A message that is sent is the last one to bring a media, or does not bring any.
LEMMA MediaAppended ==
  ASSUME NEW queue \in Seq(ToBrowser), NEW m, NEW message \in ToBrowser,
         IF Brings(message) THEN message.media = m ELSE LastMedia(queue, m)
  PROVE  LastMedia(Append(queue, message), m)
<1> DEFINE longer == Append(queue, message)
           n == Len(queue)
<1>1. /\ Len(longer) = n + 1 /\ n \in Nat
      /\ longer[n + 1] = message
      /\ \A i \in 1..n : longer[i] = queue[i]
  OBVIOUS
<1> SUFFICES ASSUME NEW i \in 1..n+1, Brings(longer[i]),
                    \A j \in i+1..n+1 : ~Brings(longer[j])
             PROVE  longer[i].media = m
  BY <1>1 DEF LastMedia
<1>2. CASE i = n + 1
  BY <1>1, <1>2
<1>3. CASE i \in 1..n
  <2>1. n + 1 \in i+1..n+1 /\ \A j \in i+1..n : j \in i+1..n+1 /\ j \in 1..n
    BY <1>1, <1>3
  <2>2. ~Brings(message) /\ \A j \in i+1..n : ~Brings(queue[j])
    BY <1>1, <2>1
  <2>3. Brings(queue[i])
    BY <1>1, <1>3
  <2>4. queue[i].media = m
    BY <1>3, <2>2, <2>3 DEF LastMedia
  <2> QED
    BY <1>1, <1>3, <2>4
<1> QED
  BY <1>1, <1>2, <1>3

\* When a message has been handled, the rest of the queue has the same last media,
\* and if it is empty, it was the message's.
LEMMA MediaTaken ==
  ASSUME NEW queue \in Seq(ToBrowser), NEW m, queue # <<>>, LastMedia(queue, m)
  PROVE  /\ LastMedia(Tail(queue), m)
         /\ Tail(queue) = <<>> /\ Brings(Head(queue)) => Head(queue).media = m
<1> DEFINE rest == Tail(queue)
           n == Len(queue)
<1>1. /\ n \in Nat /\ n > 0 /\ Len(rest) = n - 1
      /\ Head(queue) = queue[1]
      /\ \A i \in 1..n-1 : rest[i] = queue[i+1]
  OBVIOUS
<1>2. \A j \in 2..n : j - 1 \in 1..n-1 /\ queue[j] = rest[j - 1]
  BY <1>1
<1>3. LastMedia(rest, m)
  <2> SUFFICES ASSUME NEW i \in 1..n-1, Brings(rest[i]),
                      \A j \in i+1..n-1 : ~Brings(rest[j])
               PROVE  rest[i].media = m
    BY <1>1 DEF LastMedia
  <2>1. \A j \in (i+1)+1..n : j \in 2..n /\ j - 1 \in i+1..n-1
    BY <1>1
  <2>2. \A j \in (i+1)+1..n : ~Brings(queue[j])
    BY <1>2, <2>1
  <2>3. i + 1 \in 1..n /\ queue[i+1] = rest[i]
    BY <1>1
  <2> QED
    BY <2>2, <2>3 DEF LastMedia
<1>4. ASSUME rest = <<>>, Brings(Head(queue)) PROVE Head(queue).media = m
  <2>1. n = 1
    <3>1. Len(<<>>) = 0
      OBVIOUS
    <3> HIDE DEF rest, n
    <3>2. Len(rest) = 0
      BY <1>4, <3>1, Zenon
    <3> QED
      BY <1>1, <3>2
  <2>2. 1 \in 1..n /\ \A j \in 1+1..n : ~Brings(queue[j])
    BY <2>1
  <2> QED
    BY <1>1, <1>4, <2>2 DEF LastMedia
<1> QED
  BY <1>3, <1>4

\* What is added to the messages to the server.
LEMMA MovesAppended ==
  ASSUME NEW queue \in Seq(ToServer), NEW message \in ToServer
  PROVE  /\ message.type = "leave_sync" => LeavesLast(Append(queue, message))
         /\ Moves(message) => ~Stays(Append(queue, message))
         /\ ~Moves(message) =>
              /\ Stays(Append(queue, message)) <=> Stays(queue)
              /\ LeavesLast(queue) => LeavesLast(Append(queue, message))
<1> DEFINE longer == Append(queue, message)
           n == Len(queue)
<1>1. /\ Len(longer) = n + 1 /\ n \in Nat
      /\ longer[n + 1] = message
      /\ \A i \in 1..n : longer[i] = queue[i]
  OBVIOUS
<1>2. ASSUME message.type = "leave_sync" PROVE LeavesLast(longer)
  <2>1. n + 1 \in 1..n+1 /\ (n+1)+1..n+1 = {}
    BY <1>1
  <2> QED
    BY <1>1, <1>2, <2>1 DEF LeavesLast
<1>3. ASSUME Moves(message) PROVE ~Stays(longer)
  BY <1>1, <1>3 DEF Stays
<1>4. ASSUME ~Moves(message) PROVE Stays(longer) <=> Stays(queue)
  <2>1. \A i \in 1..n+1 : i \in 1..n \/ i = n + 1
    BY <1>1
  <2>2. \A i \in 1..n : i \in 1..n+1
    BY <1>1
  <2> QED
    BY <1>1, <1>4, <2>1, <2>2 DEF Stays
<1>5. ASSUME ~Moves(message), LeavesLast(queue) PROVE LeavesLast(longer)
  <2>1. PICK i \in 1..n : queue[i].type = "leave_sync" /\ \A j \in i+1..n : ~Moves(queue[j])
    BY <1>5 DEF LeavesLast
  <2>2. \A j \in i+1..n+1 : j = n + 1 \/ (j \in i+1..n /\ j \in 1..n)
    BY <1>1, <2>1
  <2>3. i \in 1..n+1 /\ longer[i] = queue[i]
    BY <1>1, <2>1
  <2>4. \A j \in i+1..n+1 : ~Moves(longer[j])
    BY <1>1, <1>5, <2>1, <2>2
  <2> QED
    BY <1>1, <2>1, <2>3, <2>4 DEF LeavesLast
<1> QED
  BY <1>2, <1>3, <1>4, <1>5

\* What is left when the server has received one.
LEMMA MovesTaken ==
  ASSUME NEW queue \in Seq(ToServer), queue # <<>>
  PROVE  /\ Stays(queue) <=> Stays(Tail(queue)) /\ ~Moves(Head(queue))
         /\ LeavesLast(queue) =>
              LeavesLast(Tail(queue)) \/ (Head(queue).type = "leave_sync" /\ Stays(Tail(queue)))
<1> DEFINE rest == Tail(queue)
           n == Len(queue)
<1>1. /\ n \in Nat /\ n > 0 /\ Len(rest) = n - 1
      /\ Head(queue) = queue[1]
      /\ \A i \in 1..n-1 : rest[i] = queue[i+1]
  OBVIOUS
<1>2. \A j \in 2..n : j - 1 \in 1..n-1 /\ queue[j] = rest[j - 1]
  BY <1>1
<1>3. \A i \in 1..n-1 : i + 1 \in 2..n
  BY <1>1
<1>4. \A i \in 1..n : i = 1 \/ i \in 2..n
  BY <1>1
<1>5. Stays(rest) <=> \A i \in 2..n : ~Moves(queue[i])
  BY <1>1, <1>2, <1>3 DEF Stays
<1>6. Stays(queue) <=> Stays(rest) /\ ~Moves(Head(queue))
  <2>1. 1 \in 1..n /\ \A i \in 2..n : i \in 1..n
    BY <1>1
  <2> QED
    BY <1>1, <1>4, <1>5, <2>1 DEF Stays
<1>7. ASSUME LeavesLast(queue)
      PROVE  LeavesLast(rest) \/ (Head(queue).type = "leave_sync" /\ Stays(rest))
  <2>1. PICK i \in 1..n : queue[i].type = "leave_sync" /\ \A j \in i+1..n : ~Moves(queue[j])
    BY <1>7 DEF LeavesLast
  <2>2. CASE i = 1
    <3>1. 1 + 1 = 2
      OBVIOUS
    <3> QED
      BY <1>1, <1>5, <2>1, <2>2, <3>1
  <2>3. CASE i \in 2..n
    <3>1. i - 1 \in 1..n-1 /\ rest[i - 1].type = "leave_sync"
      BY <1>2, <2>1, <2>3
    <3>2. \A j \in (i-1)+1..n-1 : j + 1 \in i+1..n /\ rest[j] = queue[j + 1]
      BY <1>1, <2>3
    <3> QED
      BY <1>1, <2>1, <3>1, <3>2 DEF LeavesLast
  <2> QED
    BY <1>4, <2>1, <2>2, <2>3
<1> QED
  BY <1>6, <1>7

-----------------------------------------------------------------------------
(* What guests show. *)

\* The browser is not in the room, or has asked to leave it after all else.
Out(b) == LeavesLast(outbox[b]) \/ (Stays(outbox[b]) /\ b \notin room)

\* While a toggle is asked or answered the browser is no guest, and the answer is
\* true unless an announcement says otherwise.
AnswersAreTrue(b) ==
    toggling[b] # Nothing =>
        /\ mode[b] # "guest"
        /\ Silent(inbox[b]) /\ toggling[b] \in Status => toggling[b] = StatusOf(b)

\* Those who are neither guests nor the host do not stay in the room.
OthersAreOut(b) ==
    enabled /\ Silent(inbox[b]) => mode[b] = "guest" \/ host_session_id = b \/ Out(b)

\* A guest that has handled all it was sent, and has not strayed, shows the host's
\* media, or is about to open it and nothing else, or about to close its viewer.
AsHost(b) ==
    /\ opening[b] \subseteq {HostsMedia(b)}
    /\ b \in closing => HostsMedia(b) = Nothing /\ opening[b] = {}
    /\ opening[b] = {} /\ b \notin closing => shown[b] = HostsMedia(b)
GuestFollows(b) ==
    b \in room /\ enabled /\ mode[b] = "guest" /\ inbox[b] = <<>> /\ Stays(outbox[b])
        /\ b \notin strayed => AsHost(b)

MayFollow(b) ==
    /\ mode[b] = "guest" => b \in listening
    /\ enabled /\ b \in room => LastMedia(inbox[b], HostsMedia(b))
    /\ b \notin lost => AnswersAreTrue(b) /\ OthersAreOut(b) /\ GuestFollows(b)

RoomInv == HostInv /\ \A b \in Browsers : MayFollow(b)

\* An empty queue says nothing at all.
LEMMA NothingSaid == Silent(<<>>) /\ Stays(<<>>) /\ \A m : LastMedia(<<>>, m)
<1>1. Len(<<>>) = 0 /\ 1..0 = {}
  OBVIOUS
<1> QED
  BY <1>1 DEF Silent, Stays, LastMedia

\* A step that changes nothing of what a browser follows by leaves it a follower.
Same(b) ==
    /\ UNCHANGED <<enabled, host_session_id, current_media>>
    /\ inbox'[b] = inbox[b] /\ mode'[b] = mode[b] /\ toggling'[b] = toggling[b]
    /\ played'[b] = played[b]
    /\ b \in room' <=> b \in room
    /\ mode[b] = "guest" /\ b \notin strayed' =>
         /\ b \notin strayed /\ shown'[b] = shown[b] /\ opening'[b] = opening[b]
         /\ b \in closing' <=> b \in closing
    /\ Stays(outbox'[b]) <=> Stays(outbox[b])
    /\ LeavesLast(outbox[b]) => LeavesLast(outbox'[b])
    /\ b \in listening => b \in listening'
    /\ b \notin lost' => b \notin lost
LEMMA SameKeeps ==
  ASSUME NEW b \in Browsers, MayFollow(b), Same(b)
  PROVE  MayFollow(b)'
<1>1. (mode[b] = "guest" => b \in listening)'
  BY DEF MayFollow, Same
<1>0. HostsMedia(b)' = HostsMedia(b)
  BY DEF Same, HostsMedia
<1>2. (enabled /\ b \in room => LastMedia(inbox[b], HostsMedia(b)))'
  BY <1>0 DEF MayFollow, Same, LastMedia
<1>3. StatusOf(b)' = StatusOf(b) /\ (Silent(inbox[b])' <=> Silent(inbox[b]))
  BY DEF Same, StatusOf, Silent
<1>4. Stays(outbox'[b]) <=> Stays(outbox[b])'
  BY DEF Stays
<1>5. LeavesLast(outbox'[b]) <=> LeavesLast(outbox[b])'
  BY DEF LeavesLast
<1>6. ASSUME b \notin lost' PROVE (AnswersAreTrue(b) /\ OthersAreOut(b) /\ GuestFollows(b))'
  <2>1. AnswersAreTrue(b) /\ OthersAreOut(b) /\ GuestFollows(b)
    BY <1>6 DEF MayFollow, Same
  <2>2. AnswersAreTrue(b)'
    BY <1>3, <2>1 DEF AnswersAreTrue, Same
  <2>3. Out(b) => Out(b)'
    BY <1>4, <1>5 DEF Out, Same
  <2>4. OthersAreOut(b)'
    BY <1>3, <2>1, <2>3 DEF OthersAreOut, Same
  <2>5. GuestFollows(b)'
    BY <1>0, <1>4, <2>1 DEF GuestFollows, AsHost, Same
  <2> QED
    BY <2>2, <2>4, <2>5
<1> QED
  BY <1>1, <1>2, <1>6 DEF MayFollow

\* A media that the host sends reaches everybody in the room.
LEMMA UpdateKeeps ==
  ASSUME RoomInv, NEW b \in Browsers, NEW m \in Shown, UpdateCurrentMedia(b, m),
         UNCHANGED <<enabled, host_session_id, room, mode, listening, viewers, toggling, lost>>,
         \A c \in Browsers : /\ Stays(outbox'[c]) <=> Stays(outbox[c])
                             /\ LeavesLast(outbox[c]) => LeavesLast(outbox'[c]),
         NEW c \in Browsers
  PROVE  MayFollow(c)'
<1>1. MayFollow(c) /\ inbox[c] \in Seq(ToBrowser) /\ inbox \in [Browsers -> Seq(ToBrowser)]
  BY DEF RoomInv, HostInv, TypeOK
<1>2. CASE UNCHANGED <<current_media, inbox, played>>
  <2>1. Same(c)
    BY <1>2 DEF Same, viewers
  <2> QED
    BY <1>1, <2>1, SameKeeps
<1>3. CASE /\ current_media' = m /\ inbox' = Sent(inbox, room, State(m))
           /\ Names(room, Nothing)
  <2>1. /\ State(m) \in ToBrowser /\ Brings(State(m)) /\ State(m).media = m
        /\ ~Announces(State(m))
    BY DEF State, ToBrowser, Brings, Announces
  <2>2. inbox'[c] = IF c \in room THEN Append(inbox[c], State(m)) ELSE inbox[c]
    BY <1>3 DEF Sent
  <2>3. c \in room => LastMedia(inbox'[c], m) /\ inbox'[c] # <<>>
    <3>1. c \in room => inbox'[c] = Append(inbox[c], State(m))
      BY <2>2
    <3>2. LastMedia(Append(inbox[c], State(m)), m)
      BY <1>1, <2>1, MediaAppended
    <3>3. Append(inbox[c], State(m)) # <<>>
      BY <1>1
    <3> QED
      BY <3>1, <3>2, <3>3
  <2>4. Silent(inbox'[c]) => Silent(inbox[c])
    BY <1>1, <2>1, <2>2, Appended
  <2>5. (enabled /\ c \in room => LastMedia(inbox[c], HostsMedia(c)))'
    BY <1>3, <2>3 DEF LastMedia, Names, HostsMedia
  <2>6. Silent(inbox'[c]) <=> Silent(inbox[c])'
    BY DEF Silent
  <2>7. ASSUME c \notin lost' PROVE (AnswersAreTrue(c) /\ OthersAreOut(c) /\ GuestFollows(c))'
    <3>1. AnswersAreTrue(c) /\ OthersAreOut(c)
      BY <1>1, <2>7 DEF MayFollow
    <3>2. StatusOf(c)' = StatusOf(c)
      BY DEF StatusOf
    <3>3. AnswersAreTrue(c)'
      BY <2>4, <2>6, <3>1, <3>2 DEF AnswersAreTrue
    <3>4. Stays(outbox'[c]) <=> Stays(outbox[c])'
      BY DEF Stays
    <3>5. LeavesLast(outbox'[c]) <=> LeavesLast(outbox[c])'
      BY DEF LeavesLast
    <3>6. Out(c) => Out(c)'
      BY <3>4, <3>5 DEF Out
    <3>7. OthersAreOut(c)'
      BY <2>4, <2>6, <3>1, <3>6 DEF OthersAreOut
    <3>8. GuestFollows(c)'
      BY <2>3 DEF GuestFollows
    <3> QED
      BY <3>3, <3>7, <3>8
  <2> QED
    BY <1>1, <2>5, <2>7 DEF MayFollow
<1> QED
  BY <1>2, <1>3 DEF UpdateCurrentMedia

\* A toggle that succeeds is announced to all, with the new media; one that fails
\* is answered with the truth.
LEMMA ToggleFollows ==
  ASSUME RoomInv, NEW b \in Browsers, ToggleSync(b), NEW c \in Browsers
  PROVE  MayFollow(c)'
<1>1. /\ MayFollow(c) /\ inbox[c] \in Seq(ToBrowser) /\ inbox \in [Browsers -> Seq(ToBrowser)]
      /\ toggling \in [Browsers -> {Nothing} \cup Status \cup [enable: BOOLEAN, media: Shown]]
      /\ room \subseteq online /\ Nothing \notin [enable: BOOLEAN, media: Shown]
  BY SyncAssumption DEF RoomInv, HostInv, TypeOK
<1>2. /\ UNCHANGED <<room, online, mode, listening, viewers, outbox>>
      /\ toggling' = [toggling EXCEPT ![b] = StatusOf(b)']
      /\ toggling[b] # Nothing
  BY <1>1 DEF ToggleSync
<1>3. c \notin lost /\ toggling'[c] # Nothing => mode'[c] # "guest"
  BY <1>1, <1>2 DEF MayFollow, AnswersAreTrue
<1>4. CASE UNCHANGED <<enabled, host_session_id, current_media, played, inbox, lost>>
  <2>1. CASE c # b
    <3>1. Same(c)
      BY <1>1, <1>2, <1>4, <2>1 DEF Same, viewers
    <3> QED
      BY <1>1, <3>1, SameKeeps
  <2>2. CASE c = b
    <3>1. toggling'[c] = StatusOf(c)'
      BY <1>1, <1>2, <2>2
    <3>2. c \notin lost => AnswersAreTrue(c)'
      BY <1>3, <3>1 DEF AnswersAreTrue
    <3>3. OthersAreOut(c) => OthersAreOut(c)'
      BY <1>2, <1>4 DEF OthersAreOut, Out, Silent, Stays, LeavesLast
    <3>4. GuestFollows(c) => GuestFollows(c)'
      BY <1>2, <1>4 DEF GuestFollows, AsHost, HostsMedia, Stays, viewers
    <3>5. (enabled /\ c \in room => LastMedia(inbox[c], HostsMedia(c)))'
      BY <1>1, <1>2, <1>4 DEF MayFollow, LastMedia, HostsMedia
    <3> QED
      BY <1>1, <1>2, <1>4, <3>2, <3>3, <3>4, <3>5 DEF MayFollow
  <2> QED
    BY <2>1, <2>2
<1>5. ASSUME NEW message \in ToBrowser, Announces(message), Broadcast(message),
             enabled' => Brings(message) /\ message.media = current_media'
      PROVE  MayFollow(c)'
  <2>1. CASE c \in online
    <3>1. inbox'[c] = Append(inbox[c], message)
      BY <1>5, <2>1 DEF Broadcast, Sent
    <3>2. ~Silent(inbox'[c]) /\ inbox'[c] # <<>>
      <4>1. ~Silent(inbox'[c])
        BY <1>1, <1>5, <3>1, Appended
      <4> QED
        BY <4>1, NothingSaid, Zenon
    <3>3. enabled' => LastMedia(inbox'[c], current_media')
      BY <1>1, <1>5, <3>1, MediaAppended
    <3>4. (enabled /\ c \in room => LastMedia(inbox[c], HostsMedia(c)))'
      BY <1>5, <3>3 DEF LastMedia, Broadcast, Names, HostsMedia
    <3>5. ~Silent(inbox[c])'
      BY <3>2 DEF Silent
    <3>6. c \notin lost' => c \notin lost
      BY <1>5 DEF Broadcast
    <3>7. c \notin lost' => (AnswersAreTrue(c) /\ OthersAreOut(c) /\ GuestFollows(c))'
      BY <1>3, <3>2, <3>5, <3>6 DEF AnswersAreTrue, OthersAreOut, GuestFollows
    <3> QED
      BY <1>1, <1>2, <3>4, <3>7 DEF MayFollow
  <2>2. CASE c \notin online
    <3>1. c \in lost' /\ c \notin room'
      BY <1>1, <1>2, <1>5, <2>2 DEF Broadcast
    <3> QED
      BY <1>1, <1>2, <3>1 DEF MayFollow
  <2> QED
    BY <2>1, <2>2
<1>6. CASE /\ toggling[b].enable /\ enabled' = TRUE /\ current_media' = toggling[b].media
           /\ toggling[b] \in [enable: BOOLEAN, media: Shown]
           /\ Broadcast([type |-> "sync_enabled", host |-> b, media |-> toggling[b].media])
  <2> DEFINE message == [type |-> "sync_enabled", host |-> b, media |-> toggling[b].media]
  <2>1. message \in ToBrowser
    BY <1>6 DEF ToBrowser
  <2>2. Announces(message) /\ Brings(message) /\ message.media = current_media'
    BY <1>6 DEF Announces, Brings
  <2> QED
    BY <1>5, <1>6, <2>1, <2>2
<1>7. CASE enabled' = FALSE /\ Broadcast([type |-> "sync_disabled"])
  <2> DEFINE message == [type |-> "sync_disabled"]
  <2>1. message \in ToBrowser /\ Announces(message)
    BY DEF ToBrowser, Announces
  <2> QED
    BY <1>5, <1>7, <2>1
<1> QED
  BY <1>4, <1>6, <1>7 DEF ToggleSync, server

\* A browser that handles a message still follows if it has lost nothing: it is the
\* host that the message names, it has asked to join the room, it does as the last
\* media in the room says, or nobody is host any more.
Does(b, m) ==
    \/ opening'[b] = {} /\ b \notin closing' /\ shown'[b] = m
    \/ opening'[b] = {} /\ b \in closing' /\ m = Nothing
    \/ opening'[b] = {m} /\ b \notin closing'
LEMMA HandlingFollows ==
  ASSUME RoomInv, NEW b \in Browsers, inbox[b] # <<>>, Handled(b),
         UNCHANGED <<server, room, listening, toggling>>,
         mode'[b] = "guest" => b \in listening,
         b \notin lost' =>
           /\ Undisturbed(b)
           /\ \/ mode'[b] = "host" /\ Head(inbox[b]).type = "sync_enabled" /\ Head(inbox[b]).host = b
              \/ mode'[b] = "guest" /\ ~Stays(outbox'[b])
              \/ /\ mode'[b] = "guest" /\ Brings(Head(inbox[b]))
                 /\ b \notin strayed' => Does(b, Head(inbox[b]).media)
              \/ mode'[b] = "off" /\ Head(inbox[b]).type = "sync_disabled"
  PROVE  MayFollow(b)'
<1>1. /\ MayFollow(b) /\ inbox[b] \in Seq(ToBrowser) /\ inbox'[b] = Tail(inbox[b])
      /\ LastIsTrue(inbox[b], enabled, host_session_id)
  BY DEF RoomInv, HostInv, TypeOK, Handled
<1>0. HostsMedia(b)' = HostsMedia(b)
  BY DEF HostsMedia, server
<1>2. (enabled /\ b \in room => LastMedia(inbox[b], HostsMedia(b)))'
  BY <1>0, <1>1, MediaTaken DEF MayFollow, LastMedia, server
<1>3. Silent(Tail(inbox[b])) /\ Announces(Head(inbox[b])) =>
        IsTrue(Head(inbox[b]), enabled, host_session_id)
  BY <1>1, Taken
<1>4. ASSUME b \notin lost' PROVE (AnswersAreTrue(b) /\ OthersAreOut(b) /\ GuestFollows(b))'
  <2>1. AnswersAreTrue(b)'
    BY <1>4 DEF AnswersAreTrue, Undisturbed
  <2>2. ASSUME enabled, Silent(Tail(inbox[b])), mode'[b] # "guest" PROVE host_session_id = b
    <3>1. Announces(Head(inbox[b]))
      BY <1>4, <2>2 DEF Announces
    <3>2. IsTrue(Head(inbox[b]), enabled, host_session_id)
      BY <1>3, <2>2, <3>1
    <3> QED
      BY <1>4, <2>2, <3>2 DEF IsTrue
  <2>3. OthersAreOut(b)'
    BY <1>1, <2>2 DEF OthersAreOut, Silent, server
  <2>4. ASSUME b \in room', enabled', mode'[b] = "guest", inbox'[b] = <<>>, Stays(outbox[b])',
               b \notin strayed'
        PROVE  AsHost(b)'
    <3>1. Brings(Head(inbox[b])) /\ Does(b, Head(inbox[b]).media)
      BY <1>4, <2>4 DEF Stays
    <3>2. LastMedia(inbox[b], HostsMedia(b))
      BY <1>1, <2>4 DEF MayFollow, server
    <3>3. Head(inbox[b]).media = HostsMedia(b)
      BY <1>1, <2>4, <3>1, <3>2, MediaTaken
    <3> QED
      BY <1>0, <3>1, <3>3 DEF Does, AsHost
  <2>5. GuestFollows(b)'
    BY <2>4 DEF GuestFollows
  <2> QED
    BY <2>1, <2>3, <2>5
<1> QED
  BY <1>2, <1>4 DEF MayFollow

\* Nobody is in the room when the server has started.
LEMMA RoomInit == Init => RoomInv
<1> SUFFICES ASSUME Init, NEW b \in Browsers PROVE MayFollow(b)
  BY HostInit DEF RoomInv
<1> QED
  BY DEF Init, MayFollow, AnswersAreTrue, OthersAreOut, GuestFollows

\* Every step keeps the guests following; those that handle messages touch the
\* viewer of one browser.
Aside(b) ==
    /\ \A d \in Browsers \ {b} : shown'[d] = shown[d] /\ opening'[d] = opening[d]
    /\ closing' \ {b} = closing \ {b} /\ strayed' \ {b} = strayed \ {b}
LEMMA RoomNext == RoomInv /\ [Next]_vars => RoomInv'
<1> SUFFICES ASSUME RoomInv, [Next]_vars PROVE RoomInv'
  OBVIOUS
<1>0. HostInv /\ HostInv' /\ TypeOK /\ \A b \in Browsers : MayFollow(b)
  BY HostNext DEF RoomInv, HostInv
<1>1. \A b \in Browsers : Same(b) => MayFollow(b)'
  BY <1>0, SameKeeps
<1>2. \A b \in Browsers : inbox[b] \in Seq(ToBrowser) /\ outbox[b] \in Seq(ToServer)
  BY <1>0 DEF TypeOK
<1> SUFFICES ASSUME NEW c \in Browsers PROVE MayFollow(c)'
  BY <1>0 DEF RoomInv
<1>3. CASE UNCHANGED vars
  BY <1>1, <1>3 DEF vars, server, viewers, Same
<1>4. ASSUME NEW b \in Browsers, NEW m \in Media, OpenMedia(b, m) PROVE MayFollow(c)'
  <2>1. mode[c] = "guest" /\ c \notin strayed' => c # b /\ c \notin strayed
    BY <1>4 DEF OpenMedia, Strays
  <2>2. c # b => opening'[c] = opening[c]
    BY <1>0, <1>4 DEF OpenMedia, TypeOK
  <2> QED
    BY <1>1, <1>4, <2>1, <2>2 DEF OpenMedia, server, Same
<1>5. ASSUME NEW b \in Browsers, NEW message \in ToServer, ~Moves(message),
              outbox' = outbox \/ outbox' = Sent(outbox, {b}, message)
       PROVE  /\ Stays(outbox'[c]) <=> Stays(outbox[c])
              /\ LeavesLast(outbox[c]) => LeavesLast(outbox'[c])
  <2>1. outbox'[c] = outbox[c] \/ outbox'[c] = Append(outbox[c], message)
    BY <1>5 DEF Sent
  <2>2. CASE outbox'[c] = outbox[c]
    BY <2>2
  <2>3. CASE outbox'[c] = Append(outbox[c], message)
    BY <1>2, <1>5, <2>3, MovesAppended
  <2> QED
    BY <2>1, <2>2, <2>3
<1>6. ASSUME NEW b \in Browsers, NEW m \in Media, Opened(b, m) PROVE MayFollow(c)'
  <2>1. /\ Stays(outbox'[c]) <=> Stays(outbox[c])
        /\ LeavesLast(outbox[c]) => LeavesLast(outbox'[c])
    <3>1. /\ [type |-> "sync_update", media |-> m] \in ToServer
          /\ ~Moves([type |-> "sync_update", media |-> m])
      BY DEF ToServer, Moves
    <3>2. outbox' = outbox \/ outbox' = Sent(outbox, {b}, [type |-> "sync_update", media |-> m])
      BY <1>6 DEF Opened
    <3> QED
      BY <1>5, <3>1, <3>2
  <2>2. PICK others \in SUBSET (opening[b] \ {m}) : opening' = [opening EXCEPT ![b] = others]
    BY <1>6 DEF Opened
  <2>3. CASE c # b
    <3>1. shown'[c] = shown[c] /\ opening'[c] = opening[c]
      BY <1>0, <1>6, <2>2, <2>3 DEF Opened, TypeOK
    <3> QED
      BY <1>1, <1>6, <2>1, <3>1 DEF Opened, server, Same
  <2>4. CASE c = b
    <3>1. /\ UNCHANGED <<enabled, host_session_id, current_media, played, room, mode, listening,
                         closing, strayed, inbox, toggling, lost>>
          /\ m \in opening[c] /\ opening'[c] \subseteq opening[c] \ {m} /\ shown'[c] = m
      BY <1>0, <1>6, <2>2, <2>4 DEF Opened, server, TypeOK
    <3>2. HostsMedia(c)' = HostsMedia(c)
      BY <3>1 DEF HostsMedia
    <3>3. (enabled /\ c \in room => LastMedia(inbox[c], HostsMedia(c)))'
      BY <1>0, <3>1, <3>2 DEF MayFollow, LastMedia
    <3>4. AnswersAreTrue(c) => AnswersAreTrue(c)'
      BY <3>1 DEF AnswersAreTrue, StatusOf, Silent
    <3>5. OthersAreOut(c) => OthersAreOut(c)'
      BY <2>1, <3>1 DEF OthersAreOut, Out, Silent, Stays, LeavesLast
    <3>6. AsHost(c) => AsHost(c)'
      BY <3>1, <3>2 DEF AsHost
    <3>7. Stays(outbox[c])' => Stays(outbox[c])
      BY <2>1 DEF Stays
    <3>8. GuestFollows(c) => GuestFollows(c)'
      BY <3>1, <3>6, <3>7 DEF GuestFollows
    <3> QED
      BY <1>0, <3>1, <3>3, <3>4, <3>5, <3>8 DEF MayFollow
  <2> QED
    BY <2>3, <2>4
<1>7. ASSUME NEW b \in Browsers, CloseViewer(b) PROVE MayFollow(c)'
  <2>1. mode[c] = "guest" /\ c \notin strayed' => c # b /\ c \notin strayed
    BY <1>7 DEF CloseViewer, Strays
  <2> QED
    BY <1>1, <1>7, <2>1 DEF CloseViewer, server, bounds, Same
<1>8. ASSUME NEW b \in Browsers, Closed(b) PROVE MayFollow(c)'
  <2>1. CASE c # b
    <3>1. shown'[c] = shown[c] /\ opening'[c] = opening[c] /\ (c \in closing' <=> c \in closing)
      BY <1>0, <1>8, <2>1 DEF Closed, TypeOK
    <3> QED
      BY <1>1, <1>8, <3>1 DEF Closed, server, bounds, Same
  <2>2. CASE c = b
    <3>1. /\ UNCHANGED <<enabled, host_session_id, current_media, played, room, mode, listening,
                         strayed, inbox, outbox, toggling, lost>>
          /\ c \in closing /\ c \notin closing' /\ shown'[c] = Nothing
          /\ opening'[c] \subseteq opening[c]
      BY <1>0, <1>8, <2>2 DEF Closed, server, TypeOK
    <3>2. HostsMedia(c)' = HostsMedia(c)
      BY <3>1 DEF HostsMedia
    <3>3. (enabled /\ c \in room => LastMedia(inbox[c], HostsMedia(c)))'
      BY <1>0, <3>1, <3>2 DEF MayFollow, LastMedia
    <3>4. AnswersAreTrue(c) => AnswersAreTrue(c)'
      BY <3>1 DEF AnswersAreTrue, StatusOf, Silent
    <3>5. OthersAreOut(c) => OthersAreOut(c)'
      BY <3>1 DEF OthersAreOut, Out, Silent, Stays, LeavesLast
    <3>6. GuestFollows(c) => GuestFollows(c)'
      BY <3>1, <3>2 DEF GuestFollows, AsHost, Stays
    <3> QED
      BY <1>0, <3>1, <3>3, <3>4, <3>5, <3>6 DEF MayFollow
  <2> QED
    BY <2>1, <2>2
<1>9. ASSUME NEW b \in Browsers, SendPlayback(b) PROVE MayFollow(c)'
  <2> DEFINE message == [type |-> "playback_sync", media |-> shown[b]]
  <2>1. message \in ToServer /\ ~Moves(message)
    BY <1>0, <1>9 DEF SendPlayback, ToServer, Shown, Moves, TypeOK
  <2>2. /\ Stays(outbox'[c]) <=> Stays(outbox[c])
        /\ LeavesLast(outbox[c]) => LeavesLast(outbox'[c])
    BY <1>5, <1>9, <2>1 DEF SendPlayback
  <2> QED
    BY <1>1, <1>9, <2>2 DEF SendPlayback, server, viewers, Same
<1>10. ASSUME NEW b \in Browsers, Press(b) PROVE MayFollow(c)'
  <2>0. /\ UNCHANGED <<enabled, host_session_id, current_media, played, room, shown, opening,
                       closing, strayed, inbox, lost>>
        /\ toggling[b] = Nothing
    BY <1>10 DEF Press, server, viewers
  <2>1. CASE c # b
    <3>1. outbox'[c] = outbox[c] /\ (c \in listening => c \in listening')
      BY <1>10, <2>1 DEF Press, Sent
    <3>2. mode'[c] = mode[c] /\ toggling'[c] = toggling[c]
      BY <1>0, <1>10, <2>1 DEF Press, TypeOK
    <3> QED
      BY <1>1, <2>0, <3>1, <3>2 DEF Same
  <2>2. (enabled /\ c \in room => LastMedia(inbox[c], HostsMedia(c)))'
    BY <1>0, <2>0 DEF MayFollow, LastMedia, HostsMedia
  <2>3. CASE /\ c = b /\ mode[b] = "guest" /\ toggling' = toggling
             /\ outbox' = IF b \in listening \cap online
                          THEN Sent(outbox, {b}, [type |-> "leave_sync"]) ELSE outbox
             /\ mode' = [mode EXCEPT ![b] = "off"]
    <3>1. mode'[c] = "off"
      BY <1>0, <2>3 DEF TypeOK
    <3>2. ASSUME c \notin lost' PROVE OthersAreOut(c)'
      <4>1. c \in listening \cap online
        BY <1>0, <2>0, <2>3, <3>2 DEF MayFollow, HostInv, LostIsLost
      <4>2. outbox'[c] = Append(outbox[c], [type |-> "leave_sync"])
        BY <2>3, <4>1 DEF Sent
      <4>3. LeavesLast(outbox'[c])
        BY <1>2, <4>2, MovesAppended DEF ToServer
      <4> QED
        BY <4>3 DEF OthersAreOut, Out, LeavesLast
    <3> QED
      BY <2>0, <2>2, <2>3, <3>1, <3>2 DEF MayFollow, AnswersAreTrue, GuestFollows
  <2>4. CASE /\ c = b /\ mode[b] # "guest" /\ UNCHANGED <<outbox, mode, listening>>
             /\ toggling' = [toggling EXCEPT ![b] = [enable |-> mode[b] = "off", media |-> shown[b]]]
    <3>1. toggling'[c] = [enable |-> mode[b] = "off", media |-> shown[b]]
      BY <1>0, <2>4 DEF TypeOK
    <3>2. toggling'[c] \notin Status
      BY <3>1 DEF Status
    <3>3. AnswersAreTrue(c)'
      BY <2>4, <3>2 DEF AnswersAreTrue
    <3>4. OthersAreOut(c) => OthersAreOut(c)'
      BY <2>0, <2>4 DEF OthersAreOut, Out, Silent, Stays, LeavesLast
    <3> QED
      BY <1>0, <2>0, <2>2, <2>4, <3>3, <3>4 DEF MayFollow, GuestFollows
  <2> QED
    BY <1>10, <2>1, <2>3, <2>4 DEF Press
<1>11. ASSUME NEW b \in Browsers, ToggleSync(b) PROVE MayFollow(c)'
  BY <1>11, ToggleFollows
<1>12. ASSUME NEW b \in Browsers, GetStatus(b) PROVE MayFollow(c)'
  BY <1>1, <1>12 DEF GetStatus, server, viewers, bounds, Same
<1>13. ASSUME NEW b \in Browsers, HttpUpdate(b) PROVE MayFollow(c)'
  <2>1. posted[b] \in Shown /\ UpdateCurrentMedia(b, posted[b])
    BY <1>0, <1>13 DEF HttpUpdate, TypeOK
  <2> QED
    BY <1>13, <2>1, UpdateKeeps DEF HttpUpdate
<1>14. ASSUME NEW b \in Browsers, NEW type, Receives(b, type), Received(b)
       PROVE  /\ outbox'[b] = Tail(outbox[b]) /\ outbox[b] # <<>> /\ Head(outbox[b]).type = type
              /\ \A d \in Browsers \ {b} : outbox'[d] = outbox[d]
  BY <1>0, <1>14 DEF Receives, Received, TypeOK
<1>15. ASSUME NEW b \in Browsers, HandleJoin(b) PROVE MayFollow(c)'
  <2>1. /\ UNCHANGED <<enabled, host_session_id, current_media, mode, listening, shown, opening,
                       closing, strayed, toggling, lost>>
        /\ outbox'[b] = Tail(outbox[b]) /\ outbox[b] # <<>> /\ Head(outbox[b]).type = "join_sync"
        /\ \A d \in Browsers \ {b} : outbox'[d] = outbox[d]
    BY <1>14, <1>15 DEF HandleJoin, viewers
  <2>2. CASE c # b
    <3>1. inbox'[c] = inbox[c] /\ (c \in room' <=> c \in room) /\ played'[c] = played[c]
      BY <1>15, <2>2 DEF HandleJoin, Names, Sent
    <3> QED
      BY <1>1, <2>1, <2>2, <3>1 DEF Same
  <2>3. CASE c = b /\ ~enabled
    <3>1. inbox' = inbox
      BY <1>15, <2>3 DEF HandleJoin
    <3>2. AnswersAreTrue(c) => AnswersAreTrue(c)'
      BY <2>1, <3>1 DEF AnswersAreTrue, StatusOf, Silent
    <3> QED
      BY <1>0, <2>1, <2>3, <3>2 DEF MayFollow, OthersAreOut, GuestFollows
  <2>4. CASE c = b /\ enabled
    <3>1. inbox'[c] = Append(inbox[c], State(current_media)) /\ current_media \in Shown
      BY <1>0, <1>15, <2>4 DEF HandleJoin, Sent, TypeOK
    <3>2. /\ State(current_media) \in ToBrowser /\ Brings(State(current_media))
          /\ State(current_media).media = current_media /\ ~Announces(State(current_media))
      BY <3>1 DEF State, ToBrowser, Brings, Announces
    <3>3. LastMedia(inbox'[c], current_media) /\ (Silent(inbox'[c]) => Silent(inbox[c]))
      <4>1. LastMedia(inbox'[c], current_media)
        BY <1>2, <3>1, <3>2, MediaAppended
      <4>2. Silent(inbox'[c]) => Silent(inbox[c])
        BY <1>2, <3>1, <3>2, Appended
      <4> QED
        BY <4>1, <4>2
    <3>4. inbox'[c] # <<>>
      BY <1>2, <3>1
    <3>5. (enabled /\ c \in room => LastMedia(inbox[c], HostsMedia(c)))'
      <4>1. HostsMedia(c)' = current_media
        BY <1>15, <2>1, <2>4 DEF HandleJoin, Names, HostsMedia
      <4> QED
        BY <2>1, <3>3, <4>1 DEF LastMedia
    <3>6. AnswersAreTrue(c) => AnswersAreTrue(c)'
      BY <2>1, <3>3 DEF AnswersAreTrue, StatusOf, Silent
    <3>7. Out(c) => LeavesLast(outbox'[c])
      <4>1. Moves(Head(outbox[c])) /\ Head(outbox[c]).type # "leave_sync"
        BY <2>1, <2>4 DEF Moves
      <4> QED
        BY <1>2, <2>1, <2>4, <4>1, MovesTaken DEF Out
    <3>8. OthersAreOut(c) => OthersAreOut(c)'
      BY <2>1, <3>3, <3>7 DEF OthersAreOut, Out, Silent, LeavesLast
    <3> QED
      BY <1>0, <2>1, <3>4, <3>5, <3>6, <3>8 DEF MayFollow, GuestFollows
  <2> QED
    BY <2>2, <2>3, <2>4
<1>16. ASSUME NEW b \in Browsers, HandleLeave(b) PROVE MayFollow(c)'
  <2>1. /\ UNCHANGED <<enabled, host_session_id, current_media, played, mode, listening, shown,
                       opening, closing, strayed, inbox, toggling, lost>>
        /\ outbox'[b] = Tail(outbox[b]) /\ outbox[b] # <<>> /\ Head(outbox[b]).type = "leave_sync"
        /\ \A d \in Browsers \ {b} : outbox'[d] = outbox[d]
        /\ room' = room \ {b}
    BY <1>14, <1>16 DEF HandleLeave, server, viewers
  <2>2. CASE c # b
    BY <1>1, <2>1, <2>2 DEF Same
  <2>3. CASE c = b
    <3>1. Out(c) => LeavesLast(outbox'[c]) \/ Stays(outbox'[c])
      BY <1>2, <2>1, <2>3, MovesTaken DEF Out
    <3>2. OthersAreOut(c) => OthersAreOut(c)'
      BY <2>1, <2>3, <3>1 DEF OthersAreOut, Out, Silent, LeavesLast, Stays
    <3>3. AnswersAreTrue(c) => AnswersAreTrue(c)'
      BY <2>1 DEF AnswersAreTrue, StatusOf, Silent
    <3> QED
      BY <1>0, <2>1, <2>3, <3>2, <3>3 DEF MayFollow, GuestFollows
  <2> QED
    BY <2>2, <2>3
<1>17. ASSUME NEW b \in Browsers, HandleUpdate(b) PROVE MayFollow(c)'
  <2>1. /\ outbox'[b] = Tail(outbox[b]) /\ outbox[b] # <<>> /\ Head(outbox[b]).type = "sync_update"
        /\ \A d \in Browsers \ {b} : outbox'[d] = outbox[d]
    BY <1>14, <1>17 DEF HandleUpdate
  <2>2. Head(outbox[b]) \in ToServer /\ ~Moves(Head(outbox[b]))
    BY <1>2, <2>1 DEF Moves
  <2>3. Head(outbox[b]).media \in Shown
    BY <2>1, <2>2 DEF ToServer, Shown
  <2>4. \A d \in Browsers : /\ Stays(outbox'[d]) <=> Stays(outbox[d])
                            /\ LeavesLast(outbox[d]) => LeavesLast(outbox'[d])
    <3>1. /\ Stays(outbox'[b]) <=> Stays(outbox[b])
          /\ LeavesLast(outbox[b]) => LeavesLast(outbox'[b])
      BY <1>2, <2>1, <2>2, MovesTaken
    <3> QED
      BY <2>1, <3>1
  <2> QED
    BY <1>17, <2>3, <2>4, UpdateKeeps DEF HandleUpdate
<1>18. ASSUME NEW b \in Browsers, HandlePlayback(b) PROVE MayFollow(c)'
  <2>1. /\ outbox'[b] = Tail(outbox[b]) /\ outbox[b] # <<>> /\ Head(outbox[b]).type = "playback_sync"
        /\ \A d \in Browsers \ {b} : outbox'[d] = outbox[d]
        /\ UNCHANGED <<enabled, host_session_id, current_media, room, mode, listening, shown,
                       opening, closing, strayed, toggling, lost>>
    BY <1>14, <1>18 DEF HandlePlayback, viewers
  <2> DEFINE message == Head(outbox[b])
  <2>2. /\ message \in ToServer /\ ~Moves(message)
        /\ message \in ToBrowser /\ Brings(message) /\ ~Announces(message) /\ message.media # Nothing
    <3>1. message \in ToServer /\ message.type = "playback_sync"
      BY <1>2, <2>1
    <3> QED
      BY <3>1, SyncAssumption DEF ToServer, ToBrowser, Moves, Brings, Announces
  <2>3. /\ Stays(outbox'[c]) <=> Stays(outbox[c])
        /\ LeavesLast(outbox[c]) => LeavesLast(outbox'[c])
    BY <1>2, <2>1, <2>2, MovesTaken
  <2>4. CASE inbox'[c] = inbox[c] /\ played'[c] = played[c]
    BY <1>1, <2>1, <2>3, <2>4 DEF Same
  <2>5. CASE inbox'[c] = Append(inbox[c], message) /\ played'[c] = message.media
    <3>1. LastMedia(inbox'[c], message.media)
      BY <1>2, <2>2, <2>5, MediaAppended
    <3>2. Silent(inbox'[c]) => Silent(inbox[c])
      BY <1>2, <2>2, <2>5, Appended
    <3>3. inbox'[c] # <<>>
      <4>1. ASSUME NEW S, NEW q \in Seq(S), NEW one \in S PROVE Append(q, one) # <<>>
        <5>1. Len(Append(q, one)) = Len(q) + 1 /\ Len(q) \in Nat /\ Len(<<>>) = 0
          OBVIOUS
        <5> QED
          BY <5>1
      <4> QED
        BY <1>2, <2>2, <2>5, <4>1
    <3>4. (enabled /\ c \in room => LastMedia(inbox[c], HostsMedia(c)))'
      BY <2>2, <2>5, <3>1 DEF LastMedia, HostsMedia
    <3>5. AnswersAreTrue(c) => AnswersAreTrue(c)'
      BY <2>1, <3>2 DEF AnswersAreTrue, StatusOf, Silent
    <3>6. Out(c) => Out(c)'
      BY <2>1, <2>3 DEF Out, Stays, LeavesLast
    <3>7. OthersAreOut(c) => OthersAreOut(c)'
      BY <2>1, <3>2, <3>6 DEF OthersAreOut, Silent
    <3>8. GuestFollows(c)'
      BY <3>3 DEF GuestFollows
    <3> QED
      BY <1>0, <2>1, <3>4, <3>5, <3>7, <3>8 DEF MayFollow
  <2>6. \/ inbox'[c] = inbox[c] /\ played'[c] = played[c]
        \/ inbox'[c] = Append(inbox[c], message) /\ played'[c] = message.media
    BY <1>18 DEF HandlePlayback, Sent, Names
  <2> QED
    BY <2>4, <2>5, <2>6
<1>19. ASSUME NEW b \in Browsers, ToggleAnswered(b) PROVE MayFollow(c)'
  <2>0. /\ UNCHANGED <<enabled, host_session_id, current_media, played, room, shown, opening,
                       closing, strayed, inbox, outbox, lost>>
        /\ toggling[b] \in Status /\ toggling[b] # Nothing
        /\ toggling' = [toggling EXCEPT ![b] = Nothing]
        /\ mode' = [mode EXCEPT ![b] = ModeOf(toggling[b])]
        /\ listening' = IF toggling[b].active THEN listening \cup {b} ELSE listening \ {b}
    BY <1>19, SyncAssumption DEF ToggleAnswered, server, viewers
  <2>1. CASE c # b
    BY <1>0, <1>1, <2>0, <2>1 DEF Same, TypeOK
  <2>2. CASE c = b
    <3>1. toggling'[c] = Nothing /\ mode'[c] = ModeOf(toggling[c])
      BY <1>0, <2>0, <2>2 DEF TypeOK
    <3>2. mode'[c] = "guest" => c \in listening'
      BY <2>0, <2>2, <3>1 DEF ModeOf
    <3>3. (enabled /\ c \in room => LastMedia(inbox[c], HostsMedia(c)))'
      BY <1>0, <2>0 DEF MayFollow, LastMedia, HostsMedia
    <3>4. ASSUME c \notin lost', enabled, Silent(inbox[c])
          PROVE  /\ mode'[c] = "guest" \/ host_session_id = c
                 /\ mode'[c] = "guest" => Out(c)
      <4>1. toggling[c] = StatusOf(c) /\ mode[c] # "guest" /\ OthersAreOut(c)
        BY <1>0, <2>0, <2>2, <3>4 DEF MayFollow, AnswersAreTrue
      <4>2. ModeOf(toggling[c]) = IF c = host_session_id THEN "host" ELSE "guest"
        <5>1. StatusOf(c).active /\ (StatusOf(c).is_host <=> c = host_session_id)
          BY <3>4 DEF StatusOf
        <5> QED
          BY <4>1, <5>1 DEF ModeOf
      <4> QED
        BY <3>1, <3>4, <4>1, <4>2 DEF OthersAreOut
    <3>5. c \notin lost' => OthersAreOut(c)'
      BY <2>0, <3>4 DEF OthersAreOut, Silent
    <3>6. c \notin lost' => GuestFollows(c)'
      <4> SUFFICES ASSUME c \notin lost', c \in room, enabled, mode'[c] = "guest",
                          inbox[c] = <<>>, Stays(outbox[c])
                   PROVE  FALSE
        BY <2>0 DEF GuestFollows, Stays
      <4>1. Out(c)
        BY <3>4, NothingSaid
      <4>2. ~LeavesLast(outbox[c])
        BY DEF Stays, LeavesLast, Moves
      <4> QED
        BY <4>1, <4>2 DEF Out
    <3>7. AnswersAreTrue(c)'
      BY <3>1 DEF AnswersAreTrue
    <3> QED
      BY <3>2, <3>3, <3>5, <3>6, <3>7 DEF MayFollow
  <2> QED
    BY <2>1, <2>2
<1>20. ASSUME NEW b \in Browsers, b \in lost', UNCHANGED <<server, inbox, room>>,
              mode'[b] = "guest" => b \in listening'
       PROVE  MayFollow(b)'
  <2>1. (enabled /\ b \in room => LastMedia(inbox[b], HostsMedia(b)))'
    BY <1>0, <1>20 DEF MayFollow, LastMedia, HostsMedia, server
  <2> QED
    BY <1>20, <2>1 DEF MayFollow
<1>21. ASSUME NEW b \in Browsers, StatusAnswered(b) PROVE MayFollow(c)'
  <2>1. CASE c # b
    BY <1>0, <1>1, <1>21, <2>1 DEF StatusAnswered, Sent, server, viewers, bounds, Same, TypeOK
  <2>2. b \in lost' /\ UNCHANGED <<server, inbox, room>>
    BY <1>0, <1>21, SyncAssumption DEF StatusAnswered, HostInv, LostIsLost, server
  <2>3. mode'[b] = "guest" => b \in listening'
    BY <1>0, <1>21 DEF StatusAnswered, ModeOf, TypeOK
  <2> QED
    BY <1>20, <2>1, <2>2, <2>3
<1>22. ASSUME NEW b \in Browsers, inbox[b] # <<>>, Handled(b), c # b,
              UNCHANGED <<server, room, listening, toggling, mode[c], outbox[c]>>,
              Aside(b), lost' \ {b} = lost \ {b}
       PROVE  MayFollow(c)'
  <2>1. inbox'[c] = inbox[c]
    BY <1>0, <1>22 DEF Handled, TypeOK
  <2> QED
    BY <1>1, <1>22, <2>1 DEF Same, Aside, server
<1>23. ASSUME NEW b \in Browsers, NEW m, Follows(b, m)
       PROVE  /\ lost' \ {b} = lost \ {b} /\ Aside(b)
              /\ b \notin lost' => Undisturbed(b) /\ (b \notin strayed' => Does(b, m))
  <2>1. lost' \ {b} = lost \ {b} /\ (b \notin lost' => Undisturbed(b)) /\ shown' = shown
    BY <1>23 DEF Follows
  <2>2. \/ m = shown[b] /\ opening' = opening /\ closing' = closing
        \/ /\ m # shown[b] /\ m # Nothing
           /\ opening' = [opening EXCEPT ![b] = @ \cup {m}] /\ closing' = closing
        \/ /\ m = Nothing /\ opening' = opening
           /\ closing' = closing \cup {b} \/ (closing' = closing /\ b \in strayed')
    BY <1>23 DEF Follows
  <2>3. strayed' \ {b} = strayed \ {b}
    BY <1>23 DEF Follows
  <2>4. Aside(b)
    BY <1>0, <2>1, <2>2, <2>3 DEF Aside, TypeOK
  <2>5. Undisturbed(b) /\ b \notin strayed' => Does(b, m)
    BY <1>0, <2>1, <2>2 DEF Undisturbed, Does, TypeOK
  <2> QED
    BY <2>1, <2>3, <2>4, <2>5
<1>24. ASSUME NEW b \in Browsers, UNCHANGED viewers PROVE Aside(b)
  BY <1>24 DEF Aside, viewers
<1>25. ASSUME NEW b \in Browsers, OnSyncEnabled(b) PROVE MayFollow(c)'
  <2>1. /\ inbox[b] # <<>> /\ Handled(b) /\ Head(inbox[b]).type = "sync_enabled"
        /\ UNCHANGED <<server, room, listening, toggling>>
    BY <1>25 DEF OnSyncEnabled, Handles
  <2> DEFINE Quietly == lost' = IF Undisturbed(b) THEN lost ELSE lost \cup {b}
  <2>2. CASE Ignores(b)
    <3>1. MayFollow(b)'
      BY <1>0, <2>1, <2>2, HandlingFollows DEF Ignores, MayFollow
    <3> QED
      BY <1>22, <1>24, <2>1, <2>2, <3>1 DEF Ignores
  <2>3. CASE /\ Head(inbox[b]).host = b /\ mode' = [mode EXCEPT ![b] = "host"]
             /\ lost' = IF Undisturbed(b) THEN lost \ {b} ELSE lost \cup {b}
             /\ UNCHANGED <<viewers, outbox>>
    <3>1. mode'[b] = "host" /\ \A d \in Browsers \ {b} : mode'[d] = mode[d]
      BY <1>0, <2>3 DEF TypeOK
    <3>2. MayFollow(b)'
      BY <2>1, <2>3, <3>1, HandlingFollows
    <3> QED
      BY <1>22, <1>24, <2>1, <2>3, <3>1, <3>2
  <2>4. CASE /\ b \in listening /\ mode' = [mode EXCEPT ![b] = "guest"]
             /\ outbox' = Sent(outbox, {b}, Join)
             /\ \/ Follows(b, Head(inbox[b]).media)
                \/ Quietly /\ UNCHANGED viewers
    <3>1. mode'[b] = "guest" /\ \A d \in Browsers \ {b} : mode'[d] = mode[d]
      BY <1>0, <2>4 DEF TypeOK
    <3>2. outbox'[b] = Append(outbox[b], Join) /\ \A d \in Browsers \ {b} : outbox'[d] = outbox[d]
      BY <2>4 DEF Sent
    <3>3. ~Stays(outbox'[b])
      <4>1. Join \in ToServer /\ Moves(Join)
        BY DEF Join, ToServer, Moves
      <4> QED
        BY <1>2, <3>2, <4>1, MovesAppended
    <3>4. lost' \ {b} = lost \ {b} /\ (b \notin lost' => Undisturbed(b)) /\ Aside(b)
      BY <1>23, <1>24, <2>4
    <3>5. MayFollow(b)'
      BY <2>1, <2>4, <3>1, <3>3, <3>4, HandlingFollows
    <3> QED
      BY <1>22, <2>1, <3>1, <3>2, <3>4, <3>5
  <2> QED
    BY <1>25, <2>2, <2>3, <2>4 DEF OnSyncEnabled
<1>26. ASSUME NEW b \in Browsers, OnSyncState(b) PROVE MayFollow(c)'
  <2>1. /\ inbox[b] # <<>> /\ Handled(b) /\ Brings(Head(inbox[b]))
        /\ UNCHANGED <<server, room, listening, toggling, mode, outbox>>
    BY <1>26 DEF OnSyncState, Handles, Ignores, Brings
  <2>2. CASE Ignores(b)
    <3>1. MayFollow(b)'
      BY <1>0, <2>1, <2>2, HandlingFollows DEF Ignores, MayFollow
    <3> QED
      BY <1>22, <1>24, <2>1, <2>2, <3>1 DEF Ignores
  <2>3. CASE mode[b] = "guest" /\ b \in listening /\ Follows(b, Head(inbox[b]).media)
    <3>1. /\ lost' \ {b} = lost \ {b} /\ Aside(b)
          /\ b \notin lost' =>
               Undisturbed(b) /\ (b \notin strayed' => Does(b, Head(inbox[b]).media))
      BY <1>23, <2>3
    <3>2. MayFollow(b)'
      BY <2>1, <2>3, <3>1, HandlingFollows
    <3> QED
      BY <1>22, <2>1, <3>1, <3>2
  <2> QED
    BY <1>26, <2>2, <2>3 DEF OnSyncState
<1>27. ASSUME NEW b \in Browsers, OnSyncDisabled(b) PROVE MayFollow(c)'
  <2>1. /\ inbox[b] # <<>> /\ Handled(b) /\ Head(inbox[b]).type = "sync_disabled"
        /\ UNCHANGED <<server, room, listening, toggling, viewers, outbox>>
    BY <1>27 DEF OnSyncDisabled, Handles
  <2>2. CASE /\ mode' = [mode EXCEPT ![b] = "off"]
             /\ lost' = IF Undisturbed(b) THEN lost ELSE lost \cup {b}
    <3>1. mode'[b] = "off" /\ \A d \in Browsers \ {b} : mode'[d] = mode[d]
      BY <1>0, <2>2 DEF TypeOK
    <3>2. MayFollow(b)'
      BY <2>1, <2>2, <3>1, HandlingFollows
    <3> QED
      BY <1>22, <1>24, <2>1, <2>2, <3>1, <3>2
  <2>3. CASE mode' = mode /\ lost' = lost \cup {b}
    <3>1. MayFollow(b)'
      BY <1>0, <2>1, <2>3, HandlingFollows DEF MayFollow
    <3> QED
      BY <1>22, <1>24, <2>1, <2>3, <3>1
  <2> QED
    BY <1>27, <2>2, <2>3 DEF OnSyncDisabled
<1>28. ASSUME NEW b \in Browsers, Disconnected(b)
       PROVE  /\ c = b => inbox'[c] = <<>> /\ c \in lost' /\ c \notin room'
              /\ c # b => /\ inbox'[c] = inbox[c] /\ outbox'[c] = outbox[c]
                          /\ c \in room' <=> c \in room
                          /\ c \notin lost' => c \notin lost
  <2>1. /\ inbox' = [inbox EXCEPT ![b] = <<>>] /\ outbox' = [outbox EXCEPT ![b] = <<>>]
        /\ room' = room \ {b} /\ lost' = lost \cup {b}
    BY <1>28 DEF Disconnected
  <2>2. DOMAIN inbox = Browsers /\ DOMAIN outbox = Browsers
    BY <1>0 DEF TypeOK
  <2>3. CASE c = b
    BY <2>1, <2>2, <2>3
  <2>4. CASE c # b
    BY <2>1, <2>2, <2>4
  <2> QED
    BY <2>3, <2>4
<1>29. ASSUME NEW b \in Browsers, Drop(b) PROVE MayFollow(c)'
  <2>1. CASE c # b
    BY <1>1, <1>28, <1>29, <2>1 DEF Drop, server, viewers, Same
  <2>2. CASE c = b
    BY <1>0, <1>28, <1>29, <2>2 DEF Drop, MayFollow
  <2> QED
    BY <2>1, <2>2
<1>30. ASSUME NEW b \in Browsers, Reload(b) PROVE MayFollow(c)'
  <2>1. CASE c # b
    <3>1. /\ mode'[c] = mode[c] /\ shown'[c] = shown[c] /\ opening'[c] = opening[c]
          /\ c \in closing' <=> c \in closing
          /\ c \in strayed' <=> c \in strayed
          /\ toggling' = toggling /\ (c \in listening => c \in listening')
      BY <1>0, <1>30, <2>1 DEF Reload, TypeOK
    <3> QED
      BY <1>1, <1>28, <1>30, <2>1, <3>1 DEF Reload, server, Same
  <2>2. CASE c = b
    BY <1>0, <1>28, <1>30, <2>2 DEF Reload, MayFollow, TypeOK
  <2> QED
    BY <2>1, <2>2
<1>31. ASSUME NEW b \in Browsers, Reconnect(b) PROVE MayFollow(c)'
  <2>1. CASE c # b
    BY <1>1, <1>31, <2>1 DEF Reconnect, Sent, server, viewers, bounds, Same
  <2>2. b \in lost' /\ UNCHANGED <<server, inbox, room, mode, listening>>
    BY <1>0, <1>31 DEF Reconnect, HostInv, LostIsLost
  <2> QED
    BY <1>0, <1>20, <2>1, <2>2 DEF MayFollow
<1>32. ASSUME NEW b \in Browsers, ConnectionError(b) PROVE MayFollow(c)'
  <2>1. CASE c # b
    BY <1>0, <1>1, <1>32, <2>1 DEF ConnectionError, server, viewers, bounds, Same, TypeOK
  <2>2. b \in lost' /\ UNCHANGED <<server, inbox, room, listening>> /\ mode'[b] = "off"
    BY <1>0, <1>32 DEF ConnectionError, HostInv, LostIsLost, TypeOK
  <2> QED
    BY <1>20, <2>1, <2>2
<1> QED
  BY <1>3, <1>4, <1>6, <1>7, <1>8, <1>9, <1>10, <1>11, <1>12, <1>13, <1>15, <1>16,
     <1>17, <1>18, <1>19, <1>21, <1>25, <1>26, <1>27, <1>29, <1>30, <1>31, <1>32 DEF Next

\* A guest in the room that has lost nothing, and whose user has left the viewer alone,
\* shows what the server holds for the host, or what the host played after that, once
\* all that was under way has arrived, however joins, updates, playback messages,
\* toggles and late answers were interleaved before.
THEOREM Guests == Spec => []GuestsInRoomFollow
<1>1. RoomInv => GuestsInRoomFollow
  <2> SUFFICES ASSUME RoomInv, NEW b \in room \ (lost \cup strayed), Settled(b),
                      mode[b] = "guest", enabled
               PROVE  shown[b] = HostsMedia(b)
    BY DEF GuestsInRoomFollow
  <2>1. b \in Browsers
    BY DEF RoomInv, HostInv, TypeOK
  <2>2. Stays(outbox[b])
    BY NothingSaid DEF Settled
  <2> QED
    BY <2>1, <2>2 DEF RoomInv, MayFollow, GuestFollows, AsHost, Settled
<1> QED
  BY <1>1, RoomInit, RoomNext, PTL DEF Spec

-----------------------------------------------------------------------------
(* Types of the viewer. *)

\* What views hold after an addition.
LEMMA Added ==
  ASSUME NEW ids \in Seq(Places), NEW r \in Places
  PROVE  /\ Append(ids, r) \in Seq(Places)
         /\ \A s : Holds(ids, s) => Holds(Append(ids, r), s)
         /\ Holds(Append(ids, r), r)
         /\ Len(Append(ids, r)) = Len(ids) + 1
         /\ RecordAt(Append(ids, r), Len(ids) + 1) = r
<1> DEFINE more == Append(ids, r)
           n == Len(ids)
<1>1. /\ n \in Nat /\ more \in Seq(Places) /\ Len(more) = n + 1 /\ DOMAIN more = 1..n+1
      /\ DOMAIN ids = 1..n
      /\ more[n + 1] = r /\ \A i \in 1..n : more[i] = ids[i]
  OBVIOUS
<1>2. ASSUME NEW s, Holds(ids, s) PROVE Holds(more, s)
  BY <1>1, <1>2 DEF Holds
<1>3. n + 1 \in DOMAIN more
  BY <1>1
<1>4. Holds(more, r) /\ RecordAt(more, n + 1) = r
  BY <1>1, <1>3 DEF Holds, RecordAt
<1> QED
  BY <1>1, <1>2, <1>4

\* A page that comes is added, if it is not there, and nothing is lost.
LEMMA Merged ==
  ASSUME NEW ids \in Seq(Places), NEW p
  PROVE  /\ MergedIds(ids, p) \in Seq(Places)
         /\ \A s : Holds(ids, s) => Holds(MergedIds(ids, p), s)
         /\ p \in Places => Holds(MergedIds(ids, p), p)
BY Added DEF MergedIds

\* What is rendered at a place.
LEMMA There ==
  ASSUME NEW ids \in Seq(Places)
  PROVE  /\ \A i : RecordAt(ids, i) \in 0..Records
         /\ \A r : Holds(ids, r) =>
              Position(r, ids) \in 1..Len(ids) /\ RecordAt(ids, Position(r, ids)) = r
<1>1. DOMAIN ids = 1..Len(ids) /\ Len(ids) \in Nat /\ \A i \in 1..Len(ids) : ids[i] \in Places
  OBVIOUS
<1>2. Places \subseteq 0..Records /\ 0 \in 0..Records
  BY ViewerAssumption DEF Places
<1>3. \A i : RecordAt(ids, i) \in 0..Records
  BY <1>1, <1>2 DEF RecordAt
<1>4. ASSUME NEW r, Holds(ids, r)
      PROVE  Position(r, ids) \in DOMAIN ids /\ ids[Position(r, ids)] = r
  BY <1>4, Zenon DEF Holds, Position
<1> QED
  BY <1>1, <1>3, <1>4 DEF RecordAt

\* The place a record is counted from 1.
LEMMA PlacesFrom1 == 0 \notin Places /\ 1 \in Places /\ Places \subseteq Nat
BY ViewerAssumption DEF Places

\* The bounds are numbers.
LEMMA BoundsAreNumbers ==
  /\ Records \in Nat \ {0} /\ MaxPages \in Nat /\ MaxOpenings \in Nat
  /\ MaxLeaves \in Nat /\ MaxMisses \in Nat
BY ViewerAssumption

\* The viewer's types hold at first.
LEMMA ViewerTypeInit == ViewerInit => ViewerTypeOK
<1> SUFFICES ASSUME ViewerInit PROVE ViewerTypeOK
  OBVIOUS
<1>1. [ids |-> <<>>, hasMore |-> FALSE, page |-> 0, nr |-> 0] \in Orders
  BY BoundsAreNumbers DEF Orders
<1>2. /\ order \in [Keys -> Orders]
      /\ rendered \in 0..Records /\ goal \in 0..Records
      /\ opens \in 0..MaxOpenings /\ left \in 0..MaxLeaves /\ misses \in 0..MaxMisses
  BY <1>1, BoundsAreNumbers DEF ViewerInit
<1>3. visible \in BOOLEAN /\ viewerLoading \in BOOLEAN /\ hasty \in BOOLEAN
  BY DEF ViewerInit
<1>4. controller \in 0..opens /\ leaving \in Nat
  BY DEF ViewerInit
<1> QED
  BY <1>2, <1>3, <1>4 DEF ViewerInit, ViewerTypeOK

\* An opening that is resolved.
LEMMA ResolvedTyped ==
  ASSUME ViewerTypeOK, NEW o \in openings, NEW i \in Nat \ {0}, NEW ids \in Seq(Places),
         NEW others \in SUBSET pages, Resolved(o, i, ids, others), UNCHANGED opens
  PROVE  /\ viewer' \in Sessions \cup {NoSession} /\ rendered' \in 0..Records
         /\ openings' \subseteq OpeningCalls' /\ pages' \subseteq PageCalls'
         /\ order' \in [Keys -> Orders]
<1>1. /\ "category" \in Keys /\ order["category"] \in Orders /\ o \in OpeningCalls
      /\ OpeningCalls' = OpeningCalls /\ PageCalls' = PageCalls
  BY DEF ViewerTypeOK, Keys, OpeningCalls, PageCalls
<1>2. CASE i > Len(ids) /\ order["category"].hasMore
  <2> DEFINE p == order["category"].page + 1
             q == PageAsk("opening", o.token, "category", p)
  <2>1. /\ order["category"].nr < MaxPages
        /\ order' = [order EXCEPT !["category"].nr = @ + 1, !["category"].page = p]
        /\ pages' = others \cup {q}
        /\ openings' = (openings \ {o}) \cup {[o EXCEPT !.at = "index", !.index = i]}
        /\ UNCHANGED <<viewer, rendered>>
    BY <1>2 DEF Resolved, AskPage
  <2>2. p \in Nat /\ order["category"].nr + 1 \in 0..MaxPages
    <3>1. order["category"].page \in Nat /\ order["category"].nr \in 0..MaxPages
      BY <1>1 DEF Orders
    <3>2. order["category"].nr < MaxPages
      BY <2>1
    <3> QED
      BY <3>1, <3>2, BoundsAreNumbers
  <2>3. q \in PageCalls
    BY <1>1, <2>2 DEF PageAsk, PageCalls, Orders, OpeningCalls, ViewerTypeOK
  <2>4. [o EXCEPT !.at = "index", !.index = i] \in OpeningCalls
    BY <1>1 DEF OpeningCalls
  <2>5. order' \in [Keys -> Orders]
    BY <1>1, <2>1, <2>2 DEF ViewerTypeOK, Orders
  <2> QED
    BY <1>1, <2>1, <2>3, <2>4, <2>5 DEF ViewerTypeOK
<1>3. CASE ~(i > Len(ids) /\ order["category"].hasMore)
  <2> DEFINE there == IF i > Len(ids) THEN 1 ELSE i
  <2>1. /\ viewer' = [key |-> "category", index |-> there]
        /\ rendered' = RecordAt(ids, there)
        /\ openings' = openings \ {o} /\ pages' = others
        /\ order' = [order EXCEPT !["category"].ids = ids]
    BY <1>3 DEF Resolved
  <2>2. viewer' \in Sessions
    BY <1>1, <2>1 DEF Sessions
  <2>3. rendered' \in 0..Records
    BY <2>1, There
  <2>4. order' \in [Keys -> Orders]
    BY <1>1, <2>1 DEF ViewerTypeOK, Orders
  <2> QED
    BY <1>1, <2>1, <2>2, <2>3, <2>4 DEF ViewerTypeOK
<1> QED
  BY <1>2, <1>3

\* A call or timer that waits is one still after another opening.
LEMMA StillWaits ==
  ASSUME ViewerTypeOK, opens' \in {opens, opens + 1}
  PROVE  /\ openings \subseteq OpeningCalls' /\ pages \subseteq PageCalls'
         /\ moreTimers \subseteq Timers'
<1>1. opens \in Nat /\ opens' \in Nat /\ 0..opens \subseteq 0..opens' /\ 1..opens \subseteq 1..opens'
  BY BoundsAreNumbers DEF ViewerTypeOK
<1>2. OpeningCalls \subseteq OpeningCalls'
  BY <1>1 DEF OpeningCalls
<1>3. PageCalls \subseteq PageCalls'
  BY <1>1 DEF PageCalls
<1>4. Timers \subseteq Timers'
  BY <1>1 DEF Timers
<1> QED
  BY <1>2, <1>3, <1>4 DEF ViewerTypeOK

\* A page's order that comes.
LEMMA SettledTyped ==
  ASSUME ViewerTypeOK, NEW q, OrderSettled(q), UNCHANGED opens
  PROVE  /\ order' \in [Keys -> Orders] /\ misses' \in 0..MaxMisses /\ hasty' \in BOOLEAN
         /\ q \in PageCalls /\ (pages \ {q}) \subseteq PageCalls'
         /\ OnToRecords(q) => pages' \subseteq PageCalls'
<1>1. q \in PageCalls /\ PageCalls' = PageCalls /\ pages \subseteq PageCalls
  BY DEF OrderSettled, ViewerTypeOK, PageCalls
<1>2. order' = order \/ order' = [order EXCEPT ![q.key].ids = MergedIds(q.ids, q.page),
                                             ![q.key].hasMore = q.page < Records]
  BY DEF OrderSettled
<1>3. order' \in [Keys -> Orders]
  <2>1. q.key \in Keys /\ MergedIds(q.ids, q.page) \in Seq(Places) /\ (q.page < Records) \in BOOLEAN
    BY <1>1, Merged DEF PageCalls
  <2>2. [order[q.key] EXCEPT !.ids = MergedIds(q.ids, q.page), !.hasMore = q.page < Records] \in Orders
    BY <2>1 DEF ViewerTypeOK, Orders
  <2> QED
    BY <1>2, <2>1, <2>2 DEF ViewerTypeOK
<1>4. misses' \in 0..MaxMisses /\ hasty' \in BOOLEAN
  <2>1. misses' = misses \/ (misses < MaxMisses /\ misses' = misses + 1)
    BY DEF OrderSettled
  <2>2. misses \in 0..MaxMisses
    BY DEF ViewerTypeOK
  <2>3. misses' \in 0..MaxMisses
    BY <2>1, <2>2, BoundsAreNumbers
  <2>4. hasty' \in BOOLEAN
    BY DEF OrderSettled, ViewerTypeOK
  <2> QED
    BY <2>3, <2>4
<1>5. [q EXCEPT !.at = "records"] \in PageCalls
  BY <1>1 DEF PageCalls
<1> QED
  BY <1>1, <1>3, <1>4, <1>5 DEF OnToRecords

\* A viewer that is shown anew.
LEMMA ResetTyped ==
  ASSUME ViewerTypeOK, NEW k \in Keys, NEW i \in Nat \ {0}, NEW r \in 0..Records,
         resetViewerRuntime(k, i, r)
  PROVE  /\ viewer' \in Sessions \cup {NoSession} /\ goal' \in 0..Records
         /\ visible' \in BOOLEAN /\ viewerLoading' \in BOOLEAN /\ hasty' \in BOOLEAN
         /\ opens' = opens + 1 /\ controller' \in 0..opens' /\ opens' \in 0..MaxOpenings
<1>1. /\ viewer' = [key |-> k, index |-> i] /\ goal' = r /\ visible' = TRUE /\ viewerLoading' = FALSE
      /\ opens' = opens + 1 /\ controller' = opens + 1 /\ opens < MaxOpenings
  BY DEF resetViewerRuntime
<1>2. hasty' \in BOOLEAN
  BY DEF resetViewerRuntime, ViewerBusy
<1>3. opens \in 0..MaxOpenings
  BY DEF ViewerTypeOK
<1>4. controller' \in 0..opens' /\ opens' \in 0..MaxOpenings
  BY <1>1, <1>3, BoundsAreNumbers
<1> QED
  BY <1>1, <1>2, <1>4 DEF Sessions

\* Every step of the viewer keeps its types.
LEMMA ViewerTypeNext == ViewerTypeOK /\ [ViewerNext]_viewerVars => ViewerTypeOK'
<1> SUFFICES ASSUME ViewerTypeOK, [ViewerNext]_viewerVars PROVE ViewerTypeOK'
  OBVIOUS
<1>1. CASE UNCHANGED viewerVars
  BY <1>1 DEF viewerVars, ViewerTypeOK, OpeningCalls, PageCalls, Timers
<1>2. ASSUME UNCHANGED opens
      PROVE  OpeningCalls' = OpeningCalls /\ PageCalls' = PageCalls /\ Timers' = Timers
  BY <1>2 DEF OpeningCalls, PageCalls, Timers
<1>3. ASSUME NEW r \in Places \cup {Resume}, openCategoryViewer(r) PROVE ViewerTypeOK'
  <2>1. /\ resetViewerRuntime("category", 1, r)
        /\ rendered' = 0 /\ order["category"].nr < MaxPages
        /\ order' = [order EXCEPT !["category"] = [ids |-> <<>>, hasMore |-> TRUE, page |-> 1,
                                                   nr |-> order["category"].nr + 1]]
        /\ pages' = pages \cup {[PageAsk("opening", opens + 1, "category", 1) EXCEPT !.ids = <<>>]}
        /\ openings' = openings \cup {[token |-> opens + 1, want |-> r, at |-> "page", index |-> 1]}
        /\ UNCHANGED <<moreTimers, leaving, left, misses>>
    BY <1>3 DEF openCategoryViewer
  <2>2. r \in 0..Records /\ "category" \in Keys
    BY BoundsAreNumbers DEF Places, Resume, Keys
  <2>3. order["category"] \in Orders /\ opens \in Nat
    BY <2>2 DEF ViewerTypeOK
  <2>4. order["category"].nr + 1 \in 0..MaxPages
    <3>1. order["category"].nr \in 0..MaxPages /\ order["category"].nr < MaxPages
      BY <2>1, <2>3 DEF Orders
    <3> QED
      BY <3>1, BoundsAreNumbers
  <2>5. order' \in [Keys -> Orders]
    BY <2>1, <2>2, <2>4 DEF ViewerTypeOK, Orders
  <2>6. /\ opens' = opens + 1 /\ controller' \in 0..opens' /\ opens' \in 0..MaxOpenings
        /\ viewer' \in Sessions \cup {NoSession} /\ goal' \in 0..Records
        /\ visible' \in BOOLEAN /\ viewerLoading' \in BOOLEAN /\ hasty' \in BOOLEAN
    BY <2>1, <2>2, ResetTyped
  <2>7. openings' \subseteq OpeningCalls'
    <3>1. [token |-> opens + 1, want |-> r, at |-> "page", index |-> 1] \in OpeningCalls'
      BY <2>2, <2>3, <2>6 DEF OpeningCalls
    <3> QED
      BY <2>1, <2>6, <3>1, StillWaits
  <2>8. pages' \subseteq PageCalls'
    <3>1. [PageAsk("opening", opens + 1, "category", 1) EXCEPT !.ids = <<>>] \in PageCalls'
      <4>1. [PageAsk("opening", opens + 1, "category", 1) EXCEPT !.ids = <<>>] =
              [by |-> "opening", token |-> opens + 1, key |-> "category", page |-> 1,
               nr |-> order["category"].nr + 1, ids |-> <<>>, at |-> "order"]
        BY DEF PageAsk
      <4>2. opens + 1 \in 0..opens'
        BY <2>3, <2>6
      <4>3. <<>> \in Seq(Places) /\ 1 \in Nat
        OBVIOUS
      <4> DEFINE n == order["category"].nr + 1
      <4>4. n \in 0..MaxPages
        BY <2>4
      <4> HIDE DEF n
      <4>5. [by |-> "opening", token |-> opens + 1, key |-> "category", page |-> 1,
             nr |-> n, ids |-> <<>>, at |-> "order"] \in PageCalls'
        BY <2>2, <4>2, <4>3, <4>4 DEF PageCalls
      <4> QED
        BY <4>1, <4>5 DEF n
    <3> QED
      BY <2>1, <2>6, <3>1, StillWaits
  <2>9. moreTimers' \subseteq Timers'
    BY <2>1, <2>6, StillWaits
  <2>10. rendered' \in 0..Records /\ leaving' \in Nat /\ left' \in 0..MaxLeaves /\ misses' \in 0..MaxMisses
    BY <2>1, BoundsAreNumbers DEF ViewerTypeOK
  <2> QED
    BY <2>5, <2>6, <2>7, <2>8, <2>9, <2>10 DEF ViewerTypeOK
<1>4. ASSUME NEW source \in Sources, NEW i \in Places, openViewerFromView(source, i) PROVE ViewerTypeOK'
  <2>1. /\ i \in DOMAIN source.ids
        /\ resetViewerRuntime("view", i, source.ids[i])
        /\ rendered' = source.ids[i]
        /\ order' = [order EXCEPT !["view"] =
                       [ids |-> source.ids, hasMore |-> ~source.single /\ Len(source.ids) < Records,
                        page |-> Len(source.ids), nr |-> order["view"].nr]]
        /\ UNCHANGED <<openings, pages, moreTimers, leaving, left, misses>>
    BY <1>4 DEF openViewerFromView
  <2>2. source.ids \in Seq(Places)
    <3>1. CASE \E n \in Places : source.ids = [j \in 1..n |-> j]
      BY <3>1, BoundsAreNumbers DEF Places
    <3>2. CASE \E r \in Places : source.ids = <<r>>
      BY <3>2
    <3> QED
      BY <3>1, <3>2 DEF Sources
  <2>3. source.ids[i] \in 0..Records /\ i \in Nat \ {0} /\ "view" \in Keys /\ Len(source.ids) \in Nat
    BY <2>1, <2>2, BoundsAreNumbers DEF Places, Keys
  <2>4. /\ opens' = opens + 1 /\ controller' \in 0..opens' /\ opens' \in 0..MaxOpenings
        /\ viewer' \in Sessions \cup {NoSession} /\ goal' \in 0..Records
        /\ visible' \in BOOLEAN /\ viewerLoading' \in BOOLEAN /\ hasty' \in BOOLEAN
    BY <2>1, <2>3, ResetTyped
  <2>5. order' \in [Keys -> Orders]
    <3>1. order["view"].nr \in 0..MaxPages
      BY <2>3 DEF ViewerTypeOK, Orders
    <3>2. (~source.single /\ Len(source.ids) < Records) \in BOOLEAN
      OBVIOUS
    <3>3. order'["view"] \in Orders
      BY <2>1, <2>2, <2>3, <3>1, <3>2 DEF ViewerTypeOK, Orders
    <3> QED
      BY <2>1, <3>3 DEF ViewerTypeOK
  <2>6. openings' \subseteq OpeningCalls' /\ pages' \subseteq PageCalls' /\ moreTimers' \subseteq Timers'
    BY <2>1, <2>4, StillWaits
  <2>7. rendered' \in 0..Records /\ leaving' \in Nat /\ left' \in 0..MaxLeaves /\ misses' \in 0..MaxMisses
    BY <2>1, <2>3 DEF ViewerTypeOK
  <2> QED
    BY <2>4, <2>5, <2>6, <2>7 DEF ViewerTypeOK
<1>5. ASSUME NEW o \in openings, NEW q \in pages, OpeningOrderCame(o, q) PROVE ViewerTypeOK'
  <2>1. /\ OrderSettled(q)
        /\ pages' = pages \ {q} \/ OnToRecords(q)
        /\ openings' = openings \/ openings' = openings \ {o}
        /\ visible' = FALSE \/ visible' = visible
        /\ UNCHANGED <<viewer, rendered, controller, viewerLoading, moreTimers, leaving, goal, opens, left>>
    BY <1>5 DEF OpeningOrderCame, Abandoned
  <2>2. /\ order' \in [Keys -> Orders] /\ misses' \in 0..MaxMisses /\ hasty' \in BOOLEAN
        /\ pages' \subseteq PageCalls'
    BY <2>1, SettledTyped
  <2> QED
    BY <1>2, <2>1, <2>2 DEF ViewerTypeOK
<1>6. ASSUME NEW o \in openings, NEW q \in pages, OpeningRecordsCame(o, q) PROVE ViewerTypeOK'
  <2> DEFINE ids == order["category"].ids
  <2>0. UNCHANGED <<controller, viewerLoading, moreTimers, leaving, goal, hasty, opens, left, misses>>
    BY <1>6 DEF OpeningRecordsCame
  <2>1. ids \in Seq(Places) /\ o \in OpeningCalls /\ PageCalls' = PageCalls /\ OpeningCalls' = OpeningCalls
    BY <1>2, <2>0 DEF ViewerTypeOK, Orders, Keys
  <2>2. CASE /\ openings' = openings \ {o} \/ openings' = (openings \ {o})
                            \cup {[o EXCEPT !.at = IF o.want = Resume THEN "resume" ELSE "record"]}
             /\ pages' = pages \ {q} /\ visible' \in {visible, FALSE}
             /\ UNCHANGED <<order, viewer, rendered>>
    <3>1. [o EXCEPT !.at = IF o.want = Resume THEN "resume" ELSE "record"] \in OpeningCalls
      BY <2>1 DEF OpeningCalls
    <3> QED
      BY <1>2, <2>0, <2>1, <2>2, <3>1 DEF ViewerTypeOK
  <2>3. ASSUME NEW i \in Nat \ {0}, Resolved(o, i, ids, pages \ {q}), UNCHANGED visible PROVE ViewerTypeOK'
    <3>1. /\ viewer' \in Sessions \cup {NoSession} /\ rendered' \in 0..Records
          /\ openings' \subseteq OpeningCalls' /\ pages' \subseteq PageCalls'
          /\ order' \in [Keys -> Orders]
      BY <2>0, <2>1, <2>3, ResolvedTyped
    <3> QED
      BY <1>2, <2>0, <2>3, <3>1 DEF ViewerTypeOK
  <2>4. o.index \in Nat \ {0}
    BY <2>1 DEF OpeningCalls
  <2>5. Holds(ids, o.want) => Position(o.want, ids) \in Nat \ {0}
    BY <2>1, There
  <2>6. \/ /\ openings' = openings \ {o} \/ openings' = (openings \ {o})
                            \cup {[o EXCEPT !.at = IF o.want = Resume THEN "resume" ELSE "record"]}
           /\ pages' = pages \ {q} /\ visible' \in {visible, FALSE}
           /\ UNCHANGED <<order, viewer, rendered>>
        \/ UNCHANGED visible /\ Resolved(o, o.index, ids, pages \ {q})
        \/ UNCHANGED visible /\ Holds(ids, o.want) /\ Resolved(o, Position(o.want, ids), ids, pages \ {q})
    BY <1>6 DEF OpeningRecordsCame, Abandoned
  <2> HIDE DEF ids
  <2> QED
    BY <2>2, <2>3, <2>4, <2>5, <2>6
<1>7. ASSUME NEW o \in openings, RecordCame(o) PROVE ViewerTypeOK'
  <2> DEFINE ids == order["category"].ids
  <2>0. /\ UNCHANGED <<visible, controller, viewerLoading, moreTimers, leaving, goal, opens, left>>
        /\ misses' = misses \/ (misses < MaxMisses /\ misses' = misses + 1)
        /\ hasty' = hasty \/ hasty' = TRUE
    BY <1>7 DEF RecordCame
  <2>1. ids \in Seq(Places) /\ o \in OpeningCalls
    BY DEF ViewerTypeOK, Orders, Keys
  <2>2. misses' \in 0..MaxMisses /\ hasty' \in BOOLEAN
    <3>1. misses \in 0..MaxMisses
      BY DEF ViewerTypeOK
    <3>2. misses' = misses \/ (misses < MaxMisses /\ misses' = misses + 1)
      BY <2>0
    <3>3. misses' \in 0..MaxMisses
      BY <3>1, <3>2, BoundsAreNumbers
    <3>4. hasty' \in BOOLEAN
      BY <2>0 DEF ViewerTypeOK
    <3> QED
      BY <3>3, <3>4
  <2>3. ASSUME NEW i \in Nat \ {0}, NEW now \in Seq(Places), Resolved(o, i, now, pages) PROVE ViewerTypeOK'
    <3>1. /\ viewer' \in Sessions \cup {NoSession} /\ rendered' \in 0..Records
          /\ openings' \subseteq OpeningCalls' /\ pages' \subseteq PageCalls'
          /\ order' \in [Keys -> Orders]
      BY <2>0, <2>3, ResolvedTyped
    <3> QED
      BY <1>2, <2>0, <2>2, <3>1 DEF ViewerTypeOK
  <2>4. \/ Resolved(o, 1, ids, pages)
        \/ ~Holds(ids, o.want) /\ o.at = "record" /\ Resolved(o, Len(ids) + 1, Append(ids, o.want), pages)
    BY <1>7 DEF RecordCame
  <2>5. CASE Resolved(o, 1, ids, pages)
    BY <2>1, <2>3, <2>5
  <2> HIDE DEF ids
  <2>6. CASE o.at = "record" /\ Resolved(o, Len(ids) + 1, Append(ids, o.want), pages)
    <3>0. o.want \in Places
      BY <2>1, <2>6 DEF OpeningCalls, Resume, Places
    <3>1. Append(ids, o.want) \in Seq(Places) /\ Len(ids) + 1 \in Nat \ {0}
      BY <2>1, <3>0
    <3> QED
      BY <2>3, <2>6, <3>1
  <2> QED
    BY <2>4, <2>5, <2>6
<1>8. ASSUME NEW o \in openings, NEW i \in 1..Records + 1, ResumeCame(o, i) PROVE ViewerTypeOK'
  <2>1. order["category"].ids \in Seq(Places) /\ i \in Nat \ {0}
    BY BoundsAreNumbers DEF ViewerTypeOK, Orders, Keys
  <2>2. /\ Resolved(o, i, order["category"].ids, pages)
        /\ UNCHANGED <<visible, controller, viewerLoading, moreTimers, leaving, goal, hasty, opens,
                       left, misses>>
    BY <1>8 DEF ResumeCame
  <2>3. /\ viewer' \in Sessions \cup {NoSession} /\ rendered' \in 0..Records
        /\ openings' \subseteq OpeningCalls' /\ pages' \subseteq PageCalls'
        /\ order' \in [Keys -> Orders]
    BY <2>1, <2>2, ResolvedTyped
  <2> QED
    BY <1>2, <2>2, <2>3 DEF ViewerTypeOK
<1>9. ASSUME NEW i \in Nat \ {0}, viewer # NoSession, Render(i)
      PROVE  viewer' \in Sessions /\ rendered' \in 0..Records /\ goal' \in 0..Records
  <2>1. viewer \in Sessions /\ order[viewer.key].ids \in Seq(Places)
    BY <1>9 DEF ViewerTypeOK, Sessions, Orders
  <2>2. viewer' \in Sessions /\ rendered' \in 0..Records
    BY <1>9, <2>1, There DEF Render, Sessions
  <2> QED
    BY <1>9, <2>2, BoundsAreNumbers DEF Render
<1>10. ASSUME NavigateNext \/ NavigatePrev PROVE ViewerTypeOK'
  <2>1. /\ UNCHANGED <<order, visible, controller, viewerLoading, openings, pages, leaving,
                       opens, left, misses>>
        /\ hasty' \in BOOLEAN /\ viewer # NoSession
        /\ moreTimers' = moreTimers \/ moreTimers' = moreTimers \cup {Soon}
    BY <1>10 DEF NavigateNext, NavigatePrev, Navigates, ViewerTypeOK
  <2>2. viewer \in Sessions
    BY <2>1 DEF ViewerTypeOK
  <2>3. /\ viewer' \in Sessions \cup {NoSession} /\ rendered' \in 0..Records /\ goal' \in 0..Records
    <3>1. UNCHANGED <<viewer, rendered, goal>> \/ Render(viewer.index + 1)
             \/ (viewer.index > 1 /\ Render(viewer.index - 1))
      BY <1>10 DEF NavigateNext, NavigatePrev
    <3>2. viewer.index + 1 \in Nat \ {0} /\ (viewer.index > 1 => viewer.index - 1 \in Nat \ {0})
      BY <2>2 DEF Sessions
    <3> QED
      BY <1>9, <2>1, <3>1, <3>2 DEF ViewerTypeOK
  <2>4. Soon \in Timers
    BY BoundsAreNumbers DEF Soon, ViewerTypeOK, Timers
  <2> QED
    BY <1>2, <2>1, <2>3, <2>4 DEF ViewerTypeOK
<1>11. ASSUME NEW t \in moreTimers, LoadMore(t) PROVE ViewerTypeOK'
  <2>1. /\ moreTimers' = moreTimers \ {t}
        /\ UNCHANGED <<viewer, rendered, visible, controller, openings, leaving, goal, hasty,
                       opens, left, misses>>
    BY <1>11 DEF LoadMore
  <2>2. CASE UNCHANGED <<viewerLoading, order, pages>>
    BY <1>2, <2>1, <2>2 DEF ViewerTypeOK
  <2>3. CASE /\ viewerLoading' = TRUE /\ MayLoadMore(t)
             /\ AskPage("more", IF t.token = 0 THEN controller ELSE t.token, viewer.key,
                        order[viewer.key].page + 1, pages)
    <3> DEFINE k == viewer.key
               token == IF t.token = 0 THEN controller ELSE t.token
               page == order[k].page + 1
    <3>1. k \in Keys /\ order[k] \in Orders /\ token \in 0..opens
      BY <2>3 DEF Timers, MayLoadMore, ViewerTypeOK, Sessions
    <3>2. /\ order[k].nr < MaxPages
          /\ order' = [order EXCEPT ![k].nr = @ + 1, ![k].page = page]
          /\ pages' = pages \cup {PageAsk("more", token, k, page)}
      BY <2>3 DEF AskPage
    <3>3. page \in Nat /\ order[k].nr + 1 \in 0..MaxPages
      <4>1. order[k].page \in Nat /\ order[k].nr \in 0..MaxPages
        BY <3>1 DEF Orders
      <4> QED
        BY <3>2, <4>1, BoundsAreNumbers
    <3>4. order' \in [Keys -> Orders]
      BY <3>1, <3>2, <3>3 DEF ViewerTypeOK, Orders
    <3> HIDE DEF k, token, page
    <3>5. PageAsk("more", token, k, page) \in PageCalls
      BY <3>1, <3>3 DEF PageAsk, PageCalls, Orders
    <3> QED
      BY <1>2, <2>1, <2>3, <3>2, <3>4, <3>5 DEF ViewerTypeOK
  <2> QED
    BY <1>11, <2>2, <2>3 DEF LoadMore
<1>12. ASSUME NEW q \in pages, MoreOrderCame(q) PROVE ViewerTypeOK'
  <2>1. /\ OrderSettled(q)
        /\ pages' = pages \ {q} \/ OnToRecords(q)
        /\ viewerLoading' \in {FALSE, viewerLoading}
        /\ UNCHANGED <<viewer, rendered, visible, controller, openings, moreTimers, leaving, goal,
                       opens, left>>
    BY <1>12 DEF MoreOrderCame
  <2>2. /\ order' \in [Keys -> Orders] /\ misses' \in 0..MaxMisses /\ hasty' \in BOOLEAN
        /\ pages' \subseteq PageCalls'
    BY <2>1, SettledTyped
  <2> QED
    BY <1>2, <2>1, <2>2 DEF ViewerTypeOK
<1>13. ASSUME NEW q \in pages, MoreRecordsCame(q) PROVE ViewerTypeOK'
  <2>1. /\ pages' = pages \ {q} /\ viewerLoading' = FALSE
        /\ moreTimers' \subseteq moreTimers \cup {[key |-> q.key, token |-> q.token]}
        /\ UNCHANGED <<order, viewer, rendered, visible, controller, openings, leaving, goal,
                       hasty, opens, left, misses>>
    BY <1>13 DEF MoreRecordsCame
  <2>2. [key |-> q.key, token |-> q.token] \in Timers
    BY DEF ViewerTypeOK, PageCalls, Timers
  <2>3. moreTimers' \subseteq Timers
    BY <2>1, <2>2 DEF ViewerTypeOK
  <2> QED
    BY <1>2, <2>1, <2>3 DEF ViewerTypeOK
<1>14. CASE GoBack
  <2>1. left' \in 0..MaxLeaves /\ leaving' \in Nat /\ hasty' \in BOOLEAN
    BY <1>14, BoundsAreNumbers DEF GoBack, ViewerTypeOK
  <2> QED
    BY <1>2, <1>14, <2>1 DEF GoBack, ViewerTypeOK
<1>15. CASE StateSaved
  <2>1. leaving' \in Nat /\ controller' \in 0..opens /\ rendered' \in 0..Records /\ goal' \in 0..Records
    BY <1>15, BoundsAreNumbers DEF StateSaved, ViewerTypeOK
  <2> QED
    BY <1>2, <1>15, <2>1 DEF StateSaved, ViewerTypeOK
<1> QED
  BY <1>1, <1>3, <1>4, <1>5, <1>6, <1>7, <1>8, <1>10, <1>11, <1>12, <1>13, <1>14, <1>15 DEF ViewerNext
-----------------------------------------------------------------------------
(* What the viewer shows, and its pages.  Orderly is about a viewer that is  *)
(* opened and left with nothing else under way.  Then at most one opening     *)
(* waits, with one request of its own or none, and once it has ended at most  *)
(* one request for the next page.                                             *)

\* All pages up to p are there.
Filled(o, p) == \A r \in Places : r <= p => Holds(o.ids, r)
\* The request q is the last of view k; no page before its own is missing, neither in
\* the ids it took along nor, once its order has come, in the view.
Awaited(q, k) ==
    /\ q.key = k /\ q.page = order[k].page /\ q.nr = order[k].nr
    /\ IF q.at = "order" THEN q.ids = order[k].ids /\ \A r \in Places : r < q.page => Holds(q.ids, r)
       ELSE Filled(order[k], q.page)
\* The one record of openSingleMediaViewer.
OneRecord(k) == k = "view" /\ ~order[k].hasMore /\ Len(order[k].ids) = 1

\* The opening o is all that is under way: it asks for a page, has all pages there
\* that were asked for, or waits for its record.
Lone(o) ==
    /\ openings = {o} /\ o.token = opens /\ goal = o.want
    /\ viewer # NoSession /\ viewer.key = "category"
    /\ leaving = 0 /\ ~viewerLoading
    /\ \A t \in moreTimers : Aborted(t.token)
    /\ IF o.at \in {"page", "index"}
       THEN \E q \in pages : pages = {q} /\ q.by = "opening" /\ q.token = o.token /\ Awaited(q, "category")
       ELSE pages = {} /\ Filled(order["category"], order["category"].page)
    /\ o.at = "record" => o.want # Resume /\ ~Holds(order["category"].ids, o.want)
    /\ o.at \in {"resume", "index"} => o.want = Resume

\* The viewer is open, and at most the next page is under way.
OpenNow ==
    /\ goal # 0 => rendered = goal
    /\ IF viewerLoading
       THEN \E q \in pages : pages = {q} /\ q.by = "more" /\ q.token = opens /\ Awaited(q, viewer.key)
       ELSE pages = {} /\ (Filled(order[viewer.key], order[viewer.key].page) \/ OneRecord(viewer.key))

Orderly ==
    /\ viewer = NoSession => ~visible /\ openings = {}
    /\ viewer # NoSession => visible /\ controller = opens /\ opens # 0
    /\ \A o \in openings : Lone(o)
    /\ viewer # NoSession /\ openings = {} => OpenNow

ViewerInv == ViewerTypeOK /\ (~hasty => Orderly)

\* It holds at first.
LEMMA OrderlyInit == ViewerInit => ViewerInv
BY ViewerTypeInit DEF ViewerInit, ViewerInv, Orderly

\* An opening that begins with nothing under way is alone.
LEMMA OpeningOrderly ==
  ASSUME ViewerInv, NEW r \in Places \cup {Resume}, openCategoryViewer(r), ~hasty'
  PROVE  Orderly'
<1>a. PICK o : o = [token |-> opens + 1, want |-> r, at |-> "page", index |-> 1]
  OBVIOUS
<1>b. PICK q : q = [PageAsk("opening", opens + 1, "category", 1) EXCEPT !.ids = <<>>]
  OBVIOUS
<1>1. /\ ~ViewerBusy /\ opens' = opens + 1 /\ controller' = opens + 1 /\ viewerLoading' = FALSE
      /\ viewer' = [key |-> "category", index |-> 1] /\ visible' = TRUE /\ goal' = r
      /\ order' = [order EXCEPT !["category"] = [ids |-> <<>>, hasMore |-> TRUE, page |-> 1,
                                                 nr |-> order["category"].nr + 1]]
      /\ pages' = pages \cup {q} /\ openings' = openings \cup {o}
      /\ UNCHANGED <<moreTimers, leaving>>
  BY <1>a, <1>b DEF openCategoryViewer, resetViewerRuntime
<1>2. openings' = {o} /\ pages' = {q} /\ leaving' = 0 /\ \A t \in moreTimers : t.token # 0
  BY <1>1 DEF ViewerBusy
<1>3. viewer' # NoSession /\ viewer'.key = "category"
  BY <1>1, ViewerAssumption
<1>4. /\ opens \in Nat /\ \A t \in moreTimers : t.token \in 0..opens
      /\ "category" \in Keys /\ order \in [Keys -> Orders]
  BY BoundsAreNumbers DEF Timers, ViewerInv, ViewerTypeOK, Keys
<1>5. \A t \in moreTimers' : Aborted(t.token)'
  BY <1>1, <1>2, <1>4 DEF Aborted
<1>6. Awaited(q, "category")'
  <2>1. /\ q.key = "category" /\ q.page = 1 /\ q.nr = order["category"].nr + 1 /\ q.ids = <<>>
        /\ q.at = "order" /\ q.by = "opening" /\ q.token = opens + 1
    BY <1>b DEF PageAsk
  <2>2. order'["category"].ids = <<>> /\ order'["category"].page = 1 /\ order'["category"].nr = order["category"].nr + 1
    BY <1>1, <1>4
  <2>3. \A s \in Places : ~(s < 1)
    BY BoundsAreNumbers DEF Places
  <2> QED
    BY <2>1, <2>2, <2>3 DEF Awaited
<1>7. q.by = "opening" /\ q.token = opens + 1
  BY <1>b DEF PageAsk
<1>8. Lone(o)'
  BY <1>a, <1>1, <1>2, <1>3, <1>5, <1>6, <1>7 DEF Lone
<1> QED
  BY <1>1, <1>2, <1>3, <1>4, <1>8 DEF Orderly

\* A viewer over pages that are loaded is open at once.
LEMMA ShowingOrderly ==
  ASSUME ViewerInv, NEW source \in Sources, NEW i \in Places, openViewerFromView(source, i), ~hasty'
  PROVE  Orderly'
<1>1. /\ ~ViewerBusy /\ opens' = opens + 1 /\ controller' = opens + 1 /\ viewerLoading' = FALSE
      /\ viewer' = [key |-> "view", index |-> i] /\ visible' = TRUE /\ goal' = source.ids[i]
      /\ rendered' = source.ids[i]
      /\ order' = [order EXCEPT !["view"] =
                     [ids |-> source.ids, hasMore |-> ~source.single /\ Len(source.ids) < Records,
                      page |-> Len(source.ids), nr |-> order["view"].nr]]
      /\ UNCHANGED <<openings, pages>>
  BY DEF openViewerFromView, resetViewerRuntime
<1>2. openings' = {} /\ pages' = {}
  BY <1>1 DEF ViewerBusy
<1>3. viewer' # NoSession /\ viewer'.key = "view" /\ opens \in Nat
  BY <1>1, ViewerAssumption, BoundsAreNumbers, PlacesFrom1 DEF ViewerInv, ViewerTypeOK
<1>4. /\ order'["view"].ids = source.ids /\ order'["view"].page = Len(source.ids)
      /\ order'["view"].hasMore = (~source.single /\ Len(source.ids) < Records)
  BY <1>1 DEF ViewerInv, ViewerTypeOK, Keys
<1>5. CASE source.single /\ \E r \in Places : source.ids = <<r>>
  <2>1. OneRecord("view")'
    BY <1>4, <1>5 DEF OneRecord
  <2> QED
    BY <1>1, <1>2, <1>3, <2>1 DEF Orderly, OpenNow
<1>6. CASE \E n \in Places : source.ids = [j \in 1..n |-> j]
  <2>1. PICK n \in Places : source.ids = [j \in 1..n |-> j]
    BY <1>6
  <2>2. n \in Nat /\ Len(source.ids) = n
    BY <2>1, PlacesFrom1
  <2>3. \A s \in Places : s <= n => s \in 1..n
    BY <2>2, BoundsAreNumbers DEF Places
  <2>4. Filled(order'["view"], n)
    BY <1>4, <2>1, <2>3 DEF Filled, Holds
  <2>5. Filled(order["view"], order["view"].page)'
    BY <1>4, <2>2, <2>4 DEF Filled
  <2> QED
    BY <1>1, <1>2, <1>3, <2>5 DEF Orderly, OpenNow
<1> QED
  BY <1>5, <1>6 DEF Sources

\* An order that comes is that of the page that is awaited.
LEMMA OrderCame ==
  ASSUME ViewerInv, NEW q \in pages, NEW k \in Keys, Awaited(q, k), OrderSettled(q), ~hasty'
  PROVE  /\ order'[k].page = q.page /\ order'[k].nr = q.nr
         /\ Awaited([q EXCEPT !.at = "records"], k)'
<1>1. q \in PageCalls /\ order[k] \in Orders /\ order \in [Keys -> Orders]
  BY DEF ViewerInv, ViewerTypeOK
<1>2. order' = [order EXCEPT ![k].ids = MergedIds(q.ids, q.page), ![k].hasMore = q.page < Records]
  BY DEF OrderSettled, Awaited
<1>3. q.at = "order" /\ q.key = k /\ \A r \in Places : r < q.page => Holds(q.ids, r)
  BY DEF OrderSettled, Awaited
<1>4. /\ order'[k].ids = MergedIds(q.ids, q.page)
      /\ order'[k].page = q.page /\ order'[k].nr = q.nr
  BY <1>1, <1>2 DEF Awaited, Orders
<1>5. q.ids \in Seq(Places) /\ q.page \in Nat
  BY <1>1 DEF PageCalls
<1>6. ASSUME NEW r \in Places, r <= q.page PROVE Holds(MergedIds(q.ids, q.page), r)
  <2>1. r \in Nat
    BY PlacesFrom1
  <2>2. r < q.page \/ r = q.page
    BY <1>5, <1>6, <2>1
  <2> QED
    BY <1>3, <1>5, <2>2, Merged
<1>7. [q EXCEPT !.at = "records"].at = "records" /\ [q EXCEPT !.at = "records"].key = k
      /\ [q EXCEPT !.at = "records"].page = q.page /\ [q EXCEPT !.at = "records"].nr = q.nr
  BY <1>1, <1>3 DEF PageCalls
<1> QED
  BY <1>4, <1>6, <1>7 DEF Awaited, Filled

\* An opening that is resolved to a record that is there, or one that resumes, with
\* all pages there that were asked for: it is over, or waits for the next page.
LEMMA ResolvedOrderly ==
  ASSUME ViewerInv, ~hasty, NEW o \in openings, NEW i \in Nat \ {0}, NEW ids \in Seq(Places),
         \A r \in Places : r <= order["category"].page => Holds(ids, r),
         o.want # Resume => i <= Len(ids) /\ RecordAt(ids, i) = o.want,
         o.want = Resume => ids = order["category"].ids,
         Resolved(o, i, ids, {}),
         UNCHANGED <<visible, controller, viewerLoading, moreTimers, leaving, goal, opens>>
  PROVE  Orderly'
<1>1. Orderly /\ Lone(o) /\ visible /\ controller = opens /\ opens # 0
  BY DEF ViewerInv, Orderly, Lone
<1>2. /\ openings = {o} /\ o.token = opens /\ goal = o.want /\ leaving = 0 /\ ~viewerLoading
      /\ viewer # NoSession /\ viewer.key = "category"
      /\ \A t \in moreTimers : Aborted(t.token)
  BY <1>1 DEF Lone
<1>3. /\ order \in [Keys -> Orders] /\ "category" \in Keys /\ order["category"] \in Orders
      /\ order["category"].page \in Nat
      /\ o \in OpeningCalls
  BY DEF ViewerInv, ViewerTypeOK, Keys, Orders
<1>4. CASE i > Len(ids) /\ order["category"].hasMore
  <2>a. PICK q : q = PageAsk("opening", o.token, "category", order["category"].page + 1)
    OBVIOUS
  <2>b. PICK now : now = [o EXCEPT !.at = "index", !.index = i]
    OBVIOUS
  <2>1. /\ order' = [order EXCEPT !["category"].nr = @ + 1, !["category"].page = order["category"].page + 1]
        /\ pages' = {q} /\ openings' = {now}
        /\ UNCHANGED <<viewer, rendered>>
    BY <1>2, <1>4, <2>a, <2>b DEF Resolved, AskPage
  <2>2. o.want = Resume
    <3>1. Len(ids) \in Nat
      OBVIOUS
    <3> QED
      BY <1>4, <3>1
  <2>3. now.token = opens /\ now.want = Resume /\ now.at = "index"
    BY <1>2, <1>3, <2>2, <2>b DEF OpeningCalls
  <2>4. /\ q.key = "category" /\ q.page = order["category"].page + 1
        /\ q.nr = order["category"].nr + 1 /\ q.ids = order["category"].ids
        /\ q.at = "order" /\ q.by = "opening" /\ q.token = opens
    BY <1>2, <2>a DEF PageAsk
  <2>5. /\ order'["category"].ids = order["category"].ids
        /\ order'["category"].page = order["category"].page + 1
        /\ order'["category"].nr = order["category"].nr + 1
    BY <1>3, <2>1 DEF Orders
  <2>6. \A r \in Places : r < order["category"].page + 1 => r <= order["category"].page
    BY <1>3, PlacesFrom1
  <2>7. Awaited(q, "category")'
    BY <2>2, <2>4, <2>5, <2>6 DEF Awaited
  <2>8. \A t \in moreTimers' : Aborted(t.token)'
    BY <1>2 DEF Aborted
  <2>9. Lone(now)'
    BY <1>2, <2>1, <2>2, <2>3, <2>4, <2>7, <2>8 DEF Lone
  <2> QED
    BY <1>1, <1>2, <2>1, <2>9 DEF Orderly
<1>5. CASE ~(i > Len(ids) /\ order["category"].hasMore)
  <2>1. /\ viewer' = [key |-> "category", index |-> IF i > Len(ids) THEN 1 ELSE i]
        /\ rendered' = RecordAt(ids, IF i > Len(ids) THEN 1 ELSE i)
        /\ openings' = {} /\ pages' = {}
        /\ order' = [order EXCEPT !["category"].ids = ids]
    BY <1>2, <1>5 DEF Resolved
  <2>2. viewer' # NoSession /\ viewer'.key = "category"
    <3>1. (IF i > Len(ids) THEN 1 ELSE i) \in Nat
      OBVIOUS
    <3> QED
      BY <2>1, <3>1, ViewerAssumption
  <2>3. goal' # 0 => rendered' = goal'
    <3>1. Len(ids) \in Nat
      OBVIOUS
    <3> QED
      BY <1>2, <2>1, <3>1 DEF Resume
  <2>4. order'["category"].ids = ids /\ order'["category"].page = order["category"].page
    BY <1>3, <2>1 DEF Orders
  <2>5. Filled(order["category"], order["category"].page)'
    BY <2>4 DEF Filled
  <2> QED
    BY <1>1, <1>2, <2>1, <2>2, <2>3, <2>5 DEF Orderly, OpenNow
<1> QED
  BY <1>4, <1>5

\* Every step keeps it, unless it makes hasty true.
LEMMA OrderlyNext ==
  ASSUME ViewerInv, [ViewerNext]_viewerVars, ~hasty'
  PROVE  Orderly'
<1>0. ViewerTypeOK /\ order \in [Keys -> Orders] /\ "category" \in Keys /\ order["category"] \in Orders
  BY DEF ViewerInv, ViewerTypeOK, Keys
<1>1. CASE UNCHANGED viewerVars
  BY <1>1 DEF viewerVars, ViewerInv, Orderly, Lone, OpenNow, Awaited, Filled, OneRecord, Aborted
<1>2. ASSUME NEW r \in Places \cup {Resume}, openCategoryViewer(r) PROVE Orderly'
  BY <1>2, OpeningOrderly
<1>3. ASSUME NEW source \in Sources, NEW i \in Places, openViewerFromView(source, i) PROVE Orderly'
  BY <1>3, ShowingOrderly
<1>4. ASSUME ~hasty, NEW o \in openings
      PROVE  /\ Orderly /\ Lone(o) /\ ~Aborted(o.token) /\ controller = opens
             /\ visible /\ viewer # NoSession
  BY <1>4 DEF ViewerInv, Orderly, Lone, Aborted
<1>5. ASSUME NEW o \in openings, NEW q \in pages, OpeningOrderCame(o, q) PROVE Orderly'
  <2>1. /\ Opens(o, q) /\ OrderSettled(q)
        /\ UNCHANGED <<controller, viewerLoading, moreTimers, leaving, goal, opens>>
    BY <1>5 DEF OpeningOrderCame
  <2>2. ~hasty
    BY <2>1 DEF OrderSettled
  <2>3. Orderly /\ Lone(o) /\ ~Aborted(o.token) /\ controller = opens /\ visible /\ viewer # NoSession
    BY <1>4, <2>2
  <2>4. PICK now : now = [q EXCEPT !.at = "records"]
    OBVIOUS
  <2>5. /\ pages' = (pages \ {q}) \cup {now}
        /\ UNCHANGED <<openings, visible, viewer, rendered>>
    BY <1>5, <2>3, <2>4 DEF OpeningOrderCame, OnToRecords
  <2>6. /\ openings = {o} /\ o.token = opens /\ goal = o.want /\ viewer.key = "category"
        /\ leaving = 0 /\ ~viewerLoading /\ \A t \in moreTimers : Aborted(t.token)
        /\ o.at \in {"page", "index"} /\ pages = {q} /\ Awaited(q, "category")
        /\ o.at \in {"resume", "index"} => o.want = Resume
    BY <2>3 DEF Lone
  <2>7. pages' = {now} /\ now.by = "opening" /\ now.token = o.token
    BY <2>1, <2>4, <2>5, <2>6 DEF Opens
  <2>8. Awaited(now, "category")'
    BY <1>0, <2>1, <2>4, <2>6, OrderCame
  <2>9. \A t \in moreTimers' : Aborted(t.token)'
    BY <2>1, <2>6 DEF Aborted
  <2>10. Lone(o)'
    BY <2>1, <2>3, <2>5, <2>6, <2>7, <2>8, <2>9 DEF Lone
  <2> QED
    BY <2>1, <2>3, <2>5, <2>6, <2>10 DEF Orderly
<1>6. ASSUME NEW o \in openings, NEW q \in pages, OpeningRecordsCame(o, q) PROVE Orderly'
  <2> DEFINE ids == order["category"].ids
  <2>1. /\ Opens(o, q) /\ q.at = "records" /\ ~hasty
        /\ UNCHANGED <<controller, viewerLoading, moreTimers, leaving, goal, hasty, opens>>
    BY <1>6 DEF OpeningRecordsCame
  <2>2. Orderly /\ Lone(o) /\ ~Aborted(o.token) /\ controller = opens /\ visible /\ viewer # NoSession
    BY <1>4, <2>1
  <2>3. /\ openings = {o} /\ o.token = opens /\ goal = o.want /\ viewer.key = "category"
        /\ leaving = 0 /\ ~viewerLoading /\ \A t \in moreTimers : Aborted(t.token)
        /\ o.at \in {"page", "index"} /\ pages = {q} /\ Awaited(q, "category")
        /\ o.at \in {"resume", "index"} => o.want = Resume
    BY <2>2 DEF Lone
  <2>4. ids \in Seq(Places) /\ o \in OpeningCalls /\ o.index \in Nat \ {0}
    BY <1>0 DEF Orders, ViewerTypeOK, OpeningCalls
  <2>5. \A r \in Places : r <= order["category"].page => Holds(ids, r)
    BY <2>1, <2>3 DEF Awaited, Filled
  <2>6. pages \ {q} = {}
    BY <2>3
  <2>7. CASE o.at = "index"
    <3>1. Resolved(o, o.index, ids, {}) /\ UNCHANGED visible
      BY <1>6, <2>2, <2>6, <2>7 DEF OpeningRecordsCame
    <3> QED
      BY <2>1, <2>3, <2>4, <2>5, <2>7, <3>1, ResolvedOrderly
  <2>8. CASE o.at # "index" /\ Holds(ids, o.want)
    <3>1. Resolved(o, Position(o.want, ids), ids, {}) /\ UNCHANGED visible
      BY <1>6, <2>2, <2>6, <2>8 DEF OpeningRecordsCame
    <3>2. /\ Position(o.want, ids) \in 1..Len(ids) /\ Position(o.want, ids) \in Nat \ {0}
          /\ RecordAt(ids, Position(o.want, ids)) = o.want
      BY <2>4, <2>8, There
    <3>3. Position(o.want, ids) <= Len(ids)
      BY <2>4, <3>2
    <3> HIDE DEF ids
    <3> QED
      BY <2>1, <2>4, <2>5, <3>1, <3>2, <3>3, ResolvedOrderly DEF ids
  <2>9. CASE o.at # "index" /\ ~Holds(ids, o.want)
    <3>1. PICK now : now = [o EXCEPT !.at = IF o.want = Resume THEN "resume" ELSE "record"]
      OBVIOUS
    <3>2. openings' = {now} /\ pages' = {} /\ UNCHANGED <<order, viewer, rendered, visible>>
      BY <1>6, <2>2, <2>3, <2>9, <3>1 DEF OpeningRecordsCame
    <3>3. /\ now.token = o.token /\ now.want = o.want
          /\ now.at = IF o.want = Resume THEN "resume" ELSE "record"
      BY <2>4, <3>1 DEF OpeningCalls
    <3>4. Filled(order["category"], order["category"].page)'
      BY <2>5, <3>2 DEF Filled
    <3>5. \A t \in moreTimers' : Aborted(t.token)'
      BY <2>1, <2>3 DEF Aborted
    <3>6. Lone(now)'
      BY <2>1, <2>2, <2>3, <2>9, <3>2, <3>3, <3>4, <3>5 DEF Lone
    <3> QED
      BY <2>1, <2>2, <2>3, <3>2, <3>6 DEF Orderly
  <2> QED
    BY <2>7, <2>8, <2>9
<1>7. ASSUME NEW o \in openings, RecordCame(o) PROVE Orderly'
  <2> DEFINE ids == order["category"].ids
  <2>1. /\ o.at = "record" /\ ~hasty
        /\ UNCHANGED <<visible, controller, viewerLoading, moreTimers, leaving, goal, opens>>
    BY <1>7 DEF RecordCame
  <2>2. Lone(o) /\ ~Aborted(o.token)
    BY <1>4, <2>1
  <2>3. pages = {} /\ Filled(order["category"], order["category"].page) /\ o.want # Resume /\ ~Holds(ids, o.want)
    BY <2>1, <2>2 DEF Lone
  <2>4. ids \in Seq(Places) /\ o.want \in Places
    BY <1>0, <2>3 DEF Orders, ViewerTypeOK, OpeningCalls, Places, Resume
  <2>5. Resolved(o, Len(ids) + 1, Append(ids, o.want), {})
    BY <1>7, <2>2, <2>3 DEF RecordCame
  <2>6. /\ Append(ids, o.want) \in Seq(Places)
        /\ Len(ids) + 1 <= Len(Append(ids, o.want)) /\ Len(ids) + 1 \in Nat \ {0}
        /\ RecordAt(Append(ids, o.want), Len(ids) + 1) = o.want
        /\ \A r \in Places : r <= order["category"].page => Holds(Append(ids, o.want), r)
    <3>1. Len(ids) \in Nat
      BY <2>4
    <3> QED
      BY <2>3, <2>4, <3>1, Added DEF Filled
  <2> QED
    BY <2>1, <2>3, <2>5, <2>6, ResolvedOrderly
<1>8. ASSUME NEW o \in openings, NEW i \in 1..Records + 1, ResumeCame(o, i) PROVE Orderly'
  <2>1. /\ o.at = "resume" /\ ~hasty /\ Resolved(o, i, order["category"].ids, pages)
        /\ UNCHANGED <<visible, controller, viewerLoading, moreTimers, leaving, goal, opens>>
    BY <1>8 DEF ResumeCame
  <2>2. pages = {} /\ Filled(order["category"], order["category"].page) /\ o.want = Resume
    BY <1>4, <2>1 DEF Lone
  <2>3. i \in Nat \ {0} /\ order["category"].ids \in Seq(Places)
    BY <1>0, BoundsAreNumbers DEF Orders
  <2> QED
    BY <2>1, <2>2, <2>3, ResolvedOrderly DEF Filled
<1>9. ASSUME NavigateNext \/ NavigatePrev PROVE Orderly'
  <2>1. /\ ~hasty /\ openings = {} /\ visible /\ viewer # NoSession
        /\ UNCHANGED <<order, visible, controller, viewerLoading, openings, pages, opens>>
    BY <1>9 DEF NavigateNext, NavigatePrev, Navigates
  <2>2. Orderly /\ OpenNow
    BY <2>1 DEF ViewerInv, Orderly
  <2>3. viewer \in Sessions
    BY <1>0, <2>1 DEF ViewerTypeOK
  <2>4. \/ UNCHANGED <<viewer, rendered, goal>>
        \/ \E i \in Nat : viewer' = [viewer EXCEPT !.index = i] /\ goal' = 0
    <3>1. UNCHANGED <<viewer, rendered, goal>> \/ Render(viewer.index + 1)
             \/ (viewer.index > 1 /\ Render(viewer.index - 1))
      BY <1>9 DEF NavigateNext, NavigatePrev
    <3>2. viewer.index + 1 \in Nat /\ (viewer.index > 1 => viewer.index - 1 \in Nat)
      BY <2>3 DEF Sessions
    <3> QED
      BY <3>1, <3>2 DEF Render
  <2>5. viewer'.key = viewer.key /\ viewer' # NoSession /\ (goal' # 0 => rendered' = goal')
    <3>1. CASE UNCHANGED <<viewer, rendered, goal>>
      BY <2>1, <2>2, <3>1 DEF OpenNow
    <3>2. ASSUME NEW i \in Nat, viewer' = [viewer EXCEPT !.index = i], goal' = 0
          PROVE  viewer'.key = viewer.key /\ viewer' # NoSession
      <4>1. viewer'.key = viewer.key /\ viewer' \in [key: {"category", "view"}, index: Nat]
        BY <2>3, <3>2 DEF Sessions, Keys
      <4> QED
        BY <4>1, ViewerAssumption
    <3> QED
      BY <2>4, <3>1, <3>2
  <2>6. OpenNow'
    BY <2>1, <2>2, <2>5 DEF OpenNow, Awaited, Filled, OneRecord
  <2> QED
    BY <2>1, <2>2, <2>5, <2>6 DEF Orderly
<1>10. ASSUME NEW t \in moreTimers, LoadMore(t) PROVE Orderly'
  <2>1. /\ ~hasty /\ moreTimers' = moreTimers \ {t}
        /\ UNCHANGED <<viewer, rendered, visible, controller, openings, leaving, goal, hasty, opens>>
    BY <1>10 DEF LoadMore
  <2>2. Orderly
    BY <2>1 DEF ViewerInv
  <2>3. CASE ~MayLoadMore(t)
    <3>1. UNCHANGED <<viewerLoading, order, pages>>
      BY <1>10, <2>3 DEF LoadMore
    <3> QED
      BY <2>1, <2>2, <3>1 DEF Orderly, Lone, OpenNow, Awaited, Filled, OneRecord, Aborted
  <2>4. CASE MayLoadMore(t)
    <3>1. viewer # NoSession /\ ~viewerLoading /\ order[viewer.key].hasMore /\ ~Aborted(t.token)
      BY <2>4 DEF MayLoadMore
    <3>2. openings = {} /\ controller = opens /\ OpenNow /\ visible /\ opens # 0
      BY <1>10, <2>2, <3>1 DEF Orderly, Lone
    <3>3. PICK k : k = viewer.key
      OBVIOUS
    <3>4. k \in Keys /\ order[k] \in Orders /\ order[k].page \in Nat
      BY <1>0, <3>1, <3>3 DEF ViewerTypeOK, Sessions, Orders
    <3>5. pages = {} /\ Filled(order[k], order[k].page)
      BY <3>1, <3>2, <3>3 DEF OpenNow, OneRecord
    <3>6. (IF t.token = 0 THEN controller ELSE t.token) = opens
      BY <3>1, <3>2 DEF Aborted
    <3>7. PICK q : q = PageAsk("more", opens, k, order[k].page + 1)
      OBVIOUS
    <3>8. /\ viewerLoading' = TRUE
          /\ order' = [order EXCEPT ![k].nr = @ + 1, ![k].page = order[k].page + 1]
          /\ pages' = {q}
      BY <1>10, <2>4, <3>3, <3>5, <3>6, <3>7 DEF LoadMore, AskPage
    <3>9. /\ q.key = k /\ q.page = order[k].page + 1 /\ q.nr = order[k].nr + 1
          /\ q.ids = order[k].ids /\ q.at = "order" /\ q.by = "more" /\ q.token = opens
      BY <3>7 DEF PageAsk
    <3>10. /\ order'[k].ids = order[k].ids /\ order'[k].page = order[k].page + 1
           /\ order'[k].nr = order[k].nr + 1
      BY <1>0, <3>4, <3>8 DEF Orders
    <3>11. \A r \in Places : r < order[k].page + 1 => r <= order[k].page
      BY <3>4, PlacesFrom1
    <3>12. Awaited(q, k)'
      BY <3>5, <3>9, <3>10, <3>11 DEF Awaited, Filled
    <3>13. OpenNow'
      BY <2>1, <3>2, <3>3, <3>8, <3>9, <3>12 DEF OpenNow
    <3> QED
      BY <2>1, <3>1, <3>2, <3>13 DEF Orderly
  <2> QED
    BY <2>3, <2>4
<1>11. ASSUME NEW q \in pages, MoreOrderCame(q) PROVE Orderly'
  <2>1. /\ q.by = "more" /\ OrderSettled(q) /\ ~hasty
        /\ UNCHANGED <<viewer, rendered, visible, controller, openings, moreTimers, leaving, goal, opens>>
    BY <1>11 DEF MoreOrderCame, OrderSettled
  <2>2. Orderly
    BY <2>1 DEF ViewerInv
  <2>3. openings = {}
    BY <2>1, <2>2 DEF Orderly, Lone
  <2>4. CASE viewer = NoSession
    BY <2>1, <2>2, <2>3, <2>4 DEF Orderly
  <2>5. CASE viewer # NoSession
    <3>1. /\ OpenNow /\ viewerLoading /\ pages = {q} /\ q.token = opens /\ Awaited(q, viewer.key)
          /\ controller = opens /\ visible /\ opens # 0 /\ viewer.key \in Keys
      BY <2>2, <2>3, <2>5, <1>0 DEF Orderly, OpenNow, ViewerTypeOK, Sessions
    <3>2. PICK now : now = [q EXCEPT !.at = "records"]
      OBVIOUS
    <3>3. pages' = {now} /\ UNCHANGED viewerLoading /\ now.by = "more" /\ now.token = opens
      <4>1. q \in PageCalls
        BY <1>0 DEF ViewerTypeOK
      <4> QED
        BY <1>11, <2>1, <3>1, <3>2, <4>1 DEF MoreOrderCame, OnToRecords, Aborted, PageCalls
    <3>4. Awaited(now, viewer.key)'
      <4> PICK k : k = viewer.key
        OBVIOUS
      <4>1. Awaited(now, k)'
        BY <2>1, <3>1, <3>2, OrderCame
      <4> QED
        BY <2>1, <4>1
    <3>5. OpenNow'
      BY <2>1, <3>1, <3>3, <3>4 DEF OpenNow
    <3> QED
      BY <2>1, <2>3, <2>5, <3>1, <3>5 DEF Orderly
  <2> QED
    BY <2>4, <2>5
<1>12. ASSUME NEW q \in pages, MoreRecordsCame(q) PROVE Orderly'
  <2>1. /\ q.by = "more" /\ q.at = "records" /\ ~hasty
        /\ pages' = pages \ {q} /\ viewerLoading' = FALSE
        /\ UNCHANGED <<order, viewer, rendered, visible, controller, openings, leaving, goal, opens>>
    BY <1>12 DEF MoreRecordsCame
  <2>2. Orderly
    BY <2>1 DEF ViewerInv
  <2>3. openings = {}
    BY <2>1, <2>2 DEF Orderly, Lone
  <2>4. CASE viewer = NoSession
    BY <2>1, <2>2, <2>3, <2>4 DEF Orderly
  <2>5. CASE viewer # NoSession
    <3>1. /\ OpenNow /\ pages = {q} /\ Awaited(q, viewer.key)
          /\ controller = opens /\ visible /\ opens # 0
      BY <2>2, <2>3, <2>5 DEF Orderly, OpenNow
    <3>2. pages' = {} /\ Filled(order[viewer.key], order[viewer.key].page)
      BY <2>1, <3>1 DEF Awaited
    <3>3. OpenNow'
      BY <2>1, <3>1, <3>2 DEF OpenNow, Filled
    <3> QED
      BY <2>1, <2>3, <2>5, <3>1, <3>3 DEF Orderly
  <2> QED
    BY <2>4, <2>5
<1>13. CASE GoBack
  <2>1. /\ ~hasty /\ openings = {}
        /\ UNCHANGED <<order, viewer, rendered, visible, controller, viewerLoading, openings,
                       pages, moreTimers, goal, opens>>
    BY <1>13 DEF GoBack
  <2>2. Orderly
    BY <2>1 DEF ViewerInv
  <2> QED
    BY <2>1, <2>2 DEF Orderly, OpenNow, Awaited, Filled, OneRecord
<1>14. CASE StateSaved
  <2>1. ~hasty /\ leaving # 0 /\ viewer' = NoSession /\ visible' = FALSE /\ UNCHANGED openings
    BY <1>14 DEF StateSaved
  <2>2. openings = {}
    BY <2>1 DEF ViewerInv, Orderly, Lone
  <2> QED
    BY <2>1, <2>2 DEF Orderly
<1> QED
  BY <1>1, <1>2, <1>3, <1>5, <1>6, <1>7, <1>8, <1>9, <1>10, <1>11, <1>12, <1>13, <1>14 DEF ViewerNext

\* The viewer's state and all that waits stay well typed.
THEOREM ViewerTyping == ViewerSpec => []ViewerTypeOK
<1>1. ViewerTypeOK /\ [ViewerNext]_viewerVars => ViewerTypeOK'
  BY ViewerTypeNext
<1> QED
  BY <1>1, ViewerTypeInit, PTL DEF ViewerSpec

\* The invariant holds of every behaviour.
THEOREM ViewerKeeps == ViewerSpec => []ViewerInv
<1>1. ViewerInv /\ [ViewerNext]_viewerVars => ViewerInv'
  <2> SUFFICES ASSUME ViewerInv, [ViewerNext]_viewerVars PROVE ViewerInv'
    OBVIOUS
  <2>1. ViewerTypeOK'
    BY ViewerTypeNext DEF ViewerInv
  <2>2. ~hasty' => Orderly'
    BY OrderlyNext
  <2> QED
    BY <2>1, <2>2 DEF ViewerInv
<1> QED
  BY <1>1, OrderlyInit, PTL DEF ViewerSpec

\* Openings and leavings that are let end show the record that was asked for, whichever
\* page, view or late answer it comes from (openCategoryViewer, openViewerFromView).
THEOREM ShowsWhatWasAsked == ViewerSpec => []ViewerShowsWhatWasAsked
<1>1. ViewerInv => ViewerShowsWhatWasAsked
  <2> SUFFICES ASSUME ViewerInv, ~ViewerBusy, ~hasty
               PROVE  /\ visible <=> viewer # NoSession
                      /\ visible /\ goal # 0 => rendered = goal
    BY DEF ViewerShowsWhatWasAsked
  <2>1. Orderly /\ openings = {}
    BY DEF ViewerInv, ViewerBusy
  <2> QED
    BY <2>1 DEF Orderly, OpenNow
<1> QED
  BY <1>1, ViewerKeeps, PTL

\* However fast somebody moves on, every page that was asked for is in the view or on
\* its way (requestViewerPage, loadMoreMedia).
THEOREM SkipsNoPage == ViewerSpec => []ViewerSkipsNoPage
<1>1. ViewerInv => ViewerSkipsNoPage
  <2> SUFFICES ASSUME ViewerInv, ~hasty, viewer # NoSession, NEW p \in Places,
                      p <= order[viewer.key].page
               PROVE  \/ Holds(order[viewer.key].ids, p)
                      \/ \E q \in pages : q.key = viewer.key /\ q.page = p
                                          /\ q.nr = order[viewer.key].nr
                      \/ viewer.key = "view" /\ ~order[viewer.key].hasMore
                         /\ Len(order[viewer.key].ids) = 1
    BY DEF ViewerSkipsNoPage
  <2>1. PICK k : k = viewer.key
    OBVIOUS
  <2>2. k \in Keys /\ order[k].page \in Nat /\ p \in Nat
    BY <2>1, PlacesFrom1 DEF ViewerInv, ViewerTypeOK, Sessions, Orders
  <2>3. ASSUME NEW q \in pages, Awaited(q, k)
        PROVE  Holds(order[k].ids, p) \/ (q.key = k /\ q.page = p /\ q.nr = order[k].nr)
    <3>1. p = q.page \/ p < q.page
      BY <2>1, <2>2, <2>3 DEF Awaited
    <3> QED
      BY <2>1, <2>3, <3>1 DEF Awaited, Filled
  <2>4. \/ \E q \in pages : Awaited(q, k)
        \/ Filled(order[k], order[k].page)
        \/ OneRecord(k)
    BY <2>1 DEF ViewerInv, Orderly, Lone, OpenNow
  <2> QED
    BY <2>1, <2>3, <2>4 DEF Filled, OneRecord
<1> QED
  BY <1>1, ViewerKeeps, PTL
=============================================================================
