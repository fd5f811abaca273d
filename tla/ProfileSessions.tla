--------------------------- MODULE ProfileSessions ---------------------------
(***************************************************************************)
(* Which browser session uses which profile: the connection registry of    *)
(* session_store.py, the socket handlers of connection_controller.py and   *)
(* the routes of profile_controller.py.                                    *)
(*                                                                         *)
(* A browser keeps its active profile in the signed Flask cookie; the      *)
(* server mirrors it in active_connections when one of the browser's tabs  *)
(* opens a socket.  A route answers with a new cookie, which takes effect  *)
(* only when the answer arrives; a tab may open a socket before that, with *)
(* the cookie it still has.  Store updates and SQLite calls do not yield,  *)
(* so a handler is one action.                                             *)
(***************************************************************************)
EXTENDS Naturals, FiniteSets, Functions

CONSTANTS Sessions,       \* session_id cookies, one per browser
          Tabs,           \* how many sockets a browser may have open
          ProfileIds,     \* profile uuids, each created at most once
          NoProfile,      \* guest
          Admin,          \* the session that holds the admin lock
          MaxProfiles,    \* MAX_PROFILE_COUNT
          StaysConnected  \* browsers that keep a socket open from before their
                          \* first selection on, and open none while an answer
                          \* is under way

ASSUME NoProfileAssumption == NoProfile \notin ProfileIds
ASSUME StaysConnectedAssumption == StaysConnected \subseteq Sessions

VARIABLES active_connections, \* by session: its sockets and mirrored profile
          sid_to_session,     \* by socket: its session
          profiles,           \* the rows of the profiles table
          created,            \* the uuids already used
          cookie,             \* active_profile_id in each browser's cookie
          reply               \* the cookie values on their way to a browser

vars == <<active_connections, sid_to_session, profiles, created, cookie, reply>>

Sids == Sessions \X (1..Tabs)
Profile == ProfileIds \cup {NoProfile}
Connection == [sids: SUBSET Sids, profile: Profile]

TypeOK ==
    /\ DOMAIN active_connections \subseteq Sessions
    /\ active_connections \in [DOMAIN active_connections -> Connection]
    /\ DOMAIN sid_to_session \subseteq Sids
    /\ sid_to_session \in [DOMAIN sid_to_session -> Sessions]
    /\ profiles \subseteq created
    /\ created \subseteq ProfileIds
    /\ cookie \in [Sessions -> created \cup {NoProfile}]
    /\ DOMAIN reply \subseteq Sessions
    /\ reply \in [DOMAIN reply -> created \cup {NoProfile}]

Init ==
    /\ active_connections = <<>>
    /\ sid_to_session = <<>>
    /\ profiles = {}
    /\ created = {}
    /\ cookie = [s \in Sessions |-> NoProfile]
    /\ reply = <<>>

-----------------------------------------------------------------------------
(* session_store.py *)

With(f, x, y) == [z \in DOMAIN f \cup {x} |-> IF z = x THEN y ELSE f[z]]
Without(f, S) == Restrict(f, DOMAIN f \ S)

Connected(s) == s \in DOMAIN active_connections
SidsOf(s) == IF Connected(s) THEN active_connections[s].sids ELSE {}

\* connect_client: the profile given overwrites the one the entry has.
connect_client(s, sid, p) ==
    /\ active_connections' = With(active_connections, s,
                                  [sids |-> SidsOf(s) \cup {sid}, profile |-> p])
    /\ sid_to_session' = With(sid_to_session, sid, s)

\* disconnect_client: the entry goes with its last socket.
disconnect_client_leaves_entry(sid, s) ==
    /\ active_connections' = [active_connections EXCEPT ![s].sids = @ \ {sid}]
    /\ sid_to_session' = Without(sid_to_session, {sid})
disconnect_client(sid, s) ==
    /\ active_connections' = IF SidsOf(s) = {sid}
                             THEN Without(active_connections, {s})
                             ELSE [active_connections EXCEPT ![s].sids = @ \ {sid}]
    /\ sid_to_session' = Without(sid_to_session, {sid})

\* update_connection_profile: nothing to update for a session without sockets.
update_connection_profile(s, p) ==
    active_connections' = IF Connected(s)
                          THEN [active_connections EXCEPT ![s].profile = p]
                          ELSE active_connections

\* clear_connections_for_profile, and the sessions that give up what they have.
clear_no_connections(p, resigning) ==
    active_connections' = [s \in DOMAIN active_connections |->
        IF s \in resigning
        THEN [active_connections[s] EXCEPT !.profile = NoProfile]
        ELSE active_connections[s]]
clear_connections_for_profile(p, resigning) ==
    active_connections' = [s \in DOMAIN active_connections |->
        IF active_connections[s].profile = p \/ s \in resigning
        THEN [active_connections[s] EXCEPT !.profile = NoProfile]
        ELSE active_connections[s]]

\* get_profile_owner_session
Owners(p) == {s \in DOMAIN active_connections : active_connections[s].profile = p}

-----------------------------------------------------------------------------
(* connection_controller.py *)

\* get_profile: a cookie may name a profile that was deleted.
Existing(p) == IF p \in profiles THEN p ELSE NoProfile

\* handle_connect: the profile of the cookie the handshake carried, if it exists.
HandleConnect(s, sid) ==
    /\ sid[1] = s
    /\ sid \notin DOMAIN sid_to_session
    /\ s \in StaysConnected => s \notin DOMAIN reply
    /\ connect_client(s, sid, Existing(cookie[s]))
    /\ UNCHANGED <<profiles, created, cookie, reply>>

HandleDisconnect(s, sid) ==
    /\ sid \in SidsOf(s)
    /\ s \in StaysConnected => SidsOf(s) # {sid}
    /\ disconnect_client(sid, s)
    /\ UNCHANGED <<profiles, created, cookie, reply>>

-----------------------------------------------------------------------------
(* profile_controller.py: a browser makes one such request at a time. *)

Asks(s) == s \notin DOMAIN reply
Answer(s, p) == reply' = With(reply, s, p)

CreateProfile(s, p) ==
    /\ Asks(s)
    /\ p \notin created
    /\ Cardinality(profiles) < MaxProfiles
    /\ profiles' = profiles \cup {p}
    /\ created' = created \cup {p}
    /\ UNCHANGED <<active_connections, sid_to_session, cookie, reply>>

\* select_profile_route, for a profile nobody else uses.
SelectUnchecked(s, p) ==
    /\ Asks(s)
    /\ s \in StaysConnected => Connected(s)
    /\ p \in profiles
    /\ update_connection_profile(s, p)
    /\ Answer(s, p)
    /\ UNCHANGED <<sid_to_session, profiles, created, cookie>>

SelectProfile(s, p) ==
    /\ Owners(p) \subseteq {s}
    /\ SelectUnchecked(s, p)

\* _clear_active_profile: no profile is asked for, or one that does not exist,
\* or the profiles are listed while the cookie names a deleted one.
ClearCookieOnly(s) ==
    /\ Asks(s)
    /\ Answer(s, NoProfile)
    /\ UNCHANGED <<active_connections, sid_to_session, profiles, created, cookie>>
ClearActiveProfile(s) ==
    /\ Asks(s)
    /\ update_connection_profile(s, NoProfile)
    /\ Answer(s, NoProfile)
    /\ UNCHANGED <<sid_to_session, profiles, created, cookie>>

\* delete_profile_route, by the admin or by the session whose cookie names the
\* profile, unless another session is its live owner.  A caller whose cookie names it
\* gives up whatever profile its connection shows.
DeleteProfile(s, p) ==
    /\ Asks(s)
    /\ p \in profiles
    /\ s = Admin \/ (cookie[s] = p /\ (Owners(p) = {} \/ s \in Owners(p)))
    /\ profiles' = profiles \ {p}
    /\ clear_connections_for_profile(p, {t \in {s} : cookie[t] = p})
    /\ IF cookie[s] = p THEN Answer(s, NoProfile) ELSE UNCHANGED reply
    /\ UNCHANGED <<sid_to_session, created, cookie>>

\* The browser takes over the cookie of the answer.
AnswerArrives(s) ==
    /\ s \in DOMAIN reply
    /\ cookie' = [cookie EXCEPT ![s] = reply[s]]
    /\ reply' = Without(reply, {s})
    /\ UNCHANGED <<active_connections, sid_to_session, profiles, created>>

-----------------------------------------------------------------------------
Next ==
    \/ \E s \in Sessions, sid \in Sids : HandleConnect(s, sid)
    \/ \E s \in Sessions, sid \in Sids : HandleDisconnect(s, sid)
    \/ \E s \in Sessions, p \in ProfileIds : CreateProfile(s, p)
    \/ \E s \in Sessions, p \in ProfileIds : SelectProfile(s, p)
    \/ \E s \in Sessions : ClearActiveProfile(s)
    \/ \E s \in Sessions, p \in ProfileIds : DeleteProfile(s, p)
    \/ \E s \in Sessions : AnswerArrives(s)

Spec == Init /\ [][Next]_vars

-----------------------------------------------------------------------------
(* Properties. *)

\* The two maps of the store describe the same sockets, and a session without
\* sockets has no entry: connects and disconnects of several tabs never leave
\* a session that blocks its profile for good.
RegistryIsConsistent ==
    /\ \A s \in DOMAIN active_connections : SidsOf(s) # {}
    /\ \A sid \in Sids, s \in Sessions :
         sid \in SidsOf(s) <=> sid \in DOMAIN sid_to_session /\ sid_to_session[sid] = s

\* Deleting a profile reaches every session: no live session is mirrored with a
\* profile that is gone, whatever cookies still name it.
DeletedProfileHasNoOwner ==
    \A s \in DOMAIN active_connections :
        active_connections[s].profile \in profiles \cup {NoProfile}

\* "a profile cannot be active in multiple sessions at once"
ProfileIsExclusive ==
    \A p \in ProfileIds : \A s, t \in Owners(p) : s = t

\* It is not, among the browsers that keep a socket open and do not overtake
\* answers, whatever the others do.
ExclusiveWhileConnected ==
    \A p \in ProfileIds : \A s, t \in Owners(p) \cap StaysConnected : s = t

\* "socket/session state mirrors the active profile for live presence": with no
\* answer under way the mirror of such a browser shows the profile of its
\* cookie, if it exists.
MirrorWhileConnected ==
    \A s \in StaysConnected \cap (DOMAIN active_connections \ DOMAIN reply) :
        active_connections[s].profile = Existing(cookie[s])

\* The cookie the browser will have once no answer is under way.
LastCookie(s) == IF s \in DOMAIN reply THEN reply[s] ELSE cookie[s]

\* The inductive strengthening of the two: the mirror follows the last answer,
\* and a session that never had a socket never had a profile.
MirrorFollowsAnswers ==
    \A s \in StaysConnected :
        IF Connected(s)
        THEN active_connections[s].profile = Existing(LastCookie(s))
        ELSE LastCookie(s) = NoProfile /\ cookie[s] = NoProfile

IInv ==
    /\ TypeOK
    /\ RegistryIsConsistent
    /\ DeletedProfileHasNoOwner
    /\ ExclusiveWhileConnected
    /\ MirrorFollowsAnswers
=============================================================================
