---------------------------- MODULE SessionsProofs ----------------------------
(* Proofs about ProfileSessions, for every number of browsers, tabs and      *)
(* profiles, about AdminLock, for every set of sessions, about               *)
(* CastControllers, for every number of browsers and casts, and about        *)
(* Streaming, for any categories, folders, pages and loads.                  *)
EXTENDS ProfileSessions, AdminLock, CastControllers, Streaming, FiniteSetTheorems, TLAPS

-----------------------------------------------------------------------------
(* ProfileSessions. *)

LEMMA ProfileInitHolds == Init => IInv
  BY NoProfileAssumption, StaysConnectedAssumption
  DEF Init, IInv, TypeOK, Profile, RegistryIsConsistent, DeletedProfileHasNoOwner,
      ExclusiveWhileConnected, Owners, MirrorFollowsAnswers, LastCookie, Connected, SidsOf

(* Every handler keeps the store well typed.                                 *)
LEMMA ProfileTypeNext == TypeOK /\ [Next]_vars => TypeOK'
<1> SUFFICES ASSUME TypeOK, [Next]_vars PROVE TypeOK'
  OBVIOUS
<1> USE DEF TypeOK, Connection, Profile
<1>1. ASSUME NEW s \in Sessions, NEW sid \in Sids, HandleConnect(s, sid)
      PROVE  TypeOK'
  <2>1. SidsOf(s) \subseteq Sids
    BY DEF SidsOf, Connected
  <2> QED
    BY <1>1, <2>1 DEF HandleConnect, connect_client, With, Existing
<1>2. ASSUME NEW s \in Sessions, NEW sid \in Sids, HandleDisconnect(s, sid)
      PROVE  TypeOK'
  <2>1. /\ DOMAIN active_connections' \subseteq Sessions
        /\ active_connections' \in [DOMAIN active_connections' -> Connection]
    BY <1>2 DEF HandleDisconnect, disconnect_client, Without, Restrict
  <2> QED
    BY <1>2, <2>1 DEF HandleDisconnect, disconnect_client, Without, Restrict
<1>3. ASSUME NEW s \in Sessions, NEW p \in ProfileIds, CreateProfile(s, p)
      PROVE  TypeOK'
  BY <1>3 DEF CreateProfile
<1>4. ASSUME NEW s \in Sessions, NEW p \in ProfileIds, SelectProfile(s, p)
      PROVE  TypeOK'
  BY <1>4 DEF SelectProfile, SelectUnchecked, update_connection_profile, Connected, Answer, With
<1>5. ASSUME NEW s \in Sessions, ClearActiveProfile(s)
      PROVE  TypeOK'
  BY <1>5 DEF ClearActiveProfile, update_connection_profile, Connected, Answer, With
<1>6. ASSUME NEW s \in Sessions, NEW p \in ProfileIds, DeleteProfile(s, p)
      PROVE  TypeOK'
  <2>1. /\ DOMAIN active_connections' \subseteq Sessions
        /\ active_connections' \in [DOMAIN active_connections' -> Connection]
    BY <1>6 DEF DeleteProfile, clear_connections_for_profile
  <2>2. DOMAIN reply' \subseteq Sessions /\ reply' \in [DOMAIN reply' -> created \cup {NoProfile}]
    BY <1>6 DEF DeleteProfile, Answer, With
  <2> QED
    BY <1>6, <2>1, <2>2 DEF DeleteProfile
<1>7. ASSUME NEW s \in Sessions, AnswerArrives(s)
      PROVE  TypeOK'
  BY <1>7 DEF AnswerArrives, Without, Restrict
<1>8. CASE UNCHANGED vars
  BY <1>8 DEF vars
<1> QED
  BY <1>1, <1>2, <1>3, <1>4, <1>5, <1>6, <1>7, <1>8 DEF Next

LEMMA ProfileSafeNext == IInv /\ [Next]_vars => IInv'
<1> SUFFICES ASSUME IInv, [Next]_vars PROVE IInv'
  OBVIOUS
<1> USE StaysConnectedAssumption DEF IInv, Connected
<1>0. TypeOK'
  BY ProfileTypeNext
<1>t. /\ \A s \in DOMAIN active_connections : active_connections[s] \in Connection
      /\ NoProfile \notin profiles
  BY NoProfileAssumption DEF TypeOK
<1>1. ASSUME NEW s \in Sessions, NEW sid \in Sids, HandleConnect(s, sid)
      PROVE  IInv'
  <2>1. RegistryIsConsistent'
    BY <1>1, <1>t DEF HandleConnect, connect_client, With, RegistryIsConsistent, SidsOf, Connection
  <2>2. DeletedProfileHasNoOwner'
    BY <1>1 DEF HandleConnect, connect_client, With, DeletedProfileHasNoOwner, Existing
  <2>3. MirrorFollowsAnswers'
    BY <1>1, <1>t DEF HandleConnect, connect_client, With, MirrorFollowsAnswers, LastCookie, Existing
  <2>4. ExclusiveWhileConnected'
    <3>1. s \in StaysConnected =>
            active_connections'[s].profile = IF Connected(s) THEN active_connections[s].profile
                                           ELSE NoProfile
      BY <1>1, <1>t DEF HandleConnect, connect_client, With, MirrorFollowsAnswers, LastCookie, Existing
    <3>2. \A p \in ProfileIds :
            Owners(p)' \cap StaysConnected = Owners(p) \cap StaysConnected
      BY <1>1, <3>1, NoProfileAssumption DEF HandleConnect, connect_client, With, Owners
    <3> QED
      BY <3>2 DEF ExclusiveWhileConnected
  <2> QED
    BY <1>0, <2>1, <2>2, <2>3, <2>4
<1>2. ASSUME NEW s \in Sessions, NEW sid \in Sids, HandleDisconnect(s, sid)
      PROVE  IInv'
  <2>0. Connected(s) /\ active_connections[s] \in Connection
    BY <1>2, <1>t DEF HandleDisconnect, SidsOf
  <2>1. RegistryIsConsistent'
    BY <1>2, <1>t, <2>0 DEF HandleDisconnect, disconnect_client, Without, Restrict,
                       RegistryIsConsistent, SidsOf, Connection
  <2>2. DeletedProfileHasNoOwner'
    BY <1>2, <2>0 DEF HandleDisconnect, disconnect_client, Without, Restrict,
                       DeletedProfileHasNoOwner, Connection
  <2>3. MirrorFollowsAnswers'
    BY <1>2, <2>0 DEF HandleDisconnect, disconnect_client, Without, Restrict, MirrorFollowsAnswers, LastCookie,
                      Existing, Connection
  <2>4. ExclusiveWhileConnected'
    BY <1>2, <2>0 DEF HandleDisconnect, disconnect_client, Without, Restrict,
                      ExclusiveWhileConnected, Owners, Connection
  <2> QED
    BY <1>0, <2>1, <2>2, <2>3, <2>4
<1>3. ASSUME NEW s \in Sessions, NEW p \in ProfileIds, CreateProfile(s, p)
      PROVE  IInv'
  <2>1. RegistryIsConsistent'
    BY <1>3, <1>t DEF CreateProfile, RegistryIsConsistent, SidsOf, Connection
  <2>2. DeletedProfileHasNoOwner'
    BY <1>3, <1>t DEF CreateProfile, DeletedProfileHasNoOwner, Connection
  <2>3. MirrorFollowsAnswers'
    BY <1>3, <1>t DEF CreateProfile, MirrorFollowsAnswers, LastCookie, Existing, Connection, TypeOK
  <2>4. ExclusiveWhileConnected'
    BY <1>3, <1>t, NoProfileAssumption DEF CreateProfile, ExclusiveWhileConnected, Owners, Connection
  <2> QED
    BY <1>0, <2>1, <2>2, <2>3, <2>4
<1>4. ASSUME NEW s \in Sessions, NEW p \in ProfileIds, SelectProfile(s, p)
      PROVE  IInv'
  <2>1. RegistryIsConsistent'
    BY <1>4, <1>t DEF SelectProfile, SelectUnchecked, Asks, Answer, With,
        update_connection_profile, RegistryIsConsistent, SidsOf, Connection
  <2>2. DeletedProfileHasNoOwner'
    BY <1>4, <1>t DEF SelectProfile, SelectUnchecked, Asks, Answer, With,
        update_connection_profile, DeletedProfileHasNoOwner, Connection
  <2>3. MirrorFollowsAnswers'
    BY <1>4, <1>t DEF SelectProfile, SelectUnchecked, Asks, Answer, With,
        update_connection_profile, MirrorFollowsAnswers, LastCookie, Existing, Connection, TypeOK
  <2>4. ExclusiveWhileConnected'
    BY <1>4, <1>t, NoProfileAssumption DEF SelectProfile, SelectUnchecked, Asks, Answer, With,
        update_connection_profile, ExclusiveWhileConnected, Owners, Connection
  <2> QED
    BY <1>0, <2>1, <2>2, <2>3, <2>4
<1>5. ASSUME NEW s \in Sessions, ClearActiveProfile(s)
      PROVE  IInv'
  <2>1. RegistryIsConsistent'
    BY <1>5, <1>t DEF ClearActiveProfile, Asks, Answer, With, update_connection_profile, RegistryIsConsistent, SidsOf, Connection
  <2>2. DeletedProfileHasNoOwner'
    BY <1>5, <1>t DEF ClearActiveProfile, Asks, Answer, With, update_connection_profile, DeletedProfileHasNoOwner, Connection
  <2>3. MirrorFollowsAnswers'
    BY <1>5, <1>t DEF ClearActiveProfile, Asks, Answer, With, update_connection_profile, MirrorFollowsAnswers, LastCookie, Existing, Connection, TypeOK
  <2>4. ExclusiveWhileConnected'
    BY <1>5, <1>t, NoProfileAssumption DEF ClearActiveProfile, Asks, Answer, With, update_connection_profile, ExclusiveWhileConnected, Owners, Connection
  <2> QED
    BY <1>0, <2>1, <2>2, <2>3, <2>4
<1>6. ASSUME NEW s \in Sessions, NEW p \in ProfileIds, DeleteProfile(s, p)
      PROVE  IInv'
  <2>1. RegistryIsConsistent'
    BY <1>6, <1>t DEF DeleteProfile, Asks, Answer, With,
        clear_connections_for_profile, RegistryIsConsistent, SidsOf, Connection
  <2>2. DeletedProfileHasNoOwner'
    BY <1>6, <1>t DEF DeleteProfile, Asks, Answer, With,
        clear_connections_for_profile, DeletedProfileHasNoOwner, Connection
  <2>3. MirrorFollowsAnswers'
    BY <1>6, <1>t DEF DeleteProfile, Asks, Answer, With,
        clear_connections_for_profile, MirrorFollowsAnswers, LastCookie, Existing, Connection, TypeOK
  <2>4. ExclusiveWhileConnected'
    BY <1>6, <1>t, NoProfileAssumption DEF DeleteProfile, Asks, Answer, With,
        clear_connections_for_profile, ExclusiveWhileConnected, Owners, Connection
  <2> QED
    BY <1>0, <2>1, <2>2, <2>3, <2>4
<1>7. ASSUME NEW s \in Sessions, AnswerArrives(s)
      PROVE  IInv'
  <2>1. RegistryIsConsistent'
    BY <1>7, <1>t DEF AnswerArrives, Without, Restrict, RegistryIsConsistent, SidsOf, Connection
  <2>2. DeletedProfileHasNoOwner'
    BY <1>7, <1>t DEF AnswerArrives, Without, Restrict, DeletedProfileHasNoOwner, Connection
  <2>3. MirrorFollowsAnswers'
    BY <1>7, <1>t DEF AnswerArrives, Without, Restrict, MirrorFollowsAnswers, LastCookie, Existing, Connection, TypeOK
  <2>4. ExclusiveWhileConnected'
    BY <1>7, <1>t, NoProfileAssumption DEF AnswerArrives, Without, Restrict, ExclusiveWhileConnected, Owners, Connection
  <2> QED
    BY <1>0, <2>1, <2>2, <2>3, <2>4
<1>8. CASE UNCHANGED vars
  BY <1>0, <1>8 DEF vars, RegistryIsConsistent, DeletedProfileHasNoOwner, ExclusiveWhileConnected,
      Owners, MirrorFollowsAnswers, LastCookie, SidsOf, Existing
<1> QED
  BY <1>1, <1>2, <1>3, <1>4, <1>5, <1>6, <1>7, <1>8 DEF Next

(* The inductive invariant: typing, consistent maps, deleted profiles have no  *)
(* owner, exclusive profiles, and a mirror that follows the last answer.     *)
THEOREM Inductive == Spec => []IInv
BY ProfileInitHolds, ProfileSafeNext, PTL DEF Spec

(* The store of session_store.py and the cookies stay well typed.            *)
THEOREM Typing == Spec => []TypeOK
<1>1. IInv => TypeOK
  BY DEF IInv
<1> QED
  BY ProfileInitHolds, ProfileSafeNext, <1>1, PTL DEF Spec

(* active_connections and sid_to_session always describe the same sockets.   *)
THEOREM Registry == Spec => []RegistryIsConsistent
<1>1. IInv => RegistryIsConsistent
  BY DEF IInv
<1> QED
  BY ProfileInitHolds, ProfileSafeNext, <1>1, PTL DEF Spec

(* No live session is mirrored with a profile delete_profile removed.        *)
THEOREM DeletionReachesAll == Spec => []DeletedProfileHasNoOwner
<1>1. IInv => DeletedProfileHasNoOwner
  BY DEF IInv
<1> QED
  BY ProfileInitHolds, ProfileSafeNext, <1>1, PTL DEF Spec

(* The owner check of select_profile_route makes profiles exclusive among    *)
(* browsers that keep a socket open and do not overtake an answer.           *)
THEOREM Exclusive == Spec => []ExclusiveWhileConnected
<1>1. IInv => ExclusiveWhileConnected
  BY DEF IInv
<1> QED
  BY ProfileInitHolds, ProfileSafeNext, <1>1, PTL DEF Spec

(* For the same browsers active_connections mirrors the cookie.              *)
THEOREM Mirror == Spec => []MirrorWhileConnected
<1>1. IInv => MirrorWhileConnected
  BY DEF IInv, TypeOK, MirrorWhileConnected, MirrorFollowsAnswers,
         LastCookie, Connected
<1> QED
  BY ProfileInitHolds, ProfileSafeNext, <1>1, PTL DEF Spec

-----------------------------------------------------------------------------
(* AdminLock. *)

LEMMA LockInitHolds == LockInit => LockInv
<1> SUFFICES ASSUME LockInit PROVE LockInv
  OBVIOUS
<1>1. DOMAIN reading = {} /\ reading = [x \in {} |-> NoAdmin]
  BY DEF LockInit
<1> QED
  BY <1>1 DEF LockInit, LockInv, LockTypeOK, Owner, CacheAgreesWithFile, ReadsAreCurrent

(* What a change of the owner leaves in the store and in the file.           *)
LEMMA SetOutcome ==
  ASSUME NEW o \in Owner, lock_file \in Owner, set_admin_session_id(o)
  PROVE  /\ admin_session_id' = o
         /\ lock_file' \in {o, lock_file, NoAdmin}
         /\ lock_file' \in Owner
         /\ o = NoAdmin => lock_file' \in {NoAdmin, lock_file}
         /\ astray' \in BOOLEAN
         /\ ~astray' => lock_file' = o
  BY DEF set_admin_session_id, Owner

(* What the rest of a handler leaves there.                                  *)
LEMMA FinishOutcome ==
  ASSUME LockTypeOK, NEW s \in Claimants, NEW kind \in Kinds, NEW v \in Owner, Finish(s, kind, v)
  PROVE  \/ Grants(s, kind, v) /\ set_admin_session_id(s)
         \/ Releases(s, kind, v) /\ set_admin_session_id(NoAdmin)
         \/ ~Sets(s, kind, v) /\ refresh(v)
  BY DEF Finish, Grants, Releases, Sets

(* Types, and when the file has not missed the change.                       *)
LEMMA FinishKeeps ==
  ASSUME LockTypeOK, NEW s \in Claimants, NEW kind \in Kinds, NEW v \in Owner, Finish(s, kind, v)
  PROVE  /\ admin_session_id' \in Owner
         /\ lock_file' \in Owner
         /\ astray' \in BOOLEAN
         /\ ~astray' => admin_session_id' \in {NoAdmin, lock_file'}
<1> USE DEF LockTypeOK
<1>1. CASE \E o \in Owner : set_admin_session_id(o)
  BY <1>1, SetOutcome
<1>2. CASE refresh(v)
  BY <1>2 DEF refresh, Refreshed, Owner
<1> QED
  BY <1>1, <1>2, FinishOutcome DEF Owner

LEMMA LockTypeNext == LockTypeOK /\ [LockNext]_lockVars => LockTypeOK'
<1> SUFFICES ASSUME LockTypeOK, [LockNext]_lockVars PROVE LockTypeOK'
  OBVIOUS
<1> USE DEF LockTypeOK
<1>1. ASSUME NEW s \in Claimants, NEW kind \in Kinds, HandleCached(s, kind)
      PROVE  LockTypeOK'
  <2>1. admin_session_id \in Owner /\ Finish(s, kind, admin_session_id)
    BY <1>1 DEF HandleCached
  <2>2. admin_session_id' \in Owner /\ lock_file' \in Owner /\ astray' \in BOOLEAN
    BY <2>1, FinishKeeps
  <2> QED
    BY <1>1, <2>2 DEF HandleCached, Overtake
<1>2. ASSUME NEW s \in Claimants, NEW kind \in Kinds, StartReading(s, kind)
      PROVE  LockTypeOK'
  BY <1>2 DEF StartReading, Put
<1>3. ASSUME NEW s \in Claimants, ReadLockFile(s) \/ ReadFails(s)
      PROVE  LockTypeOK'
  BY <1>3 DEF ReadLockFile, ReadFails, Owner
<1>4. ASSUME NEW s \in Claimants, Resume(s)
      PROVE  LockTypeOK'
  <2>1. /\ reading[s].kind \in Kinds
        /\ reading[s].value \in Owner
        /\ Finish(s, reading[s].kind, reading[s].value)
    BY <1>4 DEF Resume
  <2>2. admin_session_id' \in Owner /\ lock_file' \in Owner /\ astray' \in BOOLEAN
    BY <2>1, FinishKeeps
  <2>3. /\ DOMAIN reading' \subseteq Claimants
        /\ reading' \in [DOMAIN reading' -> [kind: Kinds, value: Owner \cup {Unread}]]
    BY <1>4 DEF Resume, Dropped, Restrict
  <2> QED
    BY <1>4, <2>2, <2>3 DEF Resume, Overtake
<1>5. CASE FactoryReset
  <2>1. admin_session_id' \in Owner /\ lock_file' \in Owner /\ astray' \in BOOLEAN
    BY <1>5, SetOutcome DEF FactoryReset, Owner
  <2> QED
    BY <1>5, <2>1 DEF FactoryReset, Overtake
<1>6. CASE Restart
  BY <1>6 DEF Restart, Owner
<1>7. CASE UNCHANGED lockVars
  BY <1>7 DEF lockVars
<1> QED
  BY <1>1, <1>2, <1>3, <1>4, <1>5, <1>6, <1>7 DEF LockNext

(* The request of s ends with the owner v: the requests that go on waiting   *)
(* are late, or what they have read is still current.                        *)
LEMMA Overtaken ==
  ASSUME LockInv, NEW s \in Claimants, NEW kind \in Kinds, NEW v \in Owner, Finish(s, kind, v),
         Overtake(Sets(s, kind, v)), DOMAIN reading' \subseteq DOMAIN reading,
         \A t \in DOMAIN reading' : reading'[t] = reading[t]
  PROVE  ReadsAreCurrent'
<1> USE DEF LockInv, LockTypeOK, ReadsAreCurrent
<1>1. CASE Sets(s, kind, v) \/ Holder' # Holder
  BY <1>1 DEF Overtake
<1>2. CASE ~Sets(s, kind, v) /\ Holder' = Holder
  <2>1. lock_file' = lock_file
    BY <1>2, FinishOutcome DEF refresh, Sets
  <2>2. late' = late \cap DOMAIN reading'
    BY <1>2 DEF Overtake
  <2>3. ASSUME NEW t \in DOMAIN reading' \ late'
        PROVE  admin_session_id' \in {NoAdmin, lock_file'}
    <3>1. Holder = lock_file
      BY <2>2, <2>3 DEF Holder
    <3> QED
      BY <1>2, <2>1, <3>1 DEF Holder
  <2> QED
    BY <2>1, <2>2, <2>3
<1> QED
  BY <1>1, <1>2

(* Every change of the owner leaves the cache and the file in agreement or   *)
(* is noted, and overtakes the requests it should.                           *)
LEMMA CurrentNext ==
  LockInv /\ [LockNext]_lockVars => CacheAgreesWithFile' /\ ReadsAreCurrent'
<1> SUFFICES ASSUME LockInv, [LockNext]_lockVars
             PROVE  CacheAgreesWithFile' /\ ReadsAreCurrent'
  OBVIOUS
<1> USE DEF LockInv, LockTypeOK, CacheAgreesWithFile, ReadsAreCurrent
<1>1. ASSUME NEW s \in Claimants, NEW kind \in Kinds, HandleCached(s, kind)
      PROVE  CacheAgreesWithFile' /\ ReadsAreCurrent'
  <2>1. admin_session_id \in Owner /\ Finish(s, kind, admin_session_id)
    BY <1>1 DEF HandleCached
  <2>2. CacheAgreesWithFile'
    BY <2>1, FinishKeeps
  <2>3. ReadsAreCurrent'
    <3>1. reading' = reading /\ Overtake(Sets(s, kind, admin_session_id))
      BY <1>1 DEF HandleCached
    <3> QED
      BY <2>1, <3>1, Overtaken
  <2> QED
    BY <2>2, <2>3
<1>2. ASSUME NEW s \in Claimants, NEW kind \in Kinds, StartReading(s, kind)
      PROVE  CacheAgreesWithFile' /\ ReadsAreCurrent'
  BY <1>2 DEF StartReading, Put
<1>3. ASSUME NEW s \in Claimants, ReadLockFile(s) \/ ReadFails(s)
      PROVE  CacheAgreesWithFile' /\ ReadsAreCurrent'
  BY <1>3 DEF ReadLockFile, ReadFails
<1>4. ASSUME NEW s \in Claimants, Resume(s)
      PROVE  CacheAgreesWithFile' /\ ReadsAreCurrent'
  <2>1. /\ reading[s].kind \in Kinds
        /\ reading[s].value \in Owner
        /\ Finish(s, reading[s].kind, reading[s].value)
    BY <1>4 DEF Resume
  <2>2. CacheAgreesWithFile'
    BY <2>1, FinishKeeps
  <2>3. /\ DOMAIN reading' = DOMAIN reading \ {s}
        /\ \A t \in DOMAIN reading' : reading'[t] = reading[t]
    BY <1>4 DEF Resume, Dropped, Restrict
  <2>4. ReadsAreCurrent'
    <3>1. Overtake(Sets(s, reading[s].kind, reading[s].value))
      BY <1>4 DEF Resume
    <3> QED
      BY <2>1, <2>3, <3>1, Overtaken
  <2> QED
    BY <2>2, <2>4
<1>5. CASE FactoryReset
  <2>1. CacheAgreesWithFile'
    BY <1>5 DEF FactoryReset, set_admin_session_id
  <2> QED
    BY <1>5, <2>1 DEF FactoryReset, Overtake
<1>6. CASE Restart
  BY <1>6 DEF Restart
<1>7. CASE UNCHANGED lockVars
  BY <1>7 DEF lockVars
<1> QED
  BY <1>1, <1>2, <1>3, <1>4, <1>5, <1>6, <1>7 DEF LockNext

(* The cached owner, the lock file and the requests that wait for it stay    *)
(* well typed, the cache names another owner than the file only after the    *)
(* file has missed a change or an overtaken answer brought one back, and     *)
(* what a request that was not overtaken has read is current.                *)
THEOREM Current == LockSpec => []LockInv
<1>1. LockInv /\ [LockNext]_lockVars => LockInv'
  BY LockTypeNext, CurrentNext DEF LockInv
<1> QED
  BY LockInitHolds, <1>1, PTL DEF LockSpec

(* admin_session_id and admin_lock.json never name two owners unless a write *)
(* or a removal of the file failed or a late answer was cached.              *)
THEOREM CacheAgrees == LockSpec => []CacheAgreesWithFile
<1>1. LockInv => CacheAgreesWithFile
  BY DEF LockInv
<1> QED
  BY Current, <1>1, PTL

(* What the rest of a handler does to the holder, when the owner v it was    *)
(* given is the holder or nobody.                                            *)
LEMMA HolderAfter ==
  ASSUME LockTypeOK, CacheAgreesWithFile, NEW s \in Claimants, NEW kind \in Kinds,
         NEW v \in {NoAdmin, Holder}, v \in Owner, Finish(s, kind, v), Holder' # Holder
  PROVE  \/ Holder' = s /\ kind = "reclaim"
         \/ Holder' = s /\ kind = "claim" /\ v = NoAdmin
         \/ Holder' = NoAdmin /\ Holder = s /\ kind = "release"
         \/ astray /\ Holder' = lock_file
<1> USE DEF LockTypeOK
<1>0. s # NoAdmin /\ s \in Owner /\ NoAdmin \in Owner
  BY NoAdminAssumption DEF Owner
<1>1. CASE Grants(s, kind, v) /\ set_admin_session_id(s)
  <2>1. Holder' = s
    BY <1>0, <1>1, SetOutcome DEF Holder
  <2> QED
    BY <1>0, <1>1, <2>1 DEF Grants
<1>2. CASE Releases(s, kind, v) /\ set_admin_session_id(NoAdmin)
  <2>1. Holder = s /\ kind = "release"
    BY <1>0, <1>2 DEF Releases
  <2>2. Holder' = lock_file' /\ lock_file' \in {NoAdmin, lock_file}
    BY <1>0, <1>2, SetOutcome DEF Holder
  <2> QED
    BY <2>1, <2>2 DEF Holder, CacheAgreesWithFile
<1>3. CASE refresh(v)
  BY <1>3 DEF refresh, Refreshed, Holder
<1> QED
  BY <1>1, <1>2, <1>3, FinishOutcome

(* claim_admin and release_admin change the owner, restarts included, only   *)
(* as they should; what an overtaken answer, a failed read or a failed       *)
(* write of the file can do instead is spelled out.                          *)
THEOREM PasswordGuardsOwner == LockSpec => RoleChangesRightly
<1> DEFINE Rightly ==
      \/ TakenBy(Holder', "reclaim")
      \/ Holder = NoAdmin /\ TakenBy(Holder', "claim")
      \/ Holder' = NoAdmin /\ (FactoryReset \/ TakenBy(Holder, "release"))
      \/ \E s \in late : Resume(s)
      \/ /\ MayFail /\ lock_file # NoAdmin
         /\ \E s \in DOMAIN reading :
              reading[s] = [kind |-> "claim", value |-> NoAdmin] /\ Resume(s)
      \/ astray /\ Holder' = lock_file
<1>1. ASSUME LockInv, LockNext, Holder' # Holder PROVE Rightly
  <2> USE <1>1 DEF LockInv, LockTypeOK
  <2>1. ASSUME NEW s \in Claimants, NEW kind \in Kinds, HandleCached(s, kind) PROVE Rightly
    <3>1. /\ Finish(s, kind, admin_session_id) /\ admin_session_id \in Owner
          /\ admin_session_id = Holder /\ Holder # NoAdmin
      BY <2>1 DEF HandleCached, Holder
    <3>2. \/ Holder' = s /\ kind = "reclaim"
          \/ Holder' = NoAdmin /\ Holder = s /\ kind = "release"
          \/ astray /\ Holder' = lock_file
      BY <3>1, HolderAfter
    <3> QED
      BY <2>1, <3>2 DEF TakenBy
  <2>2. ASSUME NEW s \in Claimants, Resume(s), s \notin late PROVE Rightly
    <3>1. /\ s \in DOMAIN reading /\ reading[s].kind \in Kinds
          /\ reading[s].value \in Owner
          /\ Finish(s, reading[s].kind, reading[s].value)
      BY <2>2 DEF Resume
    <3>2. /\ Holder = lock_file
          /\ reading[s].value \in {NoAdmin, lock_file}
          /\ ~MayFail => reading[s].value = lock_file
      BY <2>2, <3>1 DEF ReadsAreCurrent, Holder, Resume
    <3>3. \/ Holder' = s /\ reading[s].kind = "reclaim"
          \/ Holder' = s /\ reading[s].kind = "claim" /\ reading[s].value = NoAdmin
          \/ Holder' = NoAdmin /\ Holder = s /\ reading[s].kind = "release"
          \/ astray /\ Holder' = lock_file
      BY <3>1, <3>2, HolderAfter
    <3>4. CASE Holder' = s /\ reading[s].kind = "claim" /\ reading[s].value = NoAdmin
      <4>1. reading[s] = [kind |-> "claim", value |-> NoAdmin]
        BY <3>1, <3>4
      <4>2. CASE lock_file = NoAdmin
        BY <2>2, <3>1, <3>2, <3>4, <4>2 DEF TakenBy
      <4>3. CASE lock_file # NoAdmin
        BY <2>2, <3>1, <3>2, <3>4, <4>1, <4>3
      <4> QED
        BY <4>2, <4>3
    <3> QED
      BY <2>2, <3>1, <3>3, <3>4 DEF TakenBy
  <2>3. ASSUME FactoryReset PROVE Rightly
    <3>1. Holder' = lock_file' /\ lock_file' \in {NoAdmin, lock_file}
      BY <2>3, SetOutcome DEF FactoryReset, Holder, Owner
    <3> QED
      BY <2>3, <3>1 DEF Holder, CacheAgreesWithFile
  <2>4. ASSUME Restart PROVE Rightly
    BY <2>4 DEF Restart, Holder, CacheAgreesWithFile
  <2>5. \A s \in Claimants :
          /\ \A kind \in Kinds : ~StartReading(s, kind)
          /\ ~ReadLockFile(s)
          /\ ~ReadFails(s)
    BY DEF StartReading, ReadLockFile, ReadFails, Holder
  <2> QED
    BY <2>1, <2>2, <2>3, <2>4, <2>5 DEF LockNext
<1>2. LockInv /\ [LockNext]_lockVars => [Holder' # Holder => Rightly]_lockVars
  BY <1>1
<1> QED
  BY Current, <1>2, PTL DEF LockSpec, RoleChangesRightly

-----------------------------------------------------------------------------
(* The cast buttons of several browsers: types. *)

\* The bounds are numbers.
LEMMA CastBounds == MaxCasts \in Nat /\ MaxCasts >= 1 /\ MaxInputs \in Nat /\ NoMedia \in 0..MaxCasts
BY ControllersAssumption DEF NoMedia

\* The types hold at first.
LEMMA CastTypeInit == ControllersInit => ControllersTypeOK
<1> SUFFICES ASSUME ControllersInit PROVE ControllersTypeOK
  OBVIOUS
<1>1. casts \in {0, 1} /\ casts \in 0..MaxCasts
  BY CastBounds DEF ControllersInit
<1>2. playing \in RealCasts \cup {NoCast}
  BY <1>1, CastBounds DEF ControllersInit, Casts, RealCasts
<1>3. page \in [Browsers -> Pages]
  <2>1. [FreshPage(casts) EXCEPT !.modal = (casts = 1), !.restoring = FALSE] \in Pages
    BY <1>1 DEF FreshPage, Pages
  <2> QED
    BY <2>1 DEF ControllersInit
<1>4. /\ tv \in BOOLEAN /\ active \in BOOLEAN /\ boot \in Browsers \cup {Nobody, "gone"}
      /\ starting \subseteq [by: Browsers \cup {"gone"}, cast: RealCasts] /\ ending \in Nat
      /\ greeting \in [Browsers -> (Statuses \ {Status(TRUE, NoMedia)}) \cup {NoGreeting}]
      /\ online \subseteq Browsers /\ misled \subseteq Browsers
  BY DEF ControllersInit
<1>5. /\ inbox \in [Browsers -> Seq(Notices \cup Statuses)]
      /\ outbox \in [Browsers -> Seq(Commands)]
  BY DEF ControllersInit
<1>6. inputs \in 0..MaxInputs
  BY CastBounds DEF ControllersInit
<1> QED
  BY <1>1, <1>2, <1>3, <1>4, <1>5, <1>6 DEF ControllersTypeOK

\* What browsers have been sent and not yet handled.
Boxes == [Browsers -> Seq(Notices \cup Statuses)]

\* What is told is one more message.
LEMMA TellingIsTyped ==
  ASSUME NEW f \in Boxes, NEW m \in Notices \cup Statuses
  PROVE  /\ \A b \in Browsers : Told(f, b, m) \in Boxes
         /\ \A b : ToldOne(f, b, m) \in Boxes
         /\ \A b \in Browsers : Told(f, b, m)[b] = Append(f[b], m)
         /\ \A b, c \in Browsers : b # c => Told(f, b, m)[c] = f[c]
<1>1. \A b \in Browsers : Append(f[b], m) \in Seq(Notices \cup Statuses)
  BY DEF Boxes
<1>2. \A b \in Browsers : Told(f, b, m) \in Boxes
  BY <1>1 DEF Told, Boxes
<1>3. \A b : ToldOne(f, b, m) \in Boxes
  <2>1. \A b : b \notin Browsers => Told(f, b, m) = f
    BY DEF Told, Boxes
  <2> QED
    BY <1>2, <2>1 DEF ToldOne
<1> QED
  BY <1>2, <1>3 DEF Told, Boxes

\* What everybody is told.
LEMMA AllToldIsTyped ==
  ASSUME ControllersTypeOK, NEW m \in Notices \cup Statuses
  PROVE  ToldAll(m) \in Boxes
BY DEF ToldAll, Boxes, ControllersTypeOK

\* The server's messages.
LEMMA MessagesAreTyped ==
  ASSUME ControllersTypeOK
  PROVE  /\ Truth \in Statuses \ {Status(TRUE, NoMedia)} /\ Truth.media = playing.media
         /\ NotCasting \in Statuses \ {Status(TRUE, NoMedia)} /\ NotCasting.media = NoMedia
         /\ \A m \in 0..MaxCasts : Status(TRUE, m) \in Statuses
         /\ \A k \in {"cast_success", "kiosk_boot_complete", "kiosk_boot_timeout", "tv_error"} :
              Note(k) \in Notices
         /\ playing.media \in 0..MaxCasts /\ (playing.media # NoMedia <=> playing # NoCast)
<1>1. playing.media \in 0..MaxCasts /\ (playing.media # NoMedia <=> playing # NoCast)
  BY CastBounds DEF ControllersTypeOK, RealCasts, NoCast, NoMedia
<1>2. /\ NotCasting \in Statuses \ {Status(TRUE, NoMedia)} /\ NotCasting.media = NoMedia
      /\ \A m \in 0..MaxCasts : Status(TRUE, m) \in Statuses
      /\ \A k \in {"cast_success", "kiosk_boot_complete", "kiosk_boot_timeout", "tv_error"} :
              Note(k) \in Notices
  BY DEF NotCasting, Statuses, Status, Note, Notices
<1>3. Truth \in Statuses \ {Status(TRUE, NoMedia)} /\ Truth.media = playing.media
  <2>1. CASE playing.media = NoMedia
    BY <1>2, <2>1 DEF Truth, NotCasting, Status
  <2>2. CASE playing.media # NoMedia
    <3>1. Truth = Status(TRUE, playing.media)
      BY <2>2 DEF Truth
    <3>2. Status(TRUE, playing.media) # Status(TRUE, NoMedia)
      BY <2>2 DEF Status
    <3> QED
      BY <1>1, <1>2, <3>1, <3>2 DEF Status
  <2> QED
    BY <2>1, <2>2
<1> QED
  BY <1>1, <1>2, <1>3

\* A page changes.
LEMMA PageTurns ==
  ASSUME ControllersTypeOK, NEW b \in Browsers, NEW p \in Pages, Turn(b, p)
  PROVE  page' \in [Browsers -> Pages] /\ page'[b] = p /\ \A c \in Browsers \ {b} : page'[c] = page[c]
BY DEF ControllersTypeOK, Turn

\* A browser sends a command.
LEMMA EmitIsTyped ==
  ASSUME ControllersTypeOK, NEW b \in Browsers, NEW kind, NEW media,
         [kind |-> kind, media |-> media] \in Commands, Emit(b, kind, media)
  PROVE  /\ outbox' \in [Browsers -> Seq(Commands)]
         /\ outbox'[b] = Append(outbox[b], [kind |-> kind, media |-> media])
         /\ \A c \in Browsers \ {b} : outbox'[c] = outbox[c]
<1>1. Append(outbox[b], [kind |-> kind, media |-> media]) \in Seq(Commands)
  BY DEF ControllersTypeOK
<1> QED
  BY <1>1 DEF ControllersTypeOK, Emit, Told

\* resetCastingState ends the page's cast, and its stop unless it is to be kept.
LEMMA ResetIsTyped ==
  ASSUME NEW p \in Pages, NEW keep \in BOOLEAN
  PROVE  /\ Reset(p, keep) \in Pages
         /\ ~Reset(p, keep).casting
         /\ Reset(p, keep).stop <=> keep /\ p.stop
<1>1. NoMedia \in 0..MaxCasts
  BY CastBounds DEF NoMedia
<1>2. (keep /\ p.stop) \in BOOLEAN
  OBVIOUS
<1>3. PICK s : s = (keep /\ p.stop)
  OBVIOUS
<1>4. Reset(p, keep) = [p EXCEPT !.casting = FALSE, !.media = NoMedia, !.saved = NoMedia,
                                 !.modal = FALSE, !.stop = s]
  BY <1>3, Zenon DEF Reset
<1>5. Reset(p, keep) \in Pages /\ Reset(p, keep).casting = FALSE /\ Reset(p, keep).stop = s
  BY <1>1, <1>2, <1>3, <1>4 DEF Pages
<1> QED
  BY <1>3, <1>5

\* A page that shows a cast with its modal.
LEMMA ShowingIsTyped ==
  ASSUME NEW p \in Pages, NEW media \in 0..MaxCasts
  PROVE  /\ Showing(p, media) \in Pages /\ Showing(p, media).casting /\ Showing(p, media).modal
         /\ Showing(p, media).media = media /\ Showing(p, media).stop = p.stop
<1>1. PICK saved \in 0..MaxCasts : saved = IF p.modal THEN p.saved ELSE media
  BY DEF Pages
<1>2. Showing(p, media) = [p EXCEPT !.casting = TRUE, !.media = media, !.modal = TRUE, !.saved = saved]
  BY <1>1 DEF Showing
<1> QED
  BY <1>1, <1>2 DEF Pages

\* What is taken from a queue.
LEMMA TakingIsTyped ==
  ASSUME NEW S, NEW f \in [Browsers -> Seq(S)], NEW b \in Browsers, f[b] # <<>>
  PROVE  /\ Head(f[b]) \in S
         /\ [f EXCEPT ![b] = Tail(f[b])] \in [Browsers -> Seq(S)]
<1>1. f[b] \in Seq(S)
  OBVIOUS
<1>2. Tail(f[b]) \in Seq(S) /\ Head(f[b]) \in S
  BY <1>1
<1> QED
  BY <1>2

\* Every step keeps the types.
LEMMA CastTypeNext == ControllersTypeOK /\ [ControllersNext]_castVars => ControllersTypeOK'
<1> SUFFICES ASSUME ControllersTypeOK, [ControllersNext]_castVars PROVE ControllersTypeOK'
  OBVIOUS
<1>1. CASE UNCHANGED castVars
  BY <1>1 DEF castVars, serverVars, counters, ControllersTypeOK
<1>i. ASSUME Input PROVE inputs' \in 0..MaxInputs
  <2>1. inputs \in 0..MaxInputs /\ inputs < MaxInputs /\ inputs' = inputs + 1
    BY <1>i DEF Input, ControllersTypeOK
  <2> QED
    BY <2>1, CastBounds
<1>a. ASSUME NEW b \in Browsers, NEW k, Arrives(b, k)
      PROVE  /\ outbox' \in [Browsers -> Seq(Commands)] /\ Head(outbox[b]) \in Commands
             /\ Head(outbox[b]).kind = k /\ UNCHANGED <<greeting, online, page, casts, inputs>>
  BY <1>a, TakingIsTyped DEF Arrives, ControllersTypeOK, counters
<1>h. ASSUME NEW b \in Browsers, NEW k, Heard(b, k)
      PROVE  /\ inbox' \in [Browsers -> Seq(Notices \cup Statuses)]
             /\ Head(inbox[b]) \in Notices \cup Statuses
             /\ Head(inbox[b]).kind = k
             /\ UNCHANGED <<playing, tv, active, boot, starting, ending, greeting, online, misled, casts, inputs>>
  BY <1>h, TakingIsTyped DEF Heard, ControllersTypeOK, counters, serverVars
<1>r. ASSUME NEW b \in Browsers, Refused(b)
      PROVE  inbox' \in Boxes /\ misled' \subseteq Browsers /\ UNCHANGED <<playing, tv, active, boot, starting, ending>>
  BY <1>r, MessagesAreTyped, TellingIsTyped DEF Refused, ControllersTypeOK, Boxes, serverVars
<1>2. ASSUME NEW b \in Browsers, castMediaToTv(b) PROVE ControllersTypeOK'
  <2>1. /\ casts' = casts + 1 /\ casts < MaxCasts /\ inputs' \in 0..MaxInputs
        /\ UNCHANGED <<serverVars, greeting, inbox, outbox, online, misled>>
    BY <1>2, <1>i DEF castMediaToTv
  <2>2. casts' \in 0..MaxCasts /\ casts' \in 1..MaxCasts
    <3>1. casts \in 0..MaxCasts
      BY DEF ControllersTypeOK
    <3> QED
      BY <2>1, <3>1, CastBounds
  <2>3. page' \in [Browsers -> Pages]
    <3>1. PICK n \in 1..MaxCasts : n = casts' /\ n \in 0..MaxCasts
      BY <2>2
    <3>2. PICK p : p = [page[b] EXCEPT !.stop = FALSE, !.media = n,
                                       !.preparing = page[b].preparing \cup {n}]
      OBVIOUS
    <3>3. p \in Pages
      BY <3>1, <3>2 DEF ControllersTypeOK, Pages
    <3> QED
      BY <1>2, <3>1, <3>2, <3>3, PageTurns DEF castMediaToTv
  <2> QED
    BY <2>1, <2>2, <2>3 DEF ControllersTypeOK, serverVars
<1>3. ASSUME NEW b \in Browsers, NEW media \in page[b].preparing, SendCast(b, media)
      PROVE ControllersTypeOK'
  <2>1. /\ Emit(b, "cast", media) /\ misled' \subseteq misled \cup {b}
        /\ UNCHANGED <<serverVars, greeting, inbox, online, counters>>
    BY <1>3 DEF SendCast
  <2>2. media \in 1..MaxCasts
    BY DEF ControllersTypeOK, Pages
  <2>3. [kind |-> "cast", media |-> media] \in Commands
    BY <2>2 DEF Commands
  <2>4. outbox' \in [Browsers -> Seq(Commands)]
    BY <2>1, <2>3, EmitIsTyped
  <2>5. page' \in [Browsers -> Pages]
    <3>1. PICK p : p = [page[b] EXCEPT !.casting = TRUE, !.modal = TRUE, !.saved = page[b].media,
                                       !.preparing = page[b].preparing \ {media}]
      OBVIOUS
    <3>2. p \in Pages
      BY <3>1 DEF ControllersTypeOK, Pages
    <3> QED
      BY <1>3, <3>1, <3>2, PageTurns DEF SendCast
  <2> QED
    BY <2>1, <2>4, <2>5 DEF ControllersTypeOK, serverVars, counters
<1>c. ASSUME NEW k \in {"stop", "control", "request"} PROVE [kind |-> k, media |-> NoMedia] \in Commands
  BY DEF Commands
<1>4. ASSUME NEW b \in Browsers, stopCasting(b) PROVE ControllersTypeOK'
  <2>1. /\ Emit(b, "stop", NoMedia) /\ inputs' \in 0..MaxInputs
        /\ UNCHANGED <<serverVars, greeting, inbox, online, misled, casts>>
    BY <1>4, <1>i DEF stopCasting, Command
  <2>2. PICK p : p = [page[b] EXCEPT !.stop = TRUE]
    OBVIOUS
  <2>3. p \in Pages
    BY <2>2 DEF ControllersTypeOK, Pages
  <2>4. page' \in [Browsers -> Pages]
    BY <1>4, <2>2, <2>3, ResetIsTyped, PageTurns DEF stopCasting
  <2>5. outbox' \in [Browsers -> Seq(Commands)]
    BY <1>c, <2>1, EmitIsTyped
  <2> QED
    BY <2>1, <2>4, <2>5 DEF ControllersTypeOK, serverVars
<1>5. ASSUME NEW b \in Browsers, UseModal(b) \/ requestTvStatus(b) PROVE ControllersTypeOK'
  <2>1. /\ inputs' \in 0..MaxInputs /\ UNCHANGED page
        /\ UNCHANGED <<serverVars, greeting, inbox, online, misled, casts>>
    BY <1>5, <1>i DEF UseModal, requestTvStatus, Command
  <2>2. PICK k \in {"stop", "control", "request"} : Emit(b, k, NoMedia)
    BY <1>5 DEF UseModal, requestTvStatus
  <2>3. outbox' \in [Browsers -> Seq(Commands)]
    BY <1>c, <2>2, EmitIsTyped
  <2> QED
    BY <2>1, <2>3 DEF ControllersTypeOK, serverVars
<1>6. ASSUME NEW b \in Browsers, Hear(b) PROVE ControllersTypeOK'
  <2>1. PICK k : Heard(b, k)
    <3>1. \/ Heard(b, "status") \/ Heard(b, "cast_success") \/ Heard(b, "kiosk_boot_complete")
          \/ Heard(b, "kiosk_boot_timeout") \/ Heard(b, "tv_error")
      BY <1>6 DEF Hear, handleTvStatusUpdate, handleCastSuccess, handleKioskBootComplete,
                  handleKioskBootTimeout, handleTvError
    <3> QED
      BY <3>1
  <2>2. /\ inbox' \in [Browsers -> Seq(Notices \cup Statuses)]
        /\ Head(inbox[b]) \in Notices \cup Statuses
        /\ UNCHANGED <<playing, tv, active, boot, starting, ending, greeting, online, misled, casts, inputs>>
    BY <1>h, <2>1
  <2>3. Head(inbox[b]).media \in 0..MaxCasts /\ Head(inbox[b]).casting \in BOOLEAN
    <3>1. CASE Head(inbox[b]) = NotCasting
      <4>1. NotCasting.media \in 0..MaxCasts
        BY CastBounds DEF NotCasting, Status
      <4>2. NotCasting.casting \in BOOLEAN
        BY DEF NotCasting, Status
      <4> QED
        BY <3>1, <4>1, <4>2
    <3>2. CASE Head(inbox[b]) \in [kind: {"status"}, casting: {TRUE}, media: 0..MaxCasts]
      BY <3>2
    <3>3. CASE Head(inbox[b]) \in Notices
      BY <3>3, CastBounds DEF Notices
    <3> QED
      BY <2>2, <3>1, <3>2, <3>3 DEF Statuses
  <2>4. page[b] \in Pages
    BY DEF ControllersTypeOK
  <2>5. outbox' \in [Browsers -> Seq(Commands)] /\ page' \in [Browsers -> Pages]
    <3>1. ASSUME NEW p \in Pages, Turn(b, p), Silent \/ Emit(b, "stop", NoMedia)
          PROVE  outbox' \in [Browsers -> Seq(Commands)] /\ page' \in [Browsers -> Pages]
      BY <1>c, <3>1, EmitIsTyped, PageTurns DEF Silent, ControllersTypeOK
    <3>2. CASE handleTvStatusUpdate(b)
      <4>1. PICK p : p = [page[b] EXCEPT !.stop = Head(inbox[b]).casting, !.modal = FALSE]
        OBVIOUS
      <4>2. p \in Pages
        BY <2>3, <2>4, <4>1 DEF Pages
      <4>3. \/ Turn(b, p)
            \/ Turn(b, Showing(page[b], Head(inbox[b]).media))
            \/ Turn(b, Reset(page[b], FALSE))
            \/ Turn(b, page[b])
        BY <3>2, <4>1 DEF handleTvStatusUpdate, StatusWhileStopping, StopAgain
      <4>4. Silent \/ Emit(b, "stop", NoMedia)
        BY <3>2 DEF handleTvStatusUpdate, StatusWhileStopping, StopAgain
      <4> QED
        BY <2>3, <2>4, <3>1, <4>2, <4>3, <4>4, ShowingIsTyped, ResetIsTyped
    <3>3. CASE handleCastSuccess(b) \/ handleKioskBootComplete(b)
      <4>1. PICK p : p = [page[b] EXCEPT !.casting = TRUE]
        OBVIOUS
      <4>2. p \in Pages /\ page[b].media \in 0..MaxCasts
        BY <2>4, <4>1 DEF Pages
      <4>3. \/ Turn(b, p)
            \/ Turn(b, Showing(page[b], page[b].media))
            \/ Turn(b, Reset(page[b], TRUE))
            \/ Turn(b, page[b])
        BY <3>3, <4>1 DEF handleCastSuccess, handleKioskBootComplete, StopAgain
      <4>4. Silent \/ Emit(b, "stop", NoMedia)
        BY <3>3 DEF handleCastSuccess, handleKioskBootComplete, StopAgain
      <4> QED
        BY <2>4, <3>1, <4>2, <4>3, <4>4, ShowingIsTyped, ResetIsTyped
    <3>4. CASE handleKioskBootTimeout(b) \/ handleTvError(b)
      <4>1. Silent /\ Turn(b, Reset(page[b], FALSE))
        BY <3>4 DEF handleKioskBootTimeout, handleTvError
      <4> QED
        BY <2>4, <3>1, <4>1, ResetIsTyped
    <3> QED
      BY <1>6, <3>2, <3>3, <3>4 DEF Hear
  <2> QED
    BY <2>2, <2>5 DEF ControllersTypeOK
<1>7. ASSUME NEW b \in Browsers, handleTvPlaybackState(b) \/ RestoreModal(b) PROVE ControllersTypeOK'
  <2>1. UNCHANGED <<serverVars, greeting, inbox, outbox, online, misled, counters>>
    BY <1>7 DEF handleTvPlaybackState, RestoreModal
  <2>2. page' \in [Browsers -> Pages]
    <3>1. PICK p : p = [page[b] EXCEPT !.saved = page[b].media]
      OBVIOUS
    <3>2. PICK r : r = [page[b] EXCEPT !.modal = TRUE, !.restoring = FALSE]
      OBVIOUS
    <3>3. p \in Pages /\ r \in Pages
      BY <3>1, <3>2 DEF ControllersTypeOK, Pages
    <3>4. Turn(b, p) \/ Turn(b, r)
      BY <1>7, <3>1, <3>2 DEF handleTvPlaybackState, RestoreModal
    <3> QED
      BY <3>3, <3>4, PageTurns
  <2> QED
    BY <2>1, <2>2 DEF ControllersTypeOK, serverVars, counters
<1>8. ASSUME NEW b \in Browsers, LoseSocket(b) \/ ReloadPage(b) PROVE ControllersTypeOK'
  <2>1. /\ inputs' \in 0..MaxInputs /\ online' \subseteq Browsers
        /\ greeting' = [greeting EXCEPT ![b] = NoGreeting] /\ inbox' = [inbox EXCEPT ![b] = <<>>]
        /\ boot' \in {boot, "gone"}
        /\ starting' = {[s EXCEPT !.by = IF s.by = b THEN "gone" ELSE s.by] : s \in starting}
        /\ UNCHANGED <<playing, tv, active, ending, misled, casts>>
    BY <1>8, <1>i DEF LoseSocket, ReloadPage, Forget, ControllersTypeOK
  <2>2. starting' \subseteq [by: Browsers \cup {"gone"}, cast: RealCasts]
    <3>1. ASSUME NEW s \in starting
          PROVE  [s EXCEPT !.by = IF s.by = b THEN "gone" ELSE s.by]
                   \in [by: Browsers \cup {"gone"}, cast: RealCasts]
      BY DEF ControllersTypeOK
    <3> QED
      BY <2>1, <3>1
  <2>3. inbox' \in [Browsers -> Seq(Notices \cup Statuses)]
    <3>1. <<>> \in Seq(Notices \cup Statuses)
      OBVIOUS
    <3> QED
      BY <2>1, <3>1 DEF ControllersTypeOK
  <2>4. outbox' \in [Browsers -> Seq(Commands)]
    <3>1. CASE LoseSocket(b)
      <4>1. PICK n \in 0..Len(outbox[b]) :
              outbox' = [outbox EXCEPT ![b] = SubSeq(outbox[b], n + 1, Len(outbox[b]))]
        BY <3>1 DEF LoseSocket
      <4>2. outbox[b] \in Seq(Commands)
        BY DEF ControllersTypeOK
      <4>3. SubSeq(outbox[b], n + 1, Len(outbox[b])) \in Seq(Commands)
        BY <4>2
      <4> QED
        BY <4>1, <4>3 DEF ControllersTypeOK
    <3>2. CASE ReloadPage(b)
      <4>1. <<[kind |-> "request", media |-> NoMedia]>> \in Seq(Commands)
        BY <1>c
      <4> QED
        BY <3>2, <4>1 DEF ReloadPage, ControllersTypeOK
    <3> QED
      BY <1>8, <3>1, <3>2
  <2>5. page' \in [Browsers -> Pages]
    <3>1. CASE LoseSocket(b)
      BY <3>1 DEF LoseSocket, ControllersTypeOK
    <3>2. CASE ReloadPage(b)
      <4>1. FreshPage(page[b].saved) \in Pages
        BY DEF ControllersTypeOK, Pages, FreshPage
      <4> QED
        BY <3>2, <4>1, PageTurns DEF ReloadPage
    <3> QED
      BY <1>8, <3>1, <3>2
  <2> QED
    BY <2>1, <2>2, <2>3, <2>4, <2>5 DEF ControllersTypeOK
<1>9. ASSUME NEW b \in Browsers, Connect(b) PROVE ControllersTypeOK'
  BY <1>9, MessagesAreTyped DEF Connect, ControllersTypeOK, serverVars, counters
<1>10. ASSUME NEW b \in Browsers, Greet(b) PROVE ControllersTypeOK'
  <2>1. /\ inbox' = Told(inbox, b, greeting[b]) /\ misled' \subseteq misled \cup {b}
        /\ greeting' = [greeting EXCEPT ![b] = NoGreeting] /\ greeting[b] \in Statuses
        /\ UNCHANGED <<playing, tv, active, boot, starting, ending, outbox, online, page, casts, inputs>>
    BY <1>10 DEF Greet, ControllersTypeOK, serverVars, counters
  <2>2. inbox' \in Boxes
    BY <2>1, TellingIsTyped DEF ControllersTypeOK, Boxes
  <2> QED
    BY <2>1, <2>2 DEF ControllersTypeOK, Boxes
<1>11. ASSUME NEW b \in Browsers, StartCast(b) PROVE ControllersTypeOK'
  <2>1. /\ outbox' \in [Browsers -> Seq(Commands)] /\ Head(outbox[b]) \in Commands
        /\ Head(outbox[b]).kind = "cast" /\ UNCHANGED <<greeting, online, page, casts, inputs>>
    BY <1>11, <1>a DEF StartCast
  <2>2. [by |-> b, cast |-> [media |-> Head(outbox[b]).media, guest |-> b \notin Administrators]]
           \in [by: Browsers \cup {"gone"}, cast: RealCasts]
    BY <2>1 DEF Commands, RealCasts
  <2> QED
    BY <1>11, <2>1, <2>2 DEF StartCast, ControllersTypeOK
<1>12. ASSUME NEW b \in Browsers, StopCasting(b) PROVE ControllersTypeOK'
  <2>1. /\ outbox' \in [Browsers -> Seq(Commands)] /\ UNCHANGED <<greeting, online, page, casts, inputs>>
    BY <1>12, <1>a DEF StopCasting
  <2>2. CASE Refused(b)
    BY <1>r, <2>1, <2>2 DEF ControllersTypeOK, Boxes
  <2>3. CASE /\ playing' = NoCast /\ active' \in BOOLEAN
             /\ inbox' = ToldAll(NotCasting) /\ misled' = misled \cap Deaf
             /\ UNCHANGED <<tv, boot, starting, ending>>
    BY <2>1, <2>3, AllToldIsTyped, MessagesAreTyped DEF ControllersTypeOK, Boxes
  <2>4. CASE /\ playing' = NoCast /\ active' \in BOOLEAN
             /\ ending' = ending + 1 /\ UNCHANGED <<inbox, misled>>
             /\ UNCHANGED <<tv, boot, starting>>
    <3>1. ending' \in Nat
      BY <2>4 DEF ControllersTypeOK
    <3>2. playing' \in RealCasts \cup {NoCast}
      BY <2>4
    <3> QED
      BY <2>1, <2>4, <3>1, <3>2 DEF ControllersTypeOK
  <2> QED
    BY <1>12, <2>2, <2>3, <2>4 DEF StopCasting
<1>13. ASSUME NEW b \in Browsers, RelayControl(b) PROVE ControllersTypeOK'
  <2>1. /\ outbox' \in [Browsers -> Seq(Commands)] /\ UNCHANGED <<greeting, online, page, casts, inputs>>
    BY <1>13, <1>a DEF RelayControl
  <2>2. CASE Refused(b)
    BY <1>r, <2>1, <2>2 DEF ControllersTypeOK, Boxes
  <2>3. CASE UNCHANGED <<serverVars, inbox, misled>>
    BY <2>1, <2>3 DEF ControllersTypeOK, serverVars
  <2> QED
    BY <1>13, <2>2, <2>3 DEF RelayControl
<1>14. ASSUME NEW b \in Browsers, RequestStatus(b) PROVE ControllersTypeOK'
  <2>1. /\ outbox' \in [Browsers -> Seq(Commands)] /\ UNCHANGED <<greeting, online, page, casts, inputs>>
        /\ UNCHANGED serverVars /\ misled' \subseteq Browsers
    BY <1>14, <1>a DEF RequestStatus, ControllersTypeOK
  <2>2. PICK m \in Statuses : inbox' = Told(inbox, b, m)
    BY <1>14, MessagesAreTyped DEF RequestStatus
  <2>3. inbox' \in Boxes
    BY <2>2, TellingIsTyped DEF ControllersTypeOK, Boxes
  <2> QED
    BY <2>1, <2>3 DEF ControllersTypeOK, Boxes, serverVars
<1>15. ASSUME NEW s \in starting, FinishStart(s) PROVE ControllersTypeOK'
  <2>1. s.cast \in RealCasts /\ s.by \in Browsers \cup {"gone"} /\ s.cast.media \in 0..MaxCasts
    BY DEF ControllersTypeOK, RealCasts
  <2>2. ToldAll(Status(TRUE, s.cast.media)) \in Boxes
    BY <2>1, MessagesAreTyped, AllToldIsTyped
  <2>3. inbox' \in Boxes
    <3>1. Note("cast_success") \in Notices
      BY MessagesAreTyped
    <3>2. PICK told : told = ToldAll(Status(TRUE, s.cast.media))
      OBVIOUS
    <3>3. ToldOne(told, s.by, Note("cast_success")) \in Boxes
      BY <2>2, <3>1, <3>2, TellingIsTyped
    <3>4. inbox' = told \/ inbox' = ToldOne(told, s.by, Note("cast_success"))
      BY <1>15, <3>2 DEF FinishStart
    <3> QED
      BY <2>2, <3>2, <3>3, <3>4
  <2> QED
    BY <1>15, <2>1, <2>3 DEF FinishStart, ControllersTypeOK, Boxes, counters
<1>16. CASE CheckBoot
  <2>1. inbox' \in Boxes
    <3>1. boot = "gone" \/ boot \in Browsers
      BY <1>16 DEF CheckBoot, ControllersTypeOK
    <3>2. inbox \in Boxes
      BY DEF ControllersTypeOK, Boxes
    <3> QED
      BY <1>16, <3>1, <3>2, MessagesAreTyped, TellingIsTyped DEF CheckBoot
  <2> QED
    BY <1>16, <2>1 DEF CheckBoot, ControllersTypeOK, Boxes, counters
<1>17. CASE TvArrives
  <2>1. /\ tv' = TRUE /\ boot' = Nobody /\ inputs' \in 0..MaxInputs /\ misled' \subseteq misled
        /\ UNCHANGED <<playing, active, starting, ending, greeting, outbox, online, page, casts>>
    BY <1>17, <1>i DEF TvArrives, TvChanges
  <2>2. PICK told : told = IF boot \in Browsers THEN Told(inbox, boot, Note("kiosk_boot_complete")) ELSE inbox
    OBVIOUS
  <2>3. told \in Boxes
    BY <2>2, MessagesAreTyped, TellingIsTyped DEF ControllersTypeOK, Boxes
  <2>4. inbox' = [b \in Browsers |-> IF b \in online THEN Append(told[b], Truth) ELSE told[b]]
    BY <1>17, <2>2 DEF TvArrives
  <2>5. inbox' \in Boxes
    BY <2>3, <2>4, MessagesAreTyped DEF Boxes
  <2> QED
    BY <2>1, <2>5 DEF ControllersTypeOK, Boxes
<1>18. CASE TvLeaves
  <2>1. /\ tv' = FALSE /\ inputs' \in 0..MaxInputs /\ misled' \subseteq misled
        /\ playing' \in {playing, NoCast}
        /\ UNCHANGED <<active, boot, starting, ending, greeting, outbox, online, page, casts>>
    BY <1>18, <1>i DEF TvLeaves, TvChanges
  <2>2. inbox' \in Boxes
    <3>1. inbox' = ToldAll(Status(TRUE, NoMedia)) \/ inbox' = ToldAll(NotCasting)
      BY <1>18 DEF TvLeaves
    <3>2. Status(TRUE, NoMedia) \in Statuses /\ NotCasting \in Statuses
      BY MessagesAreTyped, CastBounds
    <3> QED
      BY <3>1, <3>2, AllToldIsTyped
  <2> QED
    BY <2>1, <2>2 DEF ControllersTypeOK, Boxes
<1>19. CASE HdmiUnplugged
  BY <1>19, <1>i DEF HdmiUnplugged, TvChanges, ControllersTypeOK
<1>20. CASE AnnounceStop
  <2>1. /\ ending > 0 /\ ending' = ending - 1 /\ inbox' = ToldAll(NotCasting)
        /\ UNCHANGED <<playing, tv, active, boot, starting, greeting, outbox, online, page, casts, inputs>>
    BY <1>20 DEF AnnounceStop, counters
  <2>2. ending' \in Nat /\ inbox' \in Boxes
    <3>1. ending \in Nat
      BY DEF ControllersTypeOK
    <3>2. NotCasting \in Notices \cup Statuses
      BY MessagesAreTyped
    <3>3. ToldAll(NotCasting) \in Boxes
      BY <3>2, AllToldIsTyped
    <3> QED
      BY <2>1, <3>1, <3>3
  <2>3. misled' \subseteq Browsers
    BY <1>20 DEF AnnounceStop, ControllersTypeOK
  <2> QED
    BY <2>1, <2>2, <2>3 DEF ControllersTypeOK, Boxes
<1> QED
  BY <1>1, <1>2, <1>3, <1>4, <1>5, <1>6, <1>7, <1>8, <1>9, <1>10, <1>11, <1>12, <1>13, <1>14,
     <1>15, <1>16, <1>17, <1>18, <1>19, <1>20 DEF ControllersNext, Server

-----------------------------------------------------------------------------
(* The cast buttons of several browsers: what they know of the cast.  The     *)
(* messages a socket brings are read as a whole: what decides is the last       *)
(* verdict among them, not what the page shows before it has handled it.        *)

\* A message that settles whether the browser casts.
Verdict(m) ==
    \/ m.kind \in {"tv_error", "kiosk_boot_timeout"}
    \/ m.kind = "status" /\ (~m.casting \/ m.media # NoMedia)
Undecided(q) == \A i \in 1..Len(q) : ~Verdict(q[i])

\* The last verdict of a queue is true, and who is told of its success casts by then.
TellsTruth(q, media) ==
    \A i \in 1..Len(q) :
        (\A j \in i+1..Len(q) : ~Verdict(q[j])) =>
            /\ Verdict(q[i]) => q[i].media = media
            /\ q[i].kind = "cast_success" => media # NoMedia
Agrees(p, media) ==
    /\ p.casting <=> media # NoMedia
    /\ p.casting => p.media = media /\ (p.modal \/ p.restoring)

Sends(q, kinds) == \E i \in 1..Len(q) : q[i].kind \in kinds
Listens(b) == b \in online /\ greeting[b] = NoGreeting


\* A browser that wants a stop has sent it, or is about to be told what to do.
StopIsUnderWay(b) ==
    page[b].stop /\ Listens(b) =>
        Sends(outbox[b], {"stop"}) \/ ending > 0 \/ ~Undecided(inbox[b])

\* One that has not been told anything untrue never casts while it wants a stop; and as
\* soon as nothing it sent is under way, the last verdict it is going to hear is true, or
\* it shows the truth already.
Settled(b) == Listens(b) /\ starting = {} /\ ending = 0 /\ ~Sends(outbox[b], {"cast", "stop"})
KnowsCast(b) ==
    /\ ~(page[b].stop /\ page[b].casting)
    /\ Settled(b) => /\ TellsTruth(inbox[b], playing.media)
                     /\ Undecided(inbox[b]) => Agrees(page[b], playing.media)

Kept(b) == StopIsUnderWay(b) /\ (b \notin misled => KnowsCast(b))
CastInv == ControllersTypeOK /\ \A b \in Browsers : Kept(b)

\* A queue to which a message is added.
LEMMA Queued ==
  ASSUME NEW S, NEW q \in Seq(S), NEW m \in S
  PROVE  /\ Len(q) \in Nat /\ Len(Append(q, m)) = Len(q) + 1
         /\ Append(q, m)[Len(q) + 1] = m /\ \A i \in 1..Len(q) : Append(q, m)[i] = q[i]
  OBVIOUS

\* A verdict that is told is the last one.
LEMMA VerdictTold ==
  ASSUME NEW S, NEW q \in Seq(S), NEW m \in S, Verdict(m)
  PROVE  TellsTruth(Append(q, m), m.media) /\ ~Undecided(Append(q, m))
<1>1. /\ Len(q) \in Nat /\ Len(Append(q, m)) = Len(q) + 1 /\ Append(q, m)[Len(q) + 1] = m
  BY Queued
<1>2. ASSUME NEW i \in 1..Len(q)+1, \A j \in i+1..Len(q)+1 : ~Verdict(Append(q, m)[j])
      PROVE  i = Len(q) + 1
  <2>1. ~(Len(q) + 1 \in i+1..Len(q)+1)
    BY <1>1, <1>2
  <2> QED
    BY <1>1, <2>1
<1>3. m.kind # "cast_success"
  BY DEF Verdict
<1>4. TellsTruth(Append(q, m), m.media)
  BY <1>1, <1>2, <1>3 DEF TellsTruth
<1>5. Len(q) + 1 \in 1..Len(Append(q, m))
  BY <1>1
<1> QED
  BY <1>1, <1>4, <1>5 DEF Undecided

\* Another message leaves it to the last verdict.
LEMMA NoteTold ==
  ASSUME NEW S, NEW q \in Seq(S), NEW m \in S, ~Verdict(m)
  PROVE  /\ Undecided(Append(q, m)) <=> Undecided(q)
         /\ \A media : TellsTruth(q, media) /\ (m.kind = "cast_success" => media # NoMedia)
                         => TellsTruth(Append(q, m), media)
<1>1. /\ Len(q) \in Nat /\ Len(Append(q, m)) = Len(q) + 1
      /\ Append(q, m)[Len(q) + 1] = m /\ \A i \in 1..Len(q) : Append(q, m)[i] = q[i]
  BY Queued
<1>2. /\ 1..Len(q) \subseteq 1..Len(q)+1
      /\ \A i \in 1..Len(q)+1 : i \in 1..Len(q) \/ i = Len(q) + 1
  BY <1>1
<1>3. Undecided(Append(q, m)) <=> Undecided(q)
  BY <1>1, <1>2 DEF Undecided
<1>4. ASSUME NEW media, TellsTruth(q, media), m.kind = "cast_success" => media # NoMedia
      PROVE  TellsTruth(Append(q, m), media)
  <2> SUFFICES ASSUME NEW i \in 1..Len(q)+1, \A j \in i+1..Len(q)+1 : ~Verdict(Append(q, m)[j])
               PROVE  /\ Verdict(Append(q, m)[i]) => Append(q, m)[i].media = media
                      /\ Append(q, m)[i].kind = "cast_success" => media # NoMedia
    BY <1>1 DEF TellsTruth
  <2>1. CASE i = Len(q) + 1
    BY <1>1, <1>4, <2>1
  <2>2. CASE i \in 1..Len(q)
    <3>1. \A j \in i+1..Len(q) : j \in i+1..Len(q)+1 /\ j \in 1..Len(q)
      BY <1>1, <2>2
    <3>2. \A j \in i+1..Len(q) : ~Verdict(q[j])
      BY <1>1, <3>1
    <3> QED
      BY <1>1, <1>4, <2>2, <3>2 DEF TellsTruth
  <2> QED
    BY <1>2, <2>1, <2>2
<1> QED
  BY <1>3, <1>4

\* A queue whose first message is taken.
LEMMA NoticeTaken ==
  ASSUME NEW S, NEW q \in Seq(S), q # <<>>
  PROVE  /\ \A media : TellsTruth(q, media) => TellsTruth(Tail(q), media)
         /\ Undecided(Tail(q)) /\ ~Verdict(Head(q)) => Undecided(q)
         /\ Undecided(q) => Undecided(Tail(q)) /\ ~Verdict(Head(q))
         /\ \A media : Undecided(Tail(q)) /\ TellsTruth(q, media) =>
               /\ Verdict(Head(q)) => Head(q).media = media
               /\ Head(q).kind = "cast_success" => media # NoMedia
<1>1. /\ Len(q) \in Nat \ {0} /\ Len(Tail(q)) = Len(q) - 1
      /\ \A i \in 1..Len(q)-1 : Tail(q)[i] = q[i + 1]
      /\ Head(q) = q[1]
  OBVIOUS
<1>2. /\ \A i \in 1..Len(q)-1 : i + 1 \in 1..Len(q)
      /\ \A i \in 2..Len(q) : i - 1 \in 1..Len(q)-1 /\ (i - 1) + 1 = i
      /\ 1 \in 1..Len(q) /\ \A i \in 1..Len(q) : i = 1 \/ i \in 2..Len(q)
  BY <1>1
<1>3. \A i \in 2..Len(q) : Tail(q)[i - 1] = q[i]
  BY <1>1, <1>2
<1>4. ASSUME NEW media, TellsTruth(q, media) PROVE TellsTruth(Tail(q), media)
  <2> SUFFICES ASSUME NEW i \in 1..Len(q)-1, \A j \in i+1..Len(q)-1 : ~Verdict(Tail(q)[j])
               PROVE  /\ Verdict(Tail(q)[i]) => Tail(q)[i].media = media
                      /\ Tail(q)[i].kind = "cast_success" => media # NoMedia
    BY <1>1 DEF TellsTruth
  <2>1. \A j \in (i+1)+1..Len(q) : j - 1 \in i+1..Len(q)-1 /\ j \in 2..Len(q)
    BY <1>1
  <2>2. \A j \in (i+1)+1..Len(q) : ~Verdict(q[j])
    BY <1>3, <2>1
  <2>3. i + 1 \in 1..Len(q) /\ Tail(q)[i] = q[i + 1]
    BY <1>1, <1>2
  <2> QED
    BY <1>4, <2>2, <2>3 DEF TellsTruth
<1>5. Undecided(Tail(q)) /\ ~Verdict(Head(q)) => Undecided(q)
  BY <1>1, <1>2, <1>3 DEF Undecided
<1>6. Undecided(q) => Undecided(Tail(q)) /\ ~Verdict(Head(q))
  BY <1>1, <1>2 DEF Undecided
<1>7. ASSUME NEW media, Undecided(Tail(q)), TellsTruth(q, media)
      PROVE  /\ Verdict(Head(q)) => Head(q).media = media
             /\ Head(q).kind = "cast_success" => media # NoMedia
  <2>1. \A j \in 1+1..Len(q) : ~Verdict(q[j])
    BY <1>1, <1>2, <1>3, <1>7 DEF Undecided
  <2> QED
    BY <1>1, <1>2, <1>7, <2>1 DEF TellsTruth
<1> QED
  BY <1>4, <1>5, <1>6, <1>7

\* Commands that wait.
LEMMA CommandSent ==
  ASSUME NEW q \in Seq(Commands), NEW c \in Commands, NEW kinds
  PROVE  Sends(Append(q, c), kinds) <=> Sends(q, kinds) \/ c.kind \in kinds
<1>1. /\ Len(q) \in Nat /\ Len(Append(q, c)) = Len(q) + 1
      /\ Append(q, c)[Len(q) + 1] = c /\ \A i \in 1..Len(q) : Append(q, c)[i] = q[i]
  BY Queued
<1>2. /\ 1..Len(q) \subseteq 1..Len(q)+1 /\ Len(q) + 1 \in 1..Len(q)+1
      /\ \A i \in 1..Len(q)+1 : i \in 1..Len(q) \/ i = Len(q) + 1
  BY <1>1
<1> QED
  BY <1>1, <1>2 DEF Sends

\* The server takes the first of them.
LEMMA CommandTaken ==
  ASSUME NEW q \in Seq(Commands), q # <<>>, NEW kinds
  PROVE  Sends(q, kinds) <=> Sends(Tail(q), kinds) \/ Head(q).kind \in kinds
<1>1. /\ Len(q) \in Nat \ {0} /\ Len(Tail(q)) = Len(q) - 1
      /\ \A i \in 1..Len(q)-1 : Tail(q)[i] = q[i + 1]
      /\ Head(q) = q[1]
  OBVIOUS
<1>2. /\ \A i \in 1..Len(q)-1 : i + 1 \in 1..Len(q)
      /\ \A i \in 2..Len(q) : i - 1 \in 1..Len(q)-1 /\ (i - 1) + 1 = i
      /\ 1 \in 1..Len(q) /\ \A i \in 1..Len(q) : i = 1 \/ i \in 2..Len(q)
  BY <1>1
<1>3. \A i \in 2..Len(q) : Tail(q)[i - 1] = q[i]
  BY <1>1, <1>2
<1> QED
  BY <1>1, <1>2, <1>3 DEF Sends

\* The invariant holds at first.
LEMMA CastInit == ControllersInit => CastInv
<1> SUFFICES ASSUME ControllersInit, NEW b \in Browsers PROVE Kept(b)
  BY CastTypeInit DEF CastInv
<1>1. PICK p : p = [FreshPage(casts) EXCEPT !.modal = (casts = 1), !.restoring = FALSE]
  OBVIOUS
<1>2. /\ page[b] = p /\ casts \in {0, 1} /\ playing.media = casts /\ inbox[b] = <<>>
  BY <1>1 DEF ControllersInit
<1>3. /\ p.casting = (casts # NoMedia) /\ p.media = casts /\ p.modal = (casts = 1) /\ p.stop = FALSE
  BY <1>1 DEF FreshPage
<1>4. Len(inbox[b]) = 0
  BY <1>2
<1>5. TellsTruth(inbox[b], playing.media)
  BY <1>4 DEF TellsTruth
<1>6. Agrees(page[b], playing.media)
  <2>1. CASE casts = 0
    BY <1>2, <1>3, <2>1 DEF Agrees, NoMedia
  <2>2. CASE casts = 1
    BY <1>2, <1>3, <2>2 DEF Agrees, NoMedia
  <2> QED
    BY <1>2, <2>1, <2>2
<1> QED
  BY <1>2, <1>3, <1>5, <1>6 DEF Kept, StopIsUnderWay, KnowsCast

\* A browser for which nothing changes keeps its part.
LEMMA Untouched ==
  ASSUME NEW c \in Browsers, Kept(c),
         page'[c] = page[c], inbox'[c] = inbox[c], outbox'[c] = outbox[c],
         greeting'[c] = greeting[c], c \in online' <=> c \in online, UNCHANGED playing,
         starting' = {} => starting = {}, UNCHANGED ending, c \notin misled' => c \notin misled
  PROVE  Kept(c)'
BY DEF Kept, StopIsUnderWay, KnowsCast, Settled, Listens

\* One that has no socket, or is being greeted, has little to keep.
LEMMA IsAway ==
  ASSUME NEW c \in Browsers, ~Listens(c)',
         c \notin misled' => ~(page'[c].stop /\ page'[c].casting)
  PROVE  Kept(c)'
BY DEF Kept, StopIsUnderWay, KnowsCast, Settled

\* So has one that is told how it is.
LEMMA HearsTruth ==
  ASSUME NEW c \in Browsers, page'[c] = page[c], ~Undecided(inbox'[c]),
         c \notin misled' => /\ ~(page[c].stop /\ page[c].casting)
                             /\ TellsTruth(inbox'[c], playing'.media)
  PROVE  Kept(c)'
BY DEF Kept, StopIsUnderWay, KnowsCast, Settled

\* Everybody is told.
LEMMA AllHear ==
  ASSUME CastInv, UNCHANGED <<page, greeting, online>>, misled \cap Deaf \subseteq misled',
         \A c \in online : /\ ~Undecided(inbox'[c])
                           /\ c \notin misled' => TellsTruth(inbox'[c], playing'.media)
  PROVE  \A c \in Browsers : Kept(c)'
<1> SUFFICES ASSUME NEW c \in Browsers PROVE Kept(c)'
  OBVIOUS
<1>1. c \notin misled' => ~(page[c].stop /\ page[c].casting)
  <2>1. c \notin misled => ~(page[c].stop /\ page[c].casting)
    BY DEF CastInv, Kept, KnowsCast
  <2>2. c \in misled /\ c \notin misled' => c \notin Deaf
    OBVIOUS
  <2> QED
    BY <2>1, <2>2 DEF Deaf
<1>2. CASE c \in online
  <2>1. /\ page'[c] = page[c] /\ ~Undecided(inbox'[c])
        /\ c \notin misled' => TellsTruth(inbox'[c], playing'.media)
    BY <1>2
  <2> QED
    BY <1>1, <2>1, HearsTruth
<1>3. CASE c \notin online
  <2>1. ~Listens(c)'
    BY <1>3 DEF Listens
  <2> QED
    BY <1>1, <2>1, IsAway
<1> QED
  BY <1>2, <1>3

\* ToldAll of a verdict.
LEMMA AllToldVerdict ==
  ASSUME CastInv, NEW v \in Statuses, Verdict(v), NEW c \in Browsers, c \in online
  PROVE  /\ ToldAll(v)[c] \in Seq(Notices \cup Statuses)
         /\ ~Undecided(ToldAll(v)[c]) /\ TellsTruth(ToldAll(v)[c], v.media)
<1>1. ToldAll(v)[c] = Append(inbox[c], v) /\ inbox[c] \in Seq(Notices \cup Statuses)
  BY DEF ToldAll, CastInv, ControllersTypeOK
<1> QED
  BY <1>1, VerdictTold

\* Which messages are verdicts.
LEMMA Verdicts ==
  /\ Verdict(NotCasting) /\ NotCasting.media = NoMedia
  /\ \A media : media # NoMedia => Verdict(Status(TRUE, media))
  /\ ~Verdict(Status(TRUE, NoMedia)) /\ \A media : Status(TRUE, media).media = media
  /\ Verdict(Note("tv_error")) /\ Verdict(Note("kiosk_boot_timeout"))
  /\ \A k \in {"cast_success", "kiosk_boot_complete"} : ~Verdict(Note(k)) /\ Note(k).kind = k
  /\ \A k : Note(k).media = NoMedia
<1>1. Verdict(NotCasting) /\ NotCasting.media = NoMedia
  BY DEF NotCasting, Status, Verdict
<1>2. /\ \A media : media # NoMedia => Verdict(Status(TRUE, media))
      /\ ~Verdict(Status(TRUE, NoMedia)) /\ \A media : Status(TRUE, media).media = media
  BY DEF Status, Verdict
<1>3. /\ Verdict(Note("tv_error")) /\ Verdict(Note("kiosk_boot_timeout"))
      /\ \A k \in {"cast_success", "kiosk_boot_complete"} : ~Verdict(Note(k)) /\ Note(k).kind = k
      /\ \A k : Note(k).media = NoMedia
  BY DEF Note, Verdict
<1> QED
  BY <1>1, <1>2, <1>3

\* Statuses and notices.
LEMMA MessageKinds ==
  /\ \A m \in Statuses : m.kind = "status"
  /\ \A m \in Notices : m.kind # "status" /\ m.media = NoMedia
<1>1. NotCasting.kind = "status"
  BY DEF NotCasting, Status
<1>2. \A m \in [kind: {"status"}, casting: {TRUE}, media: 0..MaxCasts] : m.kind = "status"
  OBVIOUS
<1>3. \A m \in Notices : m.kind # "status" /\ m.media = NoMedia
  BY DEF Notices
<1> QED
  BY <1>1, <1>2, <1>3 DEF Statuses

\* A browser that hears a message and does not stop anything is right in the end.
LEMMA HearsOn ==
  ASSUME CastInv, NEW b \in Browsers, NEW k, Heard(b, k), UNCHANGED outbox, ~page'[b].stop,
         TellsTruth(inbox[b], playing.media) /\ Undecided(Tail(inbox[b]))
           /\ (Undecided(inbox[b]) => Agrees(page[b], playing.media))
           /\ ~(page[b].stop /\ page[b].casting)
         => Agrees(page'[b], playing.media)
  PROVE  Kept(b)'
<1>1. /\ inbox[b] \in Seq(Notices \cup Statuses) /\ inbox[b] # <<>> /\ inbox'[b] = Tail(inbox[b])
      /\ UNCHANGED <<playing, starting, ending, greeting, online, misled>>
  BY DEF Heard, CastInv, ControllersTypeOK, serverVars
<1>2. \A media : TellsTruth(inbox[b], media) => TellsTruth(Tail(inbox[b]), media)
  BY <1>1, NoticeTaken
<1>3. Settled(b)' => Settled(b)
  BY <1>1 DEF Settled, Listens
<1>4. StopIsUnderWay(b)'
  BY DEF StopIsUnderWay
<1>5. b \notin misled' => KnowsCast(b)'
  <2> SUFFICES ASSUME b \notin misled, Settled(b)
               PROVE  /\ TellsTruth(inbox'[b], playing.media)
                      /\ Undecided(inbox'[b]) => Agrees(page'[b], playing.media)
    BY <1>1, <1>3 DEF KnowsCast
  <2>1. KnowsCast(b)
    BY DEF CastInv, Kept
  <2> QED
    BY <1>1, <1>2, <2>1 DEF KnowsCast
<1> QED
  BY <1>4, <1>5 DEF Kept

\* One that stops the cast again is not settled.
LEMMA StopsAgain ==
  ASSUME CastInv, NEW b \in Browsers, NEW k, Heard(b, k), Emit(b, "stop", NoMedia),
         ~(page[b].stop /\ page[b].casting) => ~(page'[b].stop /\ page'[b].casting)
  PROVE  Kept(b)'
<1>1. [kind |-> "stop", media |-> NoMedia] \in Commands /\ outbox[b] \in Seq(Commands)
  BY DEF Commands, CastInv, ControllersTypeOK
<1>2. outbox'[b] = Append(outbox[b], [kind |-> "stop", media |-> NoMedia])
  BY <1>1, EmitIsTyped DEF CastInv
<1>3. Sends(outbox'[b], {"stop"}) /\ Sends(outbox'[b], {"cast", "stop"})
  <2>1. [kind |-> "stop", media |-> NoMedia].kind \in {"stop"} \cap {"cast", "stop"}
    OBVIOUS
  <2> QED
    BY <1>1, <1>2, <2>1, CommandSent
<1>4. UNCHANGED misled /\ (b \notin misled => ~(page[b].stop /\ page[b].casting))
  BY DEF Heard, CastInv, Kept, KnowsCast
<1> QED
  BY <1>3, <1>4 DEF Kept, StopIsUnderWay, KnowsCast, Settled

\* Whatever message it handles.
LEMMA HearingKeeps ==
  ASSUME CastInv, NEW b \in Browsers, Hear(b)
  PROVE  Kept(b)'
<1> PICK q : q = inbox[b]
  OBVIOUS
<1> PICK m : m = Head(q)
  OBVIOUS
<1> PICK p : p = page[b]
  OBVIOUS
<1>1. ControllersTypeOK /\ p \in Pages /\ q \in Seq(Notices \cup Statuses)
  BY DEF CastInv, ControllersTypeOK
<1>2. ASSUME NEW k, Heard(b, k)
      PROVE  /\ q # <<>> /\ m.kind = k /\ m \in Notices \cup Statuses
             /\ Undecided(Tail(q)) /\ ~Verdict(m) => Undecided(q)
             /\ \A media : Undecided(Tail(q)) /\ TellsTruth(q, media) =>
                  /\ Verdict(m) => m.media = media
                  /\ m.kind = "cast_success" => media # NoMedia
  <2>1. q # <<>> /\ m.kind = k
    BY <1>2 DEF Heard
  <2>2. m \in Notices \cup Statuses
    BY <1>1, <2>1
  <2> QED
    BY <1>1, <2>1, <2>2, NoticeTaken
<1>3. ASSUME NEW r \in Pages, Turn(b, r) PROVE page'[b] = r
  BY <1>1, <1>3, PageTurns
<1>4. CASE handleTvStatusUpdate(b)
  <2>1. Heard(b, "status")
    BY <1>4 DEF handleTvStatusUpdate
  <2>2. m.kind = "status" /\ m \in Statuses
    BY <1>2, <2>1, MessageKinds
  <2>3. m.casting \in BOOLEAN /\ m.media \in 0..MaxCasts /\ (~m.casting => m.media = NoMedia)
    <3>1. CASE m = NotCasting
      <4>1. NotCasting.casting = FALSE /\ NotCasting.media = NoMedia
        BY DEF NotCasting, Status
      <4> QED
        BY <3>1, <4>1, CastBounds
    <3>2. CASE m \in [kind: {"status"}, casting: {TRUE}, media: 0..MaxCasts]
      BY <3>2
    <3> QED
      BY <2>2, <3>1, <3>2 DEF Statuses
  <2>4. CASE p.stop
    <3>1. PICK r : r = [p EXCEPT !.stop = m.casting, !.modal = FALSE]
      OBVIOUS
    <3>2. r \in Pages /\ (r.stop <=> m.casting) /\ r.casting = p.casting /\ r.modal = FALSE
      BY <1>1, <2>3, <3>1 DEF Pages
    <3>3. StatusWhileStopping(b, m.casting)
      BY <1>4, <2>4 DEF handleTvStatusUpdate
    <3>4. CASE m.casting
      <4>1. Emit(b, "stop", NoMedia) /\ Turn(b, r)
        BY <3>1, <3>3, <3>4 DEF StatusWhileStopping, StopAgain
      <4>2. page'[b] = r
        BY <1>3, <3>2, <4>1
      <4> QED
        BY <2>1, <2>4, <3>2, <4>1, <4>2, StopsAgain
    <3>5. CASE ~m.casting
      <4>1. UNCHANGED outbox /\ Turn(b, r)
        BY <3>1, <3>3, <3>5 DEF StatusWhileStopping, Silent
      <4>2. page'[b] = r
        BY <1>3, <3>2, <4>1
      <4>3. Verdict(m) /\ m.media = NoMedia
        BY <2>2, <2>3, <3>5 DEF Verdict
      <4>4. TellsTruth(q, playing.media) /\ Undecided(Tail(q)) => playing.media = NoMedia
        BY <1>2, <2>1, <4>3
      <4>5. ~p.casting => ~page'[b].casting
        BY <3>2, <4>2
      <4>6. ~page'[b].stop
        BY <3>2, <3>5, <4>2
      <4> QED
        BY <2>1, <2>4, <4>1, <4>4, <4>5, <4>6, HearsOn DEF Agrees
    <3> QED
      BY <3>4, <3>5
  <2>5. CASE ~p.stop
    <3>1. UNCHANGED outbox
      BY <1>4, <2>5 DEF handleTvStatusUpdate, Silent
    <3>2. CASE m.media # NoMedia
      <4>1. Turn(b, Showing(p, m.media))
        BY <1>4, <2>5, <3>2 DEF handleTvStatusUpdate
      <4>2. /\ page'[b].casting /\ page'[b].modal /\ page'[b].media = m.media /\ ~page'[b].stop
        BY <1>1, <1>3, <2>3, <2>5, <4>1, ShowingIsTyped
      <4>3. Verdict(m)
        BY <2>2, <3>2 DEF Verdict
      <4>4. TellsTruth(q, playing.media) /\ Undecided(Tail(q)) => playing.media = m.media
        BY <1>2, <2>1, <4>3
      <4> QED
        BY <2>1, <3>1, <3>2, <4>2, <4>4, HearsOn DEF Agrees
    <3>3. CASE m.media = NoMedia /\ ~m.casting
      <4>1. Turn(b, Reset(p, FALSE)) \/ (~p.casting /\ Turn(b, p))
        BY <1>4, <2>5, <3>3 DEF handleTvStatusUpdate
      <4>2. ~page'[b].casting /\ ~page'[b].stop
        BY <1>1, <1>3, <2>5, <4>1, ResetIsTyped
      <4>3. Verdict(m)
        BY <2>2, <3>3 DEF Verdict
      <4>4. TellsTruth(q, playing.media) /\ Undecided(Tail(q)) => playing.media = NoMedia
        BY <1>2, <2>1, <3>3, <4>3
      <4> QED
        BY <2>1, <3>1, <4>2, <4>4, HearsOn DEF Agrees
    <3>4. CASE m.media = NoMedia /\ m.casting
      <4>1. Turn(b, p)
        BY <1>4, <2>5, <3>4 DEF handleTvStatusUpdate
      <4>2. page'[b] = page[b]
        BY <1>1, <1>3, <4>1
      <4>3. ~Verdict(m)
        BY <2>2, <3>4 DEF Verdict
      <4> QED
        BY <1>2, <2>1, <2>5, <3>1, <4>2, <4>3, HearsOn
    <3> QED
      BY <3>2, <3>3, <3>4
  <2> QED
    BY <2>4, <2>5
<1>5. ASSUME NEW k \in {"cast_success", "kiosk_boot_complete"}, Heard(b, k), p.stop,
             StopAgain(b, Reset(p, TRUE))
      PROVE  Kept(b)'
  <2>1. Emit(b, "stop", NoMedia) /\ ~page'[b].casting
    BY <1>1, <1>3, <1>5, ResetIsTyped DEF StopAgain
  <2> QED
    BY <1>5, <2>1, StopsAgain
<1>6. CASE handleCastSuccess(b)
  <2>1. Heard(b, "cast_success")
    BY <1>6 DEF handleCastSuccess
  <2>2. CASE p.stop
    BY <1>5, <1>6, <2>1, <2>2 DEF handleCastSuccess
  <2>3. CASE ~p.stop
    <3>1. PICK r : r = [p EXCEPT !.casting = TRUE]
      OBVIOUS
    <3>2. r \in Pages /\ r.casting /\ r.stop = p.stop /\ r.media = p.media
          /\ r.modal = p.modal /\ r.restoring = p.restoring
      BY <1>1, <3>1 DEF Pages
    <3>3. UNCHANGED outbox /\ Turn(b, r)
      BY <1>6, <2>3, <3>1 DEF handleCastSuccess, Silent
    <3>4. page'[b] = r
      BY <1>3, <3>2, <3>3
    <3>5. m.kind = "cast_success" /\ ~Verdict(m)
      BY <1>2, <2>1 DEF Verdict
    <3>6. TellsTruth(q, playing.media) /\ Undecided(Tail(q)) => playing.media # NoMedia /\ Undecided(q)
      BY <1>2, <2>1, <3>5
    <3>7. Agrees(p, playing.media) /\ playing.media # NoMedia => Agrees(r, playing.media)
      BY <3>2 DEF Agrees
    <3>8. ~page'[b].stop
      BY <2>3, <3>2, <3>4
    <3> QED
      BY <2>1, <3>3, <3>4, <3>6, <3>7, <3>8, HearsOn
  <2> QED
    BY <2>2, <2>3
<1>7. CASE handleKioskBootComplete(b)
  <2>1. Heard(b, "kiosk_boot_complete")
    BY <1>7 DEF handleKioskBootComplete
  <2>2. CASE p.stop
    BY <1>5, <1>7, <2>1, <2>2 DEF handleKioskBootComplete
  <2>3. CASE ~p.stop
    <3>1. UNCHANGED outbox /\ (Turn(b, p) \/ (p.casting /\ Turn(b, Showing(p, p.media))))
      BY <1>7, <2>3 DEF handleKioskBootComplete, Silent
    <3>2. p.media \in 0..MaxCasts
      BY <1>1 DEF Pages
    <3>3. \/ page'[b] = p
          \/ /\ p.casting /\ page'[b].casting /\ page'[b].modal /\ page'[b].media = p.media
             /\ page'[b].stop = p.stop
      BY <1>1, <1>3, <3>1, <3>2, ShowingIsTyped
    <3>4. m.kind = "kiosk_boot_complete" /\ ~Verdict(m)
      BY <1>2, <2>1 DEF Verdict
    <3>5. Undecided(Tail(q)) => Undecided(q)
      BY <1>2, <2>1, <3>4
    <3>6. Agrees(p, playing.media) => Agrees(page'[b], playing.media)
      BY <3>3 DEF Agrees
    <3>7. ~page'[b].stop
      BY <2>3, <3>3
    <3> QED
      BY <2>1, <3>1, <3>5, <3>6, <3>7, HearsOn
  <2> QED
    BY <2>2, <2>3
<1>8. CASE handleKioskBootTimeout(b) \/ handleTvError(b)
  <2>1. PICK k \in {"kiosk_boot_timeout", "tv_error"} : Heard(b, k)
    <3>1. Heard(b, "kiosk_boot_timeout") \/ Heard(b, "tv_error")
      BY <1>8 DEF handleKioskBootTimeout, handleTvError
    <3> QED
      BY <3>1
  <2>2. UNCHANGED outbox /\ Turn(b, Reset(p, FALSE))
    BY <1>8 DEF handleKioskBootTimeout, handleTvError, Silent
  <2>3. ~page'[b].casting /\ ~page'[b].stop
    BY <1>1, <1>3, <2>2, ResetIsTyped
  <2>4. Verdict(m) /\ m.media = NoMedia
    <3>1. m.kind = k /\ m \in Notices \cup Statuses
      BY <1>2, <2>1
    <3>2. m \in Notices
      BY <3>1, MessageKinds
    <3> QED
      BY <3>1, <3>2, MessageKinds DEF Verdict
  <2>5. TellsTruth(q, playing.media) /\ Undecided(Tail(q)) => playing.media = NoMedia
    BY <1>2, <2>1, <2>4
  <2> QED
    BY <2>1, <2>2, <2>3, <2>5, HearsOn DEF Agrees
<1> QED
  BY <1>4, <1>6, <1>7, <1>8 DEF Hear

\* A command that is refused ends the cast for its sender.
LEMMA RefusalKeeps ==
  ASSUME CastInv, NEW b \in Browsers, Refused(b), UNCHANGED <<page, greeting, online>>,
         \A c \in Browsers \ {b} : outbox'[c] = outbox[c]
  PROVE  \A c \in Browsers : Kept(c)'
<1>1. /\ inbox' = Told(inbox, b, Note("tv_error")) /\ inbox \in Boxes
      /\ misled' = IF playing = NoCast THEN misled ELSE misled \cup {b}
      /\ UNCHANGED serverVars /\ ControllersTypeOK
  BY DEF Refused, CastInv, ControllersTypeOK, Boxes
<1>2. Note("tv_error") \in Notices /\ (playing.media # NoMedia <=> playing # NoCast)
  BY <1>1, MessagesAreTyped
<1>3. inbox'[b] = Append(inbox[b], Note("tv_error")) /\ \A c \in Browsers \ {b} : inbox'[c] = inbox[c]
  BY <1>1, <1>2, TellingIsTyped
<1>4. ~Undecided(inbox'[b]) /\ TellsTruth(inbox'[b], NoMedia)
  <2>1. inbox[b] \in Seq(Notices \cup Statuses)
    BY <1>1 DEF Boxes
  <2> QED
    BY <1>2, <1>3, <2>1, VerdictTold, Verdicts
<1>5. Kept(b)'
  <2>1. b \notin misled' => /\ ~(page[b].stop /\ page[b].casting)
                            /\ TellsTruth(inbox'[b], playing'.media)
    BY <1>1, <1>2, <1>4 DEF CastInv, Kept, KnowsCast, serverVars
  <2> QED
    BY <1>4, <2>1, HearsTruth
<1>6. ASSUME NEW c \in Browsers \ {b} PROVE Kept(c)'
  BY <1>1, <1>3, Untouched DEF CastInv, serverVars
<1> QED
  BY <1>5, <1>6

\* Every step keeps the invariant.
LEMMA CastNext == CastInv /\ [ControllersNext]_castVars => CastInv'
<1> SUFFICES ASSUME CastInv, [ControllersNext]_castVars PROVE \A c \in Browsers : Kept(c)'
  BY CastTypeNext DEF CastInv
<1>t. /\ ControllersTypeOK /\ inbox \in Boxes /\ outbox \in [Browsers -> Seq(Commands)]
      /\ page \in [Browsers -> Pages] /\ online \subseteq Browsers
      /\ playing.media \in 0..MaxCasts /\ (playing.media # NoMedia <=> playing # NoCast)
  BY MessagesAreTyped DEF CastInv, ControllersTypeOK, Boxes
<1>k. \A c \in Browsers : Kept(c) /\ (c \notin misled => ~(page[c].stop /\ page[c].casting))
  BY DEF CastInv, Kept, KnowsCast
<1>1. CASE UNCHANGED castVars
  BY <1>1, <1>k, Untouched DEF castVars, serverVars
<1>2. ASSUME NEW b \in Browsers, castMediaToTv(b) PROVE \A c \in Browsers : Kept(c)'
  <2>1. /\ ~page[b].casting
        /\ UNCHANGED <<playing, starting, ending, greeting, inbox, outbox, online, misled>>
    BY <1>2 DEF castMediaToTv, serverVars
  <2>2. /\ page'[b].stop = FALSE /\ page'[b].casting = page[b].casting
        /\ \A c \in Browsers \ {b} : page'[c] = page[c]
    <3>1. PICK r : r = [page[b] EXCEPT !.stop = FALSE, !.media = casts',
                                       !.preparing = page[b].preparing \cup {casts'}]
      OBVIOUS
    <3>2. page' = [page EXCEPT ![b] = r]
      BY <1>2, <3>1 DEF castMediaToTv, Turn
    <3>3. r.stop = FALSE /\ r.casting = page[b].casting
      BY <1>t, <3>1 DEF Pages
    <3> QED
      BY <1>t, <3>2, <3>3
  <2>3. Kept(b)'
    <3>1. StopIsUnderWay(b)'
      BY <2>2 DEF StopIsUnderWay
    <3>2. Agrees(page[b], playing.media) => Agrees(page'[b], playing.media)
      BY <2>1, <2>2 DEF Agrees
    <3>3. KnowsCast(b) => KnowsCast(b)'
      BY <2>1, <2>2, <3>2 DEF KnowsCast, Settled, Listens
    <3> QED
      BY <1>k, <2>1, <3>1, <3>3 DEF Kept
  <2>4. ASSUME NEW c \in Browsers \ {b} PROVE Kept(c)'
    BY <1>k, <2>1, <2>2, Untouched
  <2> QED
    BY <2>3, <2>4
<1>c. ASSUME NEW b \in Browsers, NEW kind, NEW media, [kind |-> kind, media |-> media] \in Commands,
             Emit(b, kind, media)
      PROVE  /\ \A c \in Browsers \ {b} : outbox'[c] = outbox[c]
             /\ \A K : Sends(outbox'[b], K) <=> Sends(outbox[b], K) \/ kind \in K
  <2>1. /\ outbox'[b] = Append(outbox[b], [kind |-> kind, media |-> media])
        /\ \A c \in Browsers \ {b} : outbox'[c] = outbox[c]
    BY <1>c, <1>t, EmitIsTyped
  <2> QED
    BY <1>c, <1>t, <2>1, CommandSent
<1>3. ASSUME NEW b \in Browsers, NEW media \in page[b].preparing, SendCast(b, media)
      PROVE  \A c \in Browsers : Kept(c)'
  <2>1. /\ Emit(b, "cast", media)
        /\ misled' = IF page[b].stop THEN misled \cup {b} ELSE misled
        /\ UNCHANGED <<playing, starting, ending, greeting, inbox, online>>
    BY <1>3 DEF SendCast, serverVars
  <2>2. [kind |-> "cast", media |-> media] \in Commands
    BY <1>t DEF Pages, Commands
  <2>3. /\ \A c \in Browsers \ {b} : outbox'[c] = outbox[c]
        /\ Sends(outbox'[b], {"cast", "stop"}) /\ (Sends(outbox[b], {"stop"}) => Sends(outbox'[b], {"stop"}))
    BY <1>c, <2>1, <2>2
  <2>4. page'[b].stop = page[b].stop /\ \A c \in Browsers \ {b} : page'[c] = page[c]
    <3>1. PICK r : r = [page[b] EXCEPT !.casting = TRUE, !.modal = TRUE, !.saved = page[b].media,
                                       !.preparing = page[b].preparing \ {media}]
      OBVIOUS
    <3>2. page' = [page EXCEPT ![b] = r]
      BY <1>3, <3>1 DEF SendCast, Turn
    <3>3. r.stop = page[b].stop
      BY <1>t, <3>1 DEF Pages
    <3> QED
      BY <1>t, <3>2, <3>3
  <2>5. Kept(b)'
    <3>1. StopIsUnderWay(b)'
      BY <1>k, <2>1, <2>3, <2>4 DEF Kept, StopIsUnderWay, Listens
    <3>2. b \notin misled' => KnowsCast(b)'
      BY <2>1, <2>3, <2>4 DEF KnowsCast, Settled
    <3> QED
      BY <3>1, <3>2 DEF Kept
  <2>6. ASSUME NEW c \in Browsers \ {b} PROVE Kept(c)'
    BY <1>k, <2>1, <2>3, <2>4, Untouched
  <2> QED
    BY <2>5, <2>6
<1>4. ASSUME NEW b \in Browsers, stopCasting(b) PROVE \A c \in Browsers : Kept(c)'
  <2>1. /\ Emit(b, "stop", NoMedia) /\ UNCHANGED <<playing, starting, ending, greeting, inbox, online, misled>>
    BY <1>4 DEF stopCasting, Command, serverVars
  <2>2. [kind |-> "stop", media |-> NoMedia] \in Commands
    BY DEF Commands
  <2>3. /\ \A c \in Browsers \ {b} : outbox'[c] = outbox[c]
        /\ Sends(outbox'[b], {"cast", "stop"}) /\ Sends(outbox'[b], {"stop"})
    BY <1>c, <2>1, <2>2
  <2>4. ~page'[b].casting /\ \A c \in Browsers \ {b} : page'[c] = page[c]
    <3>1. PICK r : r = [page[b] EXCEPT !.stop = TRUE]
      OBVIOUS
    <3>2. r \in Pages
      BY <1>t, <3>1 DEF Pages
    <3> QED
      <4>1. Turn(b, Reset(r, TRUE)) /\ Reset(r, TRUE) \in Pages /\ ~Reset(r, TRUE).casting
        BY <1>4, <3>1, <3>2, ResetIsTyped DEF stopCasting
      <4> QED
        BY <1>t, <4>1, PageTurns
  <2>5. Kept(b)'
    BY <2>3, <2>4 DEF Kept, StopIsUnderWay, KnowsCast, Settled
  <2>6. ASSUME NEW c \in Browsers \ {b} PROVE Kept(c)'
    BY <1>k, <2>1, <2>3, <2>4, Untouched
  <2> QED
    BY <2>5, <2>6
<1>5. ASSUME NEW b \in Browsers, UseModal(b) \/ requestTvStatus(b) PROVE \A c \in Browsers : Kept(c)'
  <2>1. UNCHANGED <<playing, starting, ending, greeting, inbox, online, misled, page>>
    BY <1>5 DEF UseModal, requestTvStatus, Command, serverVars
  <2>2. PICK k \in {"stop", "control", "request"} : Emit(b, k, NoMedia)
    BY <1>5 DEF UseModal, requestTvStatus
  <2>3. [kind |-> k, media |-> NoMedia] \in Commands
    BY DEF Commands
  <2>4. /\ \A c \in Browsers \ {b} : outbox'[c] = outbox[c]
        /\ \A K : Sends(outbox[b], K) => Sends(outbox'[b], K)
    BY <1>c, <2>2, <2>3
  <2>5. Kept(b)'
    BY <1>k, <2>1, <2>4 DEF Kept, StopIsUnderWay, KnowsCast, Settled, Listens
  <2>6. ASSUME NEW c \in Browsers \ {b} PROVE Kept(c)'
    BY <1>k, <2>1, <2>4, Untouched
  <2> QED
    BY <2>5, <2>6
<1>6. ASSUME NEW b \in Browsers, Hear(b) PROVE \A c \in Browsers : Kept(c)'
  <2>1. PICK k : Heard(b, k)
    <3>1. \/ Heard(b, "status") \/ Heard(b, "cast_success") \/ Heard(b, "kiosk_boot_complete")
          \/ Heard(b, "kiosk_boot_timeout") \/ Heard(b, "tv_error")
      BY <1>6 DEF Hear, handleTvStatusUpdate, handleCastSuccess, handleKioskBootComplete,
                  handleKioskBootTimeout, handleTvError
    <3> QED
      BY <3>1
  <2>2. /\ \A c \in Browsers \ {b} : inbox'[c] = inbox[c]
        /\ UNCHANGED <<playing, starting, ending, greeting, online, misled>>
    BY <2>1, <1>t DEF Heard, serverVars, Boxes
  <2>3. PICK r : Turn(b, r) /\ (Silent \/ Emit(b, "stop", NoMedia))
    BY <1>6 DEF Hear, handleTvStatusUpdate, handleCastSuccess, handleKioskBootComplete,
                handleKioskBootTimeout, handleTvError, StatusWhileStopping, StopAgain
  <2>4. \A c \in Browsers \ {b} : page'[c] = page[c] /\ outbox'[c] = outbox[c]
    BY <1>t, <2>3 DEF Turn, Silent, Emit, Told
  <2>5. ASSUME NEW c \in Browsers \ {b} PROVE Kept(c)'
    BY <1>k, <2>2, <2>4, Untouched
  <2> QED
    BY <1>6, <2>5, HearingKeeps
<1>7. ASSUME NEW b \in Browsers, handleTvPlaybackState(b) \/ RestoreModal(b)
      PROVE  \A c \in Browsers : Kept(c)'
  <2>1. UNCHANGED <<playing, starting, ending, greeting, inbox, outbox, online, misled>>
    BY <1>7 DEF handleTvPlaybackState, RestoreModal, serverVars
  <2>2. /\ \A c \in Browsers \ {b} : page'[c] = page[c]
        /\ page'[b].stop = page[b].stop /\ page'[b].casting = page[b].casting
        /\ page'[b].media = page[b].media
        /\ page[b].modal \/ page[b].restoring => page'[b].modal \/ page'[b].restoring
    <3>1. PICK p : p = [page[b] EXCEPT !.saved = page[b].media]
      OBVIOUS
    <3>2. PICK r : r = [page[b] EXCEPT !.modal = TRUE, !.restoring = FALSE]
      OBVIOUS
    <3>3. page' = [page EXCEPT ![b] = p] \/ page' = [page EXCEPT ![b] = r]
      BY <1>7, <3>1, <3>2 DEF handleTvPlaybackState, RestoreModal, Turn
    <3>4. /\ p.stop = page[b].stop /\ p.casting = page[b].casting /\ p.media = page[b].media
          /\ p.modal = page[b].modal /\ p.restoring = page[b].restoring
      BY <1>t, <3>1 DEF Pages
    <3>5. /\ r.stop = page[b].stop /\ r.casting = page[b].casting /\ r.media = page[b].media
          /\ r.modal = TRUE
      BY <1>t, <3>2 DEF Pages
    <3> QED
      BY <1>t, <3>3, <3>4, <3>5
  <2>3. Kept(b)'
    <3>1. Agrees(page[b], playing.media) => Agrees(page'[b], playing.media)
      BY <2>2 DEF Agrees
    <3> QED
      BY <1>k, <2>1, <2>2, <3>1 DEF Kept, StopIsUnderWay, KnowsCast, Settled, Listens
  <2>4. ASSUME NEW c \in Browsers \ {b} PROVE Kept(c)'
    BY <1>k, <2>1, <2>2, Untouched
  <2> QED
    BY <2>3, <2>4
<1>8. ASSUME NEW b \in Browsers, LoseSocket(b) \/ ReloadPage(b) PROVE \A c \in Browsers : Kept(c)'
  <2>1. /\ online' = online \ {b}
        /\ greeting' = [greeting EXCEPT ![b] = NoGreeting] /\ inbox' = [inbox EXCEPT ![b] = <<>>]
        /\ starting' = {[s EXCEPT !.by = IF s.by = b THEN "gone" ELSE s.by] : s \in starting}
        /\ UNCHANGED <<playing, ending, misled>>
    BY <1>8 DEF LoseSocket, ReloadPage, Forget
  <2>2. \A c \in Browsers \ {b} : page'[c] = page[c] /\ outbox'[c] = outbox[c]
    BY <1>8, <1>t DEF LoseSocket, ReloadPage, Turn
  <2>3. \A c \in Browsers \ {b} : inbox'[c] = inbox[c] /\ greeting'[c] = greeting[c]
    BY <2>1, <1>t DEF ControllersTypeOK
  <2>4. Kept(b)'
    <3>1. page'[b] = page[b] \/ page'[b].stop = FALSE
      <4>1. FreshPage(page[b].saved).stop = FALSE
        BY DEF FreshPage
      <4> QED
        BY <1>8, <1>t, <4>1 DEF LoseSocket, ReloadPage, Turn
    <3>2. ~Listens(b)'
      BY <2>1 DEF Listens
    <3> QED
      BY <1>k, <2>1, <3>1, <3>2, IsAway
  <2>5. starting' = {} => starting = {}
    BY <2>1
  <2>6. ASSUME NEW c \in Browsers \ {b} PROVE Kept(c)'
    BY <1>k, <2>1, <2>2, <2>3, <2>5, Untouched
  <2> QED
    BY <2>4, <2>6
<1>9. ASSUME NEW b \in Browsers, Connect(b) PROVE \A c \in Browsers : Kept(c)'
  <2>1. /\ online' = online \cup {b} /\ greeting' = [greeting EXCEPT ![b] = Truth]
        /\ UNCHANGED <<playing, starting, ending, inbox, outbox, page, misled>>
    BY <1>9 DEF Connect, serverVars
  <2>2. ~Listens(b)'
    <3>1. greeting'[b] = Truth
      BY <1>t, <2>1 DEF ControllersTypeOK
    <3>2. Truth # NoGreeting
      BY DEF Truth, Status, NoGreeting, Note
    <3> QED
      BY <3>1, <3>2 DEF Listens
  <2>3. \A c \in Browsers \ {b} : greeting'[c] = greeting[c]
    BY <1>t, <2>1 DEF ControllersTypeOK
  <2>4. Kept(b)'
    BY <1>k, <2>1, <2>2, IsAway
  <2>5. ASSUME NEW c \in Browsers \ {b} PROVE Kept(c)'
    BY <1>k, <2>1, <2>3, Untouched
  <2> QED
    BY <2>4, <2>5
<1>10. ASSUME NEW b \in Browsers, Greet(b) PROVE \A c \in Browsers : Kept(c)'
  <2>1. /\ greeting[b] # NoGreeting /\ inbox' = Told(inbox, b, greeting[b])
        /\ misled' = IF greeting[b] = Truth THEN misled \ ({b} \ Deaf) ELSE misled \cup {b}
        /\ greeting' = [greeting EXCEPT ![b] = NoGreeting]
        /\ UNCHANGED <<playing, starting, ending, outbox, online, page>>
    BY <1>10 DEF Greet, serverVars
  <2>2. greeting[b] \in Statuses /\ greeting[b] # Status(TRUE, NoMedia)
    BY <1>t, <2>1 DEF ControllersTypeOK
  <2>3. Verdict(greeting[b])
    <3>1. CASE greeting[b] = NotCasting
      BY <3>1, Verdicts
    <3>2. CASE greeting[b] \in [kind: {"status"}, casting: {TRUE}, media: 0..MaxCasts]
      <4>1. greeting[b] = Status(TRUE, greeting[b].media)
        BY <3>2 DEF Status
      <4> QED
        BY <2>2, <4>1, Verdicts
    <3> QED
      BY <2>2, <3>1, <3>2 DEF Statuses
  <2>4. /\ inbox'[b] = Append(inbox[b], greeting[b])
        /\ \A c \in Browsers \ {b} : inbox'[c] = inbox[c] /\ greeting'[c] = greeting[c]
    BY <1>t, <2>1, <2>2, TellingIsTyped DEF ControllersTypeOK
  <2>5. ~Undecided(inbox'[b]) /\ TellsTruth(inbox'[b], greeting[b].media)
    BY <1>t, <2>2, <2>3, <2>4, VerdictTold DEF Boxes
  <2>6. Kept(b)'
    <3>1. b \notin misled' => /\ ~(page[b].stop /\ page[b].casting)
                              /\ TellsTruth(inbox'[b], playing'.media)
      <4>1. Truth.media = playing.media
        BY <1>t, MessagesAreTyped
      <4> QED
        BY <1>k, <2>1, <2>5, <4>1 DEF Deaf
    <3> QED
      BY <2>1, <2>5, <3>1, HearsTruth
  <2>7. ASSUME NEW c \in Browsers \ {b} PROVE Kept(c)'
    BY <1>k, <2>1, <2>4, Untouched
  <2> QED
    BY <2>6, <2>7
<1>a. ASSUME NEW b \in Browsers, NEW k, Arrives(b, k)
      PROVE  /\ \A c \in Browsers \ {b} : outbox'[c] = outbox[c]
             /\ \A K : Sends(outbox[b], K) <=> Sends(outbox'[b], K) \/ k \in K
             /\ b \in online /\ UNCHANGED <<greeting, online, page>>
  <2>1. /\ outbox[b] # <<>> /\ outbox[b] \in Seq(Commands) /\ Head(outbox[b]).kind = k
        /\ outbox'[b] = Tail(outbox[b]) /\ b \in online
        /\ \A c \in Browsers \ {b} : outbox'[c] = outbox[c]
        /\ UNCHANGED <<greeting, online, page>>
    BY <1>a, <1>t DEF Arrives
  <2> QED
    BY <2>1, CommandTaken
<1>11. ASSUME NEW b \in Browsers, StartCast(b) PROVE \A c \in Browsers : Kept(c)'
  <2>1. /\ \A c \in Browsers \ {b} : outbox'[c] = outbox[c]
        /\ Sends(outbox[b], {"stop"}) => Sends(outbox'[b], {"stop"})
        /\ UNCHANGED <<greeting, online, page>>
    BY <1>11, <1>a DEF StartCast
  <2>2. starting' # {} /\ UNCHANGED <<playing, ending, inbox, misled>>
    BY <1>11 DEF StartCast
  <2>3. Kept(b)'
    <3>1. StopIsUnderWay(b)'
      BY <1>k, <2>1, <2>2 DEF Kept, StopIsUnderWay, Listens
    <3> QED
      BY <1>k, <2>1, <2>2, <3>1 DEF Kept, KnowsCast, Settled
  <2>4. ASSUME NEW c \in Browsers \ {b} PROVE Kept(c)'
    BY <1>k, <2>1, <2>2, Untouched
  <2> QED
    BY <2>3, <2>4
<1>12. ASSUME NEW b \in Browsers, StopCasting(b) PROVE \A c \in Browsers : Kept(c)'
  <2>1. /\ \A c \in Browsers \ {b} : outbox'[c] = outbox[c]
        /\ UNCHANGED <<greeting, online, page>>
    BY <1>12, <1>a DEF StopCasting
  <2>2. CASE Refused(b)
    BY <2>1, <2>2, RefusalKeeps
  <2>3. CASE playing' = NoCast /\ inbox' = ToldAll(NotCasting) /\ misled' = misled \cap Deaf
    <3>1. NotCasting \in Statuses /\ Verdict(NotCasting) /\ NotCasting.media = playing'.media
      BY <1>t, <2>3, MessagesAreTyped, Verdicts DEF NoCast
    <3>2. \A c \in online : ~Undecided(inbox'[c]) /\ TellsTruth(inbox'[c], playing'.media)
      BY <1>t, <2>3, <3>1, AllToldVerdict
    <3> QED
      BY <2>1, <2>3, <3>2, AllHear
  <2>4. CASE ending' = ending + 1 /\ UNCHANGED <<inbox, misled>>
    <3>1. ending' > 0 /\ ending' # 0
      BY <1>t, <2>4 DEF ControllersTypeOK
    <3>2. ASSUME NEW c \in Browsers PROVE Kept(c)'
      BY <1>k, <2>1, <2>4, <3>1 DEF Kept, StopIsUnderWay, KnowsCast, Settled
    <3> QED
      BY <3>2
  <2> QED
    BY <1>12, <2>2, <2>3, <2>4 DEF StopCasting
<1>13. ASSUME NEW b \in Browsers, RelayControl(b) PROVE \A c \in Browsers : Kept(c)'
  <2>1. /\ \A c \in Browsers \ {b} : outbox'[c] = outbox[c]
        /\ Sends(outbox[b], {"stop"}) <=> Sends(outbox'[b], {"stop"})
        /\ Sends(outbox[b], {"cast", "stop"}) <=> Sends(outbox'[b], {"cast", "stop"})
        /\ UNCHANGED <<greeting, online, page>>
    BY <1>13, <1>a DEF RelayControl
  <2>2. CASE Refused(b)
    BY <2>1, <2>2, RefusalKeeps
  <2>3. CASE UNCHANGED <<serverVars, inbox, misled>>
    <3>1. UNCHANGED <<playing, starting, ending, inbox, misled>>
      BY <2>3 DEF serverVars
    <3>2. Kept(b)'
      BY <1>k, <2>1, <3>1 DEF Kept, StopIsUnderWay, KnowsCast, Settled, Listens
    <3>3. ASSUME NEW c \in Browsers \ {b} PROVE Kept(c)'
      BY <1>k, <2>1, <3>1, Untouched
    <3> QED
      BY <3>2, <3>3
  <2> QED
    BY <1>13, <2>2, <2>3 DEF RelayControl
<1>14. ASSUME NEW b \in Browsers, RequestStatus(b) PROVE \A c \in Browsers : Kept(c)'
  <2>1. /\ \A c \in Browsers \ {b} : outbox'[c] = outbox[c]
        /\ UNCHANGED <<greeting, online, page>>
    BY <1>14, <1>a DEF RequestStatus
  <2>2. /\ UNCHANGED <<playing, starting, ending>>
        /\ misled' = IF tv \/ playing = NoCast THEN misled \ ({b} \ Deaf) ELSE misled \cup {b}
    BY <1>14 DEF RequestStatus, serverVars
  <2>3. PICK m : m = IF tv THEN Truth ELSE NotCasting
    OBVIOUS
  <2>4. m \in Statuses /\ Verdict(m) /\ (tv \/ playing = NoCast => m.media = playing.media)
    <3>1. CASE tv
      <4>1. Truth \in Statuses /\ Truth.media = playing.media
        BY <1>t, MessagesAreTyped
      <4>2. Verdict(Truth)
        <5>1. CASE playing.media = NoMedia
          BY <5>1 DEF Truth, Status, Verdict
        <5>2. CASE playing.media # NoMedia
          BY <5>2 DEF Truth, Status, Verdict
        <5> QED
          BY <5>1, <5>2
      <4> QED
        BY <2>3, <3>1, <4>1, <4>2
    <3>2. CASE ~tv
      BY <1>t, <2>3, <3>2, MessagesAreTyped, Verdicts
    <3> QED
      BY <3>1, <3>2
  <2>5. inbox'[b] = Append(inbox[b], m) /\ \A c \in Browsers \ {b} : inbox'[c] = inbox[c]
    <3>1. inbox' = Told(inbox, b, m)
      BY <1>14, <2>3 DEF RequestStatus
    <3> QED
      BY <1>t, <2>4, <3>1, TellingIsTyped
  <2>6. ~Undecided(inbox'[b]) /\ TellsTruth(inbox'[b], m.media)
    BY <1>t, <2>4, <2>5, VerdictTold DEF Boxes
  <2>7. Kept(b)'
    <3>1. b \notin misled' => /\ ~(page[b].stop /\ page[b].casting)
                              /\ TellsTruth(inbox'[b], playing'.media)
      BY <1>k, <2>2, <2>4, <2>6 DEF Deaf
    <3> QED
      BY <2>1, <2>6, <3>1, HearsTruth
  <2>8. ASSUME NEW c \in Browsers \ {b} PROVE Kept(c)'
    BY <1>k, <2>1, <2>2, <2>5, Untouched
  <2> QED
    BY <2>7, <2>8
<1>15. ASSUME NEW s \in starting, FinishStart(s) PROVE \A c \in Browsers : Kept(c)'
  <2>1. PICK v : v = Status(TRUE, s.cast.media)
    OBVIOUS
  <2>2. s.cast.media \in 1..MaxCasts
    BY <1>t DEF ControllersTypeOK, RealCasts
  <2>3. v \in Statuses /\ Verdict(v) /\ v.media = s.cast.media /\ s.cast.media # NoMedia
    <3>1. s.cast.media \in 0..MaxCasts /\ s.cast.media # NoMedia
      BY <2>2, CastBounds DEF NoMedia
    <3> QED
      BY <1>t, <2>1, <3>1, MessagesAreTyped, Verdicts
  <2>4. PICK told : told = ToldAll(v)
    OBVIOUS
  <2>5. told \in Boxes /\ \A c \in online : ~Undecided(told[c]) /\ TellsTruth(told[c], s.cast.media)
    BY <1>t, <2>3, <2>4, AllToldIsTyped, AllToldVerdict
  <2>6. PICK n : n = Note("cast_success")
    OBVIOUS
  <2>7. n \in Notices /\ ~Verdict(n)
    BY <1>t, <2>6, MessagesAreTyped, Verdicts
  <2>8. /\ playing' = s.cast /\ misled' = misled \cap Deaf
        /\ inbox' = told \/ inbox' = ToldOne(told, s.by, n)
        /\ UNCHANGED <<greeting, online, page>>
    BY <1>15, <2>1, <2>4, <2>6 DEF FinishStart
  <2>9. ASSUME NEW c \in online PROVE ~Undecided(inbox'[c]) /\ TellsTruth(inbox'[c], playing'.media)
    <3>1. CASE inbox'[c] = told[c]
      BY <2>5, <2>8, <3>1
    <3>2. CASE inbox'[c] = Append(told[c], n)
      <4>1. told[c] \in Seq(Notices \cup Statuses) /\ n \in Notices \cup Statuses
        BY <1>t, <2>5, <2>7 DEF Boxes
      <4>2. /\ Undecided(Append(told[c], n)) <=> Undecided(told[c])
            /\ TellsTruth(told[c], s.cast.media) => TellsTruth(Append(told[c], n), s.cast.media)
        BY <2>3, <2>7, <4>1, NoteTold
      <4> QED
        BY <2>5, <2>8, <3>2, <4>2
    <3>3. inbox'[c] = told[c] \/ inbox'[c] = Append(told[c], n)
      BY <1>t, <2>5, <2>8 DEF ToldOne, Told, Boxes
    <3> QED
      BY <3>1, <3>2, <3>3
  <2> QED
    BY <2>8, <2>9, AllHear
<1>16. CASE CheckBoot
  <2>1. /\ misled' = IF playing = NoCast THEN misled ELSE misled \cup ({boot} \cap Browsers)
        /\ UNCHANGED <<playing, starting, ending, greeting, outbox, online, page>>
    BY <1>16 DEF CheckBoot
  <2>2. CASE boot = "gone"
    <3>1. UNCHANGED inbox
      BY <1>16, <2>2 DEF CheckBoot
    <3> QED
      BY <1>k, <2>1, <3>1, Untouched
  <2>3. CASE boot # "gone"
    <3>1. boot \in Browsers
      BY <1>16, <1>t, <2>3 DEF CheckBoot, ControllersTypeOK
    <3>2. PICK b \in Browsers : b = boot
      BY <3>1
    <3>3. PICK n : n = Note("kiosk_boot_timeout")
      OBVIOUS
    <3>4. n \in Notices /\ Verdict(n) /\ n.media = NoMedia
      BY <1>t, <3>3, MessagesAreTyped, Verdicts
    <3>5. inbox'[b] = Append(inbox[b], n) /\ \A c \in Browsers \ {b} : inbox'[c] = inbox[c]
      <4>1. inbox' = Told(inbox, b, n)
        BY <1>16, <2>3, <3>2, <3>3 DEF CheckBoot
      <4> QED
        BY <1>t, <3>4, <4>1, TellingIsTyped
    <3>6. ~Undecided(inbox'[b]) /\ TellsTruth(inbox'[b], NoMedia)
      <4>1. inbox[b] \in Seq(Notices \cup Statuses) /\ n \in Notices \cup Statuses
        BY <1>t, <3>4 DEF Boxes
      <4>2. TellsTruth(Append(inbox[b], n), n.media) /\ ~Undecided(Append(inbox[b], n))
        BY <3>4, <4>1, VerdictTold
      <4> QED
        BY <3>4, <3>5, <4>2
    <3>7. Kept(b)'
      <4>1. b \notin misled' => /\ ~(page[b].stop /\ page[b].casting)
                                /\ TellsTruth(inbox'[b], playing'.media)
        BY <1>k, <1>t, <2>1, <3>2, <3>6
      <4> QED
        BY <2>1, <3>6, <4>1, HearsTruth
    <3>8. ASSUME NEW c \in Browsers \ {b} PROVE Kept(c)'
      BY <1>k, <2>1, <3>5, Untouched
    <3> QED
      BY <3>7, <3>8
  <2> QED
    BY <2>2, <2>3
<1>17. CASE TvArrives
  <2>1. /\ misled' = misled \cap Deaf /\ UNCHANGED <<playing, greeting, online, page>>
    BY <1>17 DEF TvArrives, TvChanges
  <2>2. PICK told : told = IF boot \in Browsers THEN Told(inbox, boot, Note("kiosk_boot_complete")) ELSE inbox
    OBVIOUS
  <2>3. told \in Boxes
    BY <1>t, <2>2, MessagesAreTyped, TellingIsTyped
  <2>4. inbox' = [b \in Browsers |-> IF b \in online THEN Append(told[b], Truth) ELSE told[b]]
    BY <1>17, <2>2 DEF TvArrives
  <2>5. Truth \in Statuses /\ Truth.media = playing.media
    BY <1>t, MessagesAreTyped
  <2>6. Verdict(Truth)
    <3>1. CASE playing.media = NoMedia
      BY <3>1 DEF Truth, Status, Verdict
    <3>2. CASE playing.media # NoMedia
      BY <3>2 DEF Truth, Status, Verdict
    <3> QED
      BY <3>1, <3>2
  <2>7. ASSUME NEW c \in online PROVE ~Undecided(inbox'[c]) /\ TellsTruth(inbox'[c], playing'.media)
    <3>1. inbox'[c] = Append(told[c], Truth) /\ told[c] \in Seq(Notices \cup Statuses)
      BY <1>t, <2>3, <2>4 DEF Boxes
    <3> QED
      BY <2>1, <2>5, <2>6, <3>1, VerdictTold
  <2> QED
    BY <2>1, <2>7, AllHear
<1>18. CASE TvLeaves
  <2>1. UNCHANGED <<starting, ending, greeting, outbox, online, page>>
    BY <1>18 DEF TvLeaves, TvChanges
  <2>2. CASE active
    <3>1. inbox' = ToldAll(Status(TRUE, NoMedia)) /\ UNCHANGED <<playing, misled>>
      BY <1>18, <2>2 DEF TvLeaves
    <3>2. PICK m : m = Status(TRUE, NoMedia)
      OBVIOUS
    <3>3. m \in Statuses /\ ~Verdict(m) /\ m.kind # "cast_success"
      BY <1>t, <3>2, CastBounds, MessagesAreTyped, MessageKinds, Verdicts
    <3>4. ASSUME NEW c \in Browsers PROVE Kept(c)'
      <4>1. inbox'[c] = inbox[c] \/ inbox'[c] = Append(inbox[c], m)
        BY <3>1, <3>2 DEF ToldAll
      <4>2. /\ Undecided(inbox'[c]) <=> Undecided(inbox[c])
            /\ TellsTruth(inbox[c], playing.media) => TellsTruth(inbox'[c], playing.media)
        <5>1. inbox[c] \in Seq(Notices \cup Statuses) /\ m \in Notices \cup Statuses
          BY <1>t, <3>3 DEF Boxes
        <5>2. CASE inbox'[c] = inbox[c]
          BY <5>2
        <5>3. CASE inbox'[c] = Append(inbox[c], m)
          BY <3>3, <5>1, <5>3, NoteTold
        <5> QED
          BY <4>1, <5>2, <5>3
      <4> QED
        BY <1>k, <2>1, <3>1, <4>2 DEF Kept, StopIsUnderWay, KnowsCast, Settled, Listens
    <3> QED
      BY <3>4
  <2>3. CASE ~active
    <3>1. playing' = NoCast /\ inbox' = ToldAll(NotCasting) /\ misled' = misled \cap Deaf
      BY <1>18, <2>3 DEF TvLeaves
    <3>2. NotCasting \in Statuses /\ Verdict(NotCasting) /\ NotCasting.media = playing'.media
      BY <1>t, <3>1, MessagesAreTyped, Verdicts DEF NoCast
    <3>3. \A c \in online : ~Undecided(inbox'[c]) /\ TellsTruth(inbox'[c], playing'.media)
      BY <1>t, <3>1, <3>2, AllToldVerdict
    <3> QED
      BY <2>1, <3>1, <3>3, AllHear
  <2> QED
    BY <2>2, <2>3
<1>19. CASE HdmiUnplugged
  BY <1>19, <1>k, Untouched DEF HdmiUnplugged, TvChanges
<1>20. CASE AnnounceStop
  <2>1. /\ inbox' = ToldAll(NotCasting) /\ UNCHANGED <<playing, greeting, online, page>>
        /\ misled' = IF playing = NoCast THEN misled \cap Deaf ELSE misled \cup online
    BY <1>20 DEF AnnounceStop
  <2>2. NotCasting \in Statuses /\ Verdict(NotCasting) /\ NotCasting.media = NoMedia
    BY <1>t, MessagesAreTyped, Verdicts
  <2>3. \A c \in online : ~Undecided(inbox'[c]) /\ TellsTruth(inbox'[c], NoMedia)
    BY <1>t, <2>1, <2>2, AllToldVerdict
  <2>4. \A c \in online : c \notin misled' => playing' = NoCast
    BY <2>1
  <2>5. \A c \in online : c \notin misled' => TellsTruth(inbox'[c], playing'.media)
    BY <2>1, <2>3, <2>4 DEF NoCast
  <2>6. misled \cap Deaf \subseteq misled'
    BY <2>1
  <2> QED
    BY <2>1, <2>3, <2>5, <2>6, AllHear
<1> QED
  BY <1>1, <1>2, <1>3, <1>4, <1>5, <1>6, <1>7, <1>8, <1>9, <1>10, <1>11, <1>12, <1>13, <1>14,
     <1>15, <1>16, <1>17, <1>18, <1>19, <1>20 DEF ControllersNext, Server

\* What the server records, all messages on their way and the pages stay well typed.
THEOREM ControllersTyping == ControllersSpec => []ControllersTypeOK
<1>1. ControllersTypeOK /\ [ControllersNext]_castVars => ControllersTypeOK'
  BY CastTypeNext
<1> QED
  BY <1>1, CastTypeInit, PTL DEF ControllersSpec

\* The invariant holds of every behaviour.
THEOREM ControllersKeep == ControllersSpec => []CastInv
BY CastInit, CastNext, PTL DEF ControllersSpec

\* However casts, stops, reconnects and the TV's comings and goings overtake each other,
\* once all messages have been handled no browser wants a stop any more, and every one
\* that was told the truth shows the server's cast (tvCast.js, tv_cast_service.py).
THEOREM Agreement == ControllersSpec => []ControllersAgree
<1>1. CastInv => ControllersAgree
  <2> SUFFICES ASSUME CastInv, Quiet, NEW b \in Browsers
               PROVE  /\ ~page[b].stop
                      /\ b \notin misled =>
                           /\ page[b].casting <=> playing # NoCast
                           /\ page[b].casting => /\ page[b].media = playing.media
                                                 /\ page[b].modal \/ page[b].restoring
    BY DEF ControllersAgree
  <2>1. /\ inbox[b] = <<>> /\ outbox[b] = <<>> /\ Listens(b) /\ Kept(b)
        /\ starting = {} /\ ending = 0 /\ ~(ending > 0)
    BY DEF Quiet, Listens, CastInv
  <2>2. Len(inbox[b]) = 0 /\ Len(outbox[b]) = 0
    BY <2>1
  <2>3. Undecided(inbox[b]) /\ \A K : ~Sends(outbox[b], K)
    BY <2>2 DEF Undecided, Sends
  <2>4. playing.media # NoMedia <=> playing # NoCast
    BY MessagesAreTyped DEF CastInv
  <2> QED
    BY <2>1, <2>3, <2>4 DEF Kept, StopIsUnderWay, KnowsCast, Settled, Agrees
<1> QED
  BY <1>1, ControllersKeep, PTL

-----------------------------------------------------------------------------
(* The server of CastControllers is used as CastService says.  All that needs *)
(* an argument is that each cast the users ask for is one request: it waits in *)
(* one page, or once on its way to the server, or there, and nowhere else.     *)

IsCast(c, m) == c.kind = "cast" /\ c.media = m
Asked(q, m) == \E i \in 1..Len(q) : IsCast(q[i], m)
Distinct(q) == \A m : \A i, j \in 1..Len(q) : IsCast(q[i], m) /\ IsCast(q[j], m) => i = j

\* The casts in the hands of browser b, and those the server starts.
HasCast(b, m) == m \in page[b].preparing \/ Asked(outbox[b], m)
Starts(m) == \E s \in starting : s.cast.media = m

InOnePlace(b) ==
    /\ Distinct(outbox[b])
    /\ \A m : HasCast(b, m) =>
         /\ m \in 1..casts /\ ~Starts(m)
         /\ ~(m \in page[b].preparing /\ Asked(outbox[b], m))
         /\ \A c \in Browsers : HasCast(c, m) => c = b
StartedOnce ==
    \A s, t \in starting :
        s.cast.media \in 1..casts /\ (s.cast.media = t.cast.media => s = t)
AskedOnce == StartedOnce /\ \A b \in Browsers : InOnePlace(b)

\* What a page hears does not change what it prepares.
LEMMA ResetPrepares ==
  ASSUME NEW p \in Pages, NEW keep \in BOOLEAN
  PROVE  Reset(p, keep).preparing = p.preparing
<1>1. PICK s : s = (keep /\ p.stop)
  OBVIOUS
<1>2. Reset(p, keep) = [p EXCEPT !.casting = FALSE, !.media = NoMedia, !.saved = NoMedia,
                                 !.modal = FALSE, !.stop = s]
  BY <1>1, Zenon DEF Reset
<1> QED
  BY <1>2 DEF Pages

LEMMA ShowingPrepares ==
  ASSUME NEW p \in Pages, NEW media \in 0..MaxCasts
  PROVE  Showing(p, media).preparing = p.preparing
<1>1. PICK saved : saved = IF p.modal THEN p.saved ELSE media
  OBVIOUS
<1>2. Showing(p, media) = [p EXCEPT !.casting = TRUE, !.media = media, !.modal = TRUE, !.saved = saved]
  BY <1>1 DEF Showing
<1> QED
  BY <1>2 DEF Pages

LEMMA HearingPrepares ==
  ASSUME ControllersTypeOK, NEW b \in Browsers, Hear(b)
  PROVE  \E p \in Pages : /\ Turn(b, p) /\ p.preparing = page[b].preparing
                          /\ Silent \/ Emit(b, "stop", NoMedia)
<1>0. page[b] \in Pages
  BY DEF ControllersTypeOK
<1>1. CASE handleTvStatusUpdate(b)
  <2>1. Head(inbox[b]).media \in 0..MaxCasts /\ Head(inbox[b]).casting \in BOOLEAN
    <3>1. Head(inbox[b]) \in Notices \cup Statuses
      BY <1>1, TakingIsTyped DEF handleTvStatusUpdate, Heard, ControllersTypeOK
    <3>2. NotCasting.media \in 0..MaxCasts /\ NotCasting.casting \in BOOLEAN
      BY CastBounds DEF NotCasting, Status
    <3> QED
      BY <3>1, <3>2, CastBounds DEF Notices, Statuses
  <2>2. PICK p : p = [page[b] EXCEPT !.stop = Head(inbox[b]).casting, !.modal = FALSE]
    OBVIOUS
  <2>3. p \in Pages /\ p.preparing = page[b].preparing
    BY <1>0, <2>1, <2>2 DEF Pages
  <2>4. \/ Turn(b, p)
        \/ Turn(b, Showing(page[b], Head(inbox[b]).media))
        \/ Turn(b, Reset(page[b], FALSE))
        \/ Turn(b, page[b])
    BY <1>1, <2>2 DEF handleTvStatusUpdate, StatusWhileStopping, StopAgain
  <2>5. Silent \/ Emit(b, "stop", NoMedia)
    BY <1>1 DEF handleTvStatusUpdate, StatusWhileStopping, StopAgain
  <2>6. /\ Showing(page[b], Head(inbox[b]).media) \in Pages
        /\ Showing(page[b], Head(inbox[b]).media).preparing = page[b].preparing
    BY <1>0, <2>1, ShowingIsTyped, ShowingPrepares
  <2>7. Reset(page[b], FALSE) \in Pages /\ Reset(page[b], FALSE).preparing = page[b].preparing
    BY <1>0, ResetIsTyped, ResetPrepares
  <2> QED
    BY <1>0, <2>3, <2>4, <2>5, <2>6, <2>7
<1>2. CASE handleCastSuccess(b) \/ handleKioskBootComplete(b)
  <2>1. PICK p : p = [page[b] EXCEPT !.casting = TRUE]
    OBVIOUS
  <2>2. p \in Pages /\ p.preparing = page[b].preparing /\ page[b].media \in 0..MaxCasts
    BY <1>0, <2>1 DEF Pages
  <2>3. \/ Turn(b, p)
        \/ Turn(b, Showing(page[b], page[b].media))
        \/ Turn(b, Reset(page[b], TRUE))
        \/ Turn(b, page[b])
    BY <1>2, <2>1 DEF handleCastSuccess, handleKioskBootComplete, StopAgain
  <2>4. Silent \/ Emit(b, "stop", NoMedia)
    BY <1>2 DEF handleCastSuccess, handleKioskBootComplete, StopAgain
  <2>5. /\ Showing(page[b], page[b].media) \in Pages
        /\ Showing(page[b], page[b].media).preparing = page[b].preparing
    BY <1>0, <2>2, ShowingIsTyped, ShowingPrepares
  <2>6. Reset(page[b], TRUE) \in Pages /\ Reset(page[b], TRUE).preparing = page[b].preparing
    BY <1>0, ResetIsTyped, ResetPrepares
  <2> QED
    BY <1>0, <2>2, <2>3, <2>4, <2>5, <2>6
<1>3. CASE handleKioskBootTimeout(b) \/ handleTvError(b)
  <2>1. Silent /\ Turn(b, Reset(page[b], FALSE))
    BY <1>3 DEF handleKioskBootTimeout, handleTvError
  <2> QED
    BY <1>0, <2>1, ResetIsTyped, ResetPrepares
<1> QED
  BY <1>1, <1>2, <1>3 DEF Hear

\* A command that is sent waits behind the others.
LEMMA CastSent ==
  ASSUME NEW q \in Seq(Commands), NEW c \in Commands
  PROVE  /\ \A m : Asked(Append(q, c), m) <=> Asked(q, m) \/ IsCast(c, m)
         /\ Distinct(q) /\ (\A m : IsCast(c, m) => ~Asked(q, m)) => Distinct(Append(q, c))
<1>1. /\ Len(q) \in Nat /\ Len(Append(q, c)) = Len(q) + 1
      /\ Append(q, c)[Len(q) + 1] = c /\ \A i \in 1..Len(q) : Append(q, c)[i] = q[i]
  BY Queued
<1>2. /\ 1..Len(q) \subseteq 1..Len(q)+1 /\ Len(q) + 1 \in 1..Len(q)+1
      /\ \A i \in 1..Len(q)+1 : i \in 1..Len(q) \/ i = Len(q) + 1
  BY <1>1
<1>3. \A m : Asked(Append(q, c), m) <=> Asked(q, m) \/ IsCast(c, m)
  BY <1>1, <1>2 DEF Asked
<1>4. ASSUME Distinct(q), \A m : IsCast(c, m) => ~Asked(q, m)
      PROVE  Distinct(Append(q, c))
  <2> SUFFICES ASSUME NEW m, NEW i \in 1..Len(q)+1, NEW j \in 1..Len(q)+1,
                      IsCast(Append(q, c)[i], m), IsCast(Append(q, c)[j], m)
               PROVE  i = j
    BY <1>1 DEF Distinct
  <2>1. CASE i \in 1..Len(q) /\ j \in 1..Len(q)
    BY <1>1, <1>4, <2>1 DEF Distinct
  <2>2. CASE i = Len(q) + 1 \/ j = Len(q) + 1
    BY <1>1, <1>2, <1>4, <2>2 DEF Asked
  <2> QED
    BY <1>2, <2>1, <2>2
<1> QED
  BY <1>3, <1>4

\* The server takes the first one.
LEMMA CastTaken ==
  ASSUME NEW q \in Seq(Commands), q # <<>>
  PROVE  /\ \A m : Asked(q, m) <=> Asked(Tail(q), m) \/ IsCast(Head(q), m)
         /\ Distinct(q) => /\ Distinct(Tail(q))
                           /\ \A m : IsCast(Head(q), m) => ~Asked(Tail(q), m)
<1>1. /\ Len(q) \in Nat \ {0} /\ Len(Tail(q)) = Len(q) - 1
      /\ \A i \in 1..Len(q)-1 : Tail(q)[i] = q[i + 1]
      /\ Head(q) = q[1]
  OBVIOUS
<1>2. /\ \A i \in 1..Len(q)-1 : i + 1 \in 1..Len(q) /\ i + 1 # 1
      /\ \A i, j \in 1..Len(q)-1 : i + 1 = j + 1 => i = j
      /\ \A i \in 2..Len(q) : i - 1 \in 1..Len(q)-1 /\ (i - 1) + 1 = i
      /\ 1 \in 1..Len(q) /\ \A i \in 1..Len(q) : i = 1 \/ i \in 2..Len(q)
  BY <1>1
<1>3. \A i \in 2..Len(q) : Tail(q)[i - 1] = q[i]
  BY <1>1, <1>2
<1>4. ASSUME NEW m PROVE Asked(q, m) <=> Asked(Tail(q), m) \/ IsCast(Head(q), m)
  <2>1. ASSUME NEW i \in 1..Len(q), IsCast(q[i], m)
        PROVE  Asked(Tail(q), m) \/ IsCast(Head(q), m)
    <3>1. CASE i = 1
      BY <1>1, <2>1, <3>1
    <3>2. CASE i \in 2..Len(q)
      BY <1>1, <1>2, <1>3, <2>1, <3>2 DEF Asked
    <3> QED
      BY <1>2, <3>1, <3>2
  <2>2. IsCast(Head(q), m) => Asked(q, m)
    BY <1>1, <1>2 DEF Asked
  <2>3. ASSUME NEW i \in 1..Len(q)-1, IsCast(Tail(q)[i], m)
        PROVE  Asked(q, m)
    BY <1>1, <1>2, <2>3 DEF Asked
  <2> QED
    BY <1>1, <2>1, <2>2, <2>3 DEF Asked
<1>5. ASSUME Distinct(q)
      PROVE  Distinct(Tail(q)) /\ \A m : IsCast(Head(q), m) => ~Asked(Tail(q), m)
  BY <1>1, <1>2, <1>5 DEF Distinct, Asked
<1> QED
  BY <1>4, <1>5

\* A lost connection loses the first ones.
LEMMA CastsLost ==
  ASSUME NEW q \in Seq(Commands), NEW n \in 0..Len(q)
  PROVE  /\ \A m : Asked(SubSeq(q, n + 1, Len(q)), m) => Asked(q, m)
         /\ Distinct(q) => Distinct(SubSeq(q, n + 1, Len(q)))
<1>1. PICK r : r = SubSeq(q, n + 1, Len(q))
  OBVIOUS
<1>2. /\ Len(q) \in Nat /\ Len(r) = Len(q) - n
      /\ \A i \in 1..Len(r) : r[i] = q[n + i]
  BY <1>1
<1>3. /\ \A i \in 1..Len(r) : n + i \in 1..Len(q)
      /\ \A i, j \in 1..Len(r) : n + i = n + j => i = j
  BY <1>2
<1>4. \A m : Asked(r, m) => Asked(q, m)
  BY <1>2, <1>3 DEF Asked
<1>5. Distinct(q) => Distinct(r)
  BY <1>2, <1>3 DEF Distinct
<1> QED
  BY <1>1, <1>4, <1>5

\* Where no cast is new, each stays in one place.
LEMMA NoNewCast ==
  ASSUME AskedOnce, casts' = casts,
         \A b \in Browsers : /\ page'[b].preparing \subseteq page[b].preparing
                             /\ Distinct(outbox'[b])
                             /\ \A m : Asked(outbox'[b], m) => Asked(outbox[b], m),
         StartedOnce', \A m : Starts(m)' => Starts(m)
  PROVE  AskedOnce'
<1>1. \A b \in Browsers : \A m : HasCast(b, m)' => HasCast(b, m)
  BY DEF HasCast
<1> QED
  BY <1>1 DEF AskedOnce, InOnePlace

LEMMA AskedInit == ControllersInit => AskedOnce
<1> SUFFICES ASSUME ControllersInit PROVE AskedOnce
  OBVIOUS
<1>1. ASSUME NEW b \in Browsers
      PROVE  outbox[b] = <<>> /\ page[b].preparing = {}
  <2>1. PICK p : p = [FreshPage(casts) EXCEPT !.modal = (casts = 1), !.restoring = FALSE]
    OBVIOUS
  <2>2. p.preparing = {}
    BY <2>1 DEF FreshPage
  <2> QED
    BY <2>1, <2>2 DEF ControllersInit
<1>2. \A b \in Browsers : Len(outbox[b]) = 0
  BY <1>1
<1>3. \A b \in Browsers : \A m : ~HasCast(b, m)
  BY <1>1, <1>2 DEF HasCast, Asked
<1>4. starting = {}
  BY DEF ControllersInit
<1> QED
  BY <1>2, <1>3, <1>4 DEF AskedOnce, InOnePlace, StartedOnce, Distinct

LEMMA AskedNext == ControllersTypeOK /\ AskedOnce /\ [ControllersNext]_castVars => AskedOnce'
<1> SUFFICES ASSUME ControllersTypeOK, AskedOnce, [ControllersNext]_castVars PROVE AskedOnce'
  OBVIOUS
<1>t. /\ outbox \in [Browsers -> Seq(Commands)] /\ page \in [Browsers -> Pages]
      /\ \A b \in Browsers : page[b].preparing \subseteq 1..MaxCasts
      /\ casts \in Nat
  BY CastBounds DEF ControllersTypeOK, Pages
<1>o. /\ StartedOnce /\ \A b \in Browsers : InOnePlace(b) /\ Distinct(outbox[b])
  BY DEF AskedOnce, InOnePlace
\* A page that keeps what it prepares, and sends at most a command that is no cast.
<1>k. ASSUME NEW b \in Browsers, NEW p \in Pages, Turn(b, p), p.preparing \subseteq page[b].preparing
      PROVE  \A c \in Browsers : page'[c].preparing \subseteq page[c].preparing
  BY <1>k, PageTurns
<1>e. ASSUME NEW b \in Browsers, NEW kind \in {"stop", "control", "request"}, Emit(b, kind, NoMedia)
      PROVE  \A c \in Browsers : /\ Distinct(outbox'[c])
                                 /\ \A m : Asked(outbox'[c], m) => Asked(outbox[c], m)
  <2>0. [kind |-> kind, media |-> NoMedia] \in Commands
    BY DEF Commands
  <2>1. PICK x \in Commands : x = [kind |-> kind, media |-> NoMedia] /\ x.kind # "cast"
    BY <2>0
  <2>2. /\ outbox'[b] = Append(outbox[b], x) /\ \A c \in Browsers \ {b} : outbox'[c] = outbox[c]
    BY <1>e, <2>1, EmitIsTyped
  <2>3. \A m : ~IsCast(x, m)
    BY <2>1 DEF IsCast
  <2>4. /\ Distinct(Append(outbox[b], x))
        /\ \A m : Asked(Append(outbox[b], x), m) => Asked(outbox[b], m)
    BY <1>t, <1>o, <2>3, CastSent
  <2> QED
    BY <1>o, <2>2, <2>4
<1>s. ASSUME UNCHANGED <<starting, casts>>
      PROVE  StartedOnce' /\ \A m : Starts(m)' => Starts(m)
  BY <1>s, <1>o DEF StartedOnce, Starts
<1>q. ASSUME UNCHANGED outbox
      PROVE  \A c \in Browsers : /\ Distinct(outbox'[c])
                                 /\ \A m : Asked(outbox'[c], m) => Asked(outbox[c], m)
  BY <1>q, <1>o
<1>p. ASSUME UNCHANGED page
      PROVE  \A c \in Browsers : page'[c].preparing \subseteq page[c].preparing
  BY <1>p
<1>1. CASE UNCHANGED castVars
  BY <1>1, <1>s, <1>q, <1>p, NoNewCast DEF castVars, serverVars, counters
<1>2. ASSUME NEW b \in Browsers, castMediaToTv(b) PROVE AskedOnce'
  <2>1. casts' = casts + 1 /\ UNCHANGED <<starting, outbox>>
    BY <1>2 DEF castMediaToTv, serverVars
  <2>2. /\ page'[b].preparing = page[b].preparing \cup {casts + 1}
        /\ \A c \in Browsers \ {b} : page'[c] = page[c]
    <3>1. PICK p : p = [page[b] EXCEPT !.stop = FALSE, !.media = casts',
                                       !.preparing = page[b].preparing \cup {casts'}]
      OBVIOUS
    <3>2. page' = [page EXCEPT ![b] = p]
      BY <1>2, <3>1 DEF castMediaToTv, Turn
    <3>3. p.preparing = page[b].preparing \cup {casts + 1}
      BY <1>t, <2>1, <3>1 DEF Pages
    <3> QED
      BY <1>t, <3>2, <3>3
  <2>3. /\ \A m \in 1..casts : m \in 1..casts' /\ m # casts + 1
        /\ casts + 1 \in 1..casts'
    BY <1>t, <2>1
  <2>4. /\ \A c \in Browsers : ~HasCast(c, casts + 1)
        /\ ~Starts(casts + 1)
    BY <1>o, <2>3 DEF InOnePlace, StartedOnce, Starts
  <2>5. \A c \in Browsers : \A m :
          /\ HasCast(c, m)' <=> HasCast(c, m) \/ (c = b /\ m = casts + 1)
          /\ m # casts + 1 => (m \in page'[c].preparing <=> m \in page[c].preparing)
    BY <2>1, <2>2 DEF HasCast
  <2>6. \A m : Starts(m)' <=> Starts(m)
    BY <2>1 DEF Starts
  <2>7. ASSUME NEW c \in Browsers PROVE InOnePlace(c)'
    <3> SUFFICES ASSUME NEW m, HasCast(c, m)'
                 PROVE  /\ m \in 1..casts' /\ ~Starts(m)'
                        /\ ~(m \in page'[c].preparing /\ Asked(outbox'[c], m))
                        /\ \A d \in Browsers : HasCast(d, m)' => d = c
      BY <1>o, <2>1 DEF InOnePlace
    <3>1. CASE m = casts + 1
      BY <2>1, <2>3, <2>4, <2>5, <2>6, <3>1 DEF HasCast
    <3>2. CASE m # casts + 1
      BY <1>o, <2>1, <2>3, <2>5, <2>6, <3>2 DEF InOnePlace
    <3> QED
      BY <3>1, <3>2
  <2>8. StartedOnce'
    BY <1>o, <2>1, <2>3 DEF StartedOnce
  <2> QED
    BY <2>7, <2>8 DEF AskedOnce
<1>3. ASSUME NEW b \in Browsers, NEW media \in page[b].preparing, SendCast(b, media)
      PROVE  AskedOnce'
  <2>1. Emit(b, "cast", media) /\ UNCHANGED <<starting, casts>>
    BY <1>3 DEF SendCast, serverVars, counters
  <2>0. [kind |-> "cast", media |-> media] \in Commands
    BY <1>t DEF Commands
  <2>2. PICK x \in Commands : x = [kind |-> "cast", media |-> media] /\ \A m : IsCast(x, m) <=> m = media
    <3>1. PICK x \in Commands : x = [kind |-> "cast", media |-> media]
      BY <2>0
    <3>2. x.kind = "cast" /\ x.media = media
      BY <3>1
    <3> QED
      BY <3>1, <3>2 DEF IsCast
  <2>3. /\ outbox'[b] = Append(outbox[b], x) /\ \A c \in Browsers \ {b} : outbox'[c] = outbox[c]
    BY <2>1, <2>2, EmitIsTyped
  <2>4. /\ page'[b].preparing = page[b].preparing \ {media}
        /\ \A c \in Browsers \ {b} : page'[c] = page[c]
    <3>1. PICK p : p = [page[b] EXCEPT !.casting = TRUE, !.modal = TRUE, !.saved = page[b].media,
                                       !.preparing = page[b].preparing \ {media}]
      OBVIOUS
    <3>2. page' = [page EXCEPT ![b] = p]
      BY <1>3, <3>1 DEF SendCast, Turn
    <3>3. p.preparing = page[b].preparing \ {media}
      BY <1>t, <3>1 DEF Pages
    <3> QED
      BY <1>t, <3>2, <3>3
  <2>5. HasCast(b, media) /\ ~Asked(outbox[b], media)
    BY <1>o DEF InOnePlace, HasCast
  <2>6. /\ Distinct(outbox'[b])
        /\ \A m : Asked(outbox'[b], m) <=> Asked(outbox[b], m) \/ m = media
    BY <1>t, <1>o, <2>2, <2>3, <2>5, CastSent
  <2>7. \A c \in Browsers : \A m :
          /\ HasCast(c, m)' <=> HasCast(c, m)
          /\ m \in page'[c].preparing /\ Asked(outbox'[c], m)
               => m \in page[c].preparing /\ Asked(outbox[c], m)
    BY <2>3, <2>4, <2>5, <2>6 DEF HasCast
  <2>8. \A m : Starts(m)' <=> Starts(m)
    BY <2>1 DEF Starts
  <2>9. ASSUME NEW c \in Browsers PROVE InOnePlace(c)'
    <3>1. Distinct(outbox'[c])
      BY <1>o, <2>3, <2>6
    <3> QED
      BY <1>o, <2>1, <2>7, <2>8, <3>1 DEF InOnePlace
  <2> QED
    BY <1>s, <2>1, <2>9 DEF AskedOnce
<1>4. ASSUME NEW b \in Browsers, stopCasting(b) PROVE AskedOnce'
  <2>1. /\ Emit(b, "stop", NoMedia) /\ UNCHANGED <<starting, casts>>
    BY <1>4 DEF stopCasting, Command, serverVars
  <2>2. PICK p : p = [page[b] EXCEPT !.stop = TRUE]
    OBVIOUS
  <2>3. p \in Pages /\ p.preparing = page[b].preparing
    BY <1>t, <2>2 DEF Pages
  <2>4. \A c \in Browsers : page'[c].preparing \subseteq page[c].preparing
    BY <1>4, <1>k, <2>2, <2>3, ResetIsTyped, ResetPrepares DEF stopCasting
  <2> QED
    BY <1>e, <1>s, <2>1, <2>4, NoNewCast
<1>5. ASSUME NEW b \in Browsers, UseModal(b) \/ requestTvStatus(b) PROVE AskedOnce'
  <2>1. UNCHANGED <<page, starting, casts>>
    BY <1>5 DEF UseModal, requestTvStatus, Command, serverVars
  <2>2. PICK kind \in {"stop", "control", "request"} : Emit(b, kind, NoMedia)
    BY <1>5 DEF UseModal, requestTvStatus
  <2> QED
    BY <1>e, <1>p, <1>s, <2>1, <2>2, NoNewCast
<1>6. ASSUME NEW b \in Browsers, Hear(b) PROVE AskedOnce'
  <2>0. page[b] \in Pages
    BY <1>t
  <2>1. UNCHANGED <<starting, casts>>
    BY <1>6 DEF Hear, handleTvStatusUpdate, handleCastSuccess, handleKioskBootComplete,
                handleKioskBootTimeout, handleTvError, Heard, serverVars, counters
  <2>2. PICK p \in Pages : /\ Turn(b, p) /\ p.preparing = page[b].preparing
                           /\ Silent \/ Emit(b, "stop", NoMedia)
    BY <1>6, <2>0, HearingPrepares
  <2>3. \A c \in Browsers : page'[c].preparing \subseteq page[c].preparing
    BY <1>k, <2>2
  <2> QED
    BY <1>e, <1>q, <1>s, <2>1, <2>2, <2>3, NoNewCast DEF Silent
<1>7. ASSUME NEW b \in Browsers, handleTvPlaybackState(b) \/ RestoreModal(b) PROVE AskedOnce'
  <2>1. UNCHANGED <<starting, casts, outbox>>
    BY <1>7 DEF handleTvPlaybackState, RestoreModal, serverVars, counters
  <2>2. PICK p, r : /\ p = [page[b] EXCEPT !.saved = page[b].media]
                    /\ r = [page[b] EXCEPT !.modal = TRUE, !.restoring = FALSE]
    OBVIOUS
  <2>3. /\ p \in Pages /\ p.preparing = page[b].preparing
        /\ r \in Pages /\ r.preparing = page[b].preparing
    BY <1>t, <2>2 DEF Pages
  <2>4. Turn(b, p) \/ Turn(b, r)
    BY <1>7, <2>2 DEF handleTvPlaybackState, RestoreModal
  <2>5. \A c \in Browsers : page'[c].preparing \subseteq page[c].preparing
    BY <1>k, <2>3, <2>4
  <2> QED
    BY <1>q, <1>s, <2>1, <2>5, NoNewCast
<1>8. ASSUME NEW b \in Browsers, LoseSocket(b) \/ ReloadPage(b) PROVE AskedOnce'
  <2>1. /\ casts' = casts
        /\ starting' = {[s EXCEPT !.by = IF s.by = b THEN "gone" ELSE s.by] : s \in starting}
    BY <1>8 DEF LoseSocket, ReloadPage, Forget
  <2>2. \A s \in starting : [s EXCEPT !.by = IF s.by = b THEN "gone" ELSE s.by].cast = s.cast
    BY DEF ControllersTypeOK
  <2>3. StartedOnce' /\ \A m : Starts(m)' => Starts(m)
    <3>1. \A s \in starting' : \E t \in starting :
            s = [t EXCEPT !.by = IF t.by = b THEN "gone" ELSE t.by] /\ s.cast = t.cast
      BY <2>1, <2>2
    <3>2. StartedOnce'
      BY <1>o, <2>1, <3>1 DEF StartedOnce
    <3> QED
      BY <3>1, <3>2 DEF Starts
  <2>4. \A c \in Browsers : /\ Distinct(outbox'[c])
                            /\ \A m : Asked(outbox'[c], m) => Asked(outbox[c], m)
    <3>1. CASE LoseSocket(b)
      <4>1. PICK n \in 0..Len(outbox[b]) :
              outbox' = [outbox EXCEPT ![b] = SubSeq(outbox[b], n + 1, Len(outbox[b]))]
        BY <3>1 DEF LoseSocket
      <4>2. outbox[b] \in Seq(Commands) /\ Distinct(outbox[b])
        BY <1>t, <1>o
      <4>3. /\ \A m : Asked(SubSeq(outbox[b], n + 1, Len(outbox[b])), m) => Asked(outbox[b], m)
            /\ Distinct(SubSeq(outbox[b], n + 1, Len(outbox[b])))
        BY <4>2, CastsLost
      <4>4. \A c \in Browsers \ {b} : outbox'[c] = outbox[c]
        BY <1>t, <4>1
      <4>5. outbox'[b] = SubSeq(outbox[b], n + 1, Len(outbox[b]))
        BY <1>t, <4>1
      <4> QED
        BY <1>o, <4>3, <4>4, <4>5
    <3>2. CASE ReloadPage(b)
      <4>1. PICK q : q = <<[kind |-> "request", media |-> NoMedia]>>
        OBVIOUS
      <4>2. Len(q) = 1 /\ q[1].kind = "request"
        BY <4>1
      <4>3. \A m : \A i \in 1..Len(q) : ~IsCast(q[i], m)
        BY <4>2 DEF IsCast
      <4>4. outbox'[b] = q /\ \A c \in Browsers \ {b} : outbox'[c] = outbox[c]
        BY <1>t, <3>2, <4>1 DEF ReloadPage
      <4>5. Distinct(q) /\ \A m : ~Asked(q, m)
        BY <4>3 DEF Distinct, Asked
      <4> QED
        BY <1>o, <4>4, <4>5
    <3> QED
      BY <1>8, <3>1, <3>2
  <2>5. \A c \in Browsers : page'[c].preparing \subseteq page[c].preparing
    <3>1. CASE LoseSocket(b)
      BY <3>1 DEF LoseSocket
    <3>2. CASE ReloadPage(b)
      <4>1. FreshPage(page[b].saved) \in Pages /\ FreshPage(page[b].saved).preparing = {}
        BY <1>t DEF Pages, FreshPage
      <4> QED
        BY <1>k, <3>2, <4>1 DEF ReloadPage
    <3> QED
      BY <1>8, <3>1, <3>2
  <2> QED
    BY <2>1, <2>3, <2>4, <2>5, NoNewCast
<1>9. ASSUME NEW b \in Browsers, Connect(b) \/ Greet(b) PROVE AskedOnce'
  <2>1. UNCHANGED <<starting, casts, outbox, page>>
    BY <1>9 DEF Connect, Greet, serverVars, counters
  <2> QED
    BY <1>q, <1>p, <1>s, <2>1, NoNewCast
\* What the server takes is gone from its sender.
<1>a. ASSUME NEW b \in Browsers, NEW kind, Arrives(b, kind)
      PROVE  /\ outbox[b] \in Seq(Commands) /\ outbox[b] # <<>> /\ Head(outbox[b]).kind = kind
             /\ outbox'[b] = Tail(outbox[b]) /\ \A c \in Browsers \ {b} : outbox'[c] = outbox[c]
             /\ \A c \in Browsers : /\ Distinct(outbox'[c])
                                    /\ \A m : Asked(outbox'[c], m) => Asked(outbox[c], m)
             /\ UNCHANGED <<page, casts>>
  <2>1. /\ outbox[b] \in Seq(Commands) /\ outbox[b] # <<>> /\ Head(outbox[b]).kind = kind
        /\ outbox'[b] = Tail(outbox[b]) /\ \A c \in Browsers \ {b} : outbox'[c] = outbox[c]
        /\ UNCHANGED <<page, casts>>
    BY <1>a, <1>t DEF Arrives, counters
  <2>2. /\ Distinct(Tail(outbox[b])) /\ \A m : Asked(Tail(outbox[b]), m) => Asked(outbox[b], m)
    BY <1>o, <2>1, CastTaken
  <2> QED
    BY <1>o, <2>1, <2>2
<1>10. ASSUME NEW b \in Browsers, StartCast(b) PROVE AskedOnce'
  <2>1. PICK m : m = Head(outbox[b]).media
    OBVIOUS
  <2>2. PICK s : s = [by |-> b, cast |-> [media |-> m, guest |-> b \notin Administrators]]
    OBVIOUS
  <2>3. s.cast.media = m /\ starting' = starting \cup {s} /\ Arrives(b, "cast")
    BY <1>10, <2>1, <2>2 DEF StartCast
  <2>4. IsCast(Head(outbox[b]), m) /\ Asked(outbox[b], m) /\ ~Asked(Tail(outbox[b]), m)
    BY <1>a, <1>o, <2>1, <2>3, CastTaken DEF IsCast
  <2>5. HasCast(b, m) /\ m \in 1..casts /\ ~Starts(m) /\ m \notin page[b].preparing
        /\ \A c \in Browsers : HasCast(c, m) => c = b
    BY <1>o, <2>4 DEF HasCast, InOnePlace
  <2>6. casts' = casts /\ \A k : Starts(k)' <=> Starts(k) \/ k = m
    BY <1>a, <2>3 DEF Starts
  <2>7. \A c \in Browsers : \A k :
          /\ HasCast(c, k)' => HasCast(c, k) /\ ~(c = b /\ k = m)
          /\ k \in page'[c].preparing /\ Asked(outbox'[c], k)
               => k \in page[c].preparing /\ Asked(outbox[c], k)
    BY <1>a, <2>3, <2>4, <2>5 DEF HasCast
  <2>8. ASSUME NEW c \in Browsers PROVE InOnePlace(c)'
    <3> SUFFICES ASSUME NEW k, HasCast(c, k)'
                 PROVE  /\ k \in 1..casts' /\ ~Starts(k)'
                        /\ ~(k \in page'[c].preparing /\ Asked(outbox'[c], k))
                        /\ \A d \in Browsers : HasCast(d, k)' => d = c
      BY <1>a, <2>3 DEF InOnePlace
    <3>1. HasCast(c, k) /\ k # m
      BY <2>5, <2>7
    <3> QED
      BY <1>o, <2>6, <2>7, <3>1 DEF InOnePlace
  <2>9. StartedOnce'
    BY <1>o, <2>3, <2>5, <2>6 DEF StartedOnce, Starts
  <2> QED
    BY <2>8, <2>9 DEF AskedOnce
<1>11. ASSUME NEW b \in Browsers, StopCasting(b) \/ RelayControl(b) \/ RequestStatus(b) PROVE AskedOnce'
  <2>1. PICK kind : Arrives(b, kind)
    BY <1>11 DEF StopCasting, RelayControl, RequestStatus
  <2>2. UNCHANGED starting
    BY <1>11 DEF StopCasting, RelayControl, RequestStatus, Refused, serverVars
  <2>3. UNCHANGED <<starting, casts, page>>
    BY <1>a, <2>1, <2>2
  <2> QED
    BY <1>a, <1>p, <1>s, <2>1, <2>3, NoNewCast
<1>12. ASSUME NEW s \in starting, FinishStart(s) PROVE AskedOnce'
  <2>1. starting' = starting \ {s} /\ UNCHANGED <<outbox, page, casts>>
    BY <1>12 DEF FinishStart, counters
  <2>2. StartedOnce' /\ \A m : Starts(m)' => Starts(m)
    BY <1>o, <2>1 DEF StartedOnce, Starts
  <2> QED
    BY <1>q, <1>p, <2>1, <2>2, NoNewCast
<1>13. CASE CheckBoot \/ AnnounceStop \/ TvArrives \/ TvLeaves \/ HdmiUnplugged
  <2>1. UNCHANGED <<starting, casts, outbox, page>>
    BY <1>13 DEF CheckBoot, AnnounceStop, TvArrives, TvLeaves, HdmiUnplugged, TvChanges, counters
  <2> QED
    BY <1>q, <1>p, <1>s, <2>1, NoNewCast
<1> QED
  BY <1>1, <1>2, <1>3, <1>4, <1>5, <1>6, <1>7, <1>8, <1>9, <1>10, <1>11, <1>12, <1>13
  DEF ControllersNext, Server

-----------------------------------------------------------------------------
\* Nobody knows of a cast at first that is not recorded.
LEMMA ServedInitially == ControllersInit => AbstractService!CastServiceInit
<1> SUFFICES ASSUME ControllersInit PROVE AbstractService!CastServiceInit
  OBVIOUS
<1>1. playing \in RealCasts \cup {NoCast} /\ (playing.media # NoMedia <=> playing # NoCast)
  BY CastTypeInit, MessagesAreTyped DEF ControllersTypeOK
<1>2. playing.media = casts /\ casts \in {0, 1}
  BY DEF ControllersInit
<1>a. active <=> casts = 1
  BY Zenon DEF ControllersInit
<1>3. active <=> playing # NoCast
  BY <1>1, <1>2, <1>a DEF NoMedia
<1>4. boot = Nobody /\ starting = {} /\ tv \in BOOLEAN
  BY DEF ControllersInit
<1>5. {s.cast : s \in starting} = {} /\ ~(boot # Nobody)
  BY <1>4
<1> QED
  BY <1>1, <1>3, <1>4, <1>5 DEF AbstractService!CastServiceInit

\* What the server does is one step of the service, and nothing else touches it.
LEMMA ServedStep ==
  ControllersTypeOK /\ AskedOnce /\ [ControllersNext]_castVars =>
    [AbstractService!CastServiceNext]_(AbstractService!serviceVars)
<1> SUFFICES ASSUME ControllersTypeOK, AskedOnce, [ControllersNext]_castVars
             PROVE  AbstractService!CastServiceNext \/ UNCHANGED AbstractService!serviceVars
  OBVIOUS
<1>t. /\ tv \in BOOLEAN /\ active \in BOOLEAN /\ boot \in Browsers \cup {Nobody, "gone"}
      /\ starting \subseteq [by: Browsers \cup {"gone"}, cast: RealCasts]
      /\ outbox \in [Browsers -> Seq(Commands)]
  BY DEF ControllersTypeOK
<1>a. Nobody \notin Browsers /\ "gone" # Nobody
  BY ControllersAssumption
<1>s. UNCHANGED serverVars => UNCHANGED AbstractService!serviceVars
  BY DEF serverVars, AbstractService!serviceVars
<1>1. CASE UNCHANGED castVars
  BY <1>1, <1>s DEF castVars
<1>2. ASSUME NEW b \in Browsers,
             \/ castMediaToTv(b) \/ stopCasting(b) \/ UseModal(b) \/ requestTvStatus(b)
             \/ \E media \in page[b].preparing : SendCast(b, media)
             \/ Hear(b) \/ handleTvPlaybackState(b) \/ RestoreModal(b) \/ Connect(b) \/ Greet(b)
      PROVE  UNCHANGED serverVars
  BY <1>2 DEF castMediaToTv, stopCasting, UseModal, requestTvStatus, Command, SendCast, Hear,
       handleTvStatusUpdate, handleCastSuccess, handleKioskBootComplete, handleKioskBootTimeout,
       handleTvError, Heard, handleTvPlaybackState, RestoreModal, Connect, Greet
<1>3. ASSUME NEW b \in Browsers, LoseSocket(b) \/ ReloadPage(b)
      PROVE  UNCHANGED AbstractService!serviceVars
  <2>1. /\ UNCHANGED <<playing, tv, active>> /\ boot' = IF boot = b THEN "gone" ELSE boot
        /\ starting' = {[s EXCEPT !.by = IF s.by = b THEN "gone" ELSE s.by] : s \in starting}
    BY <1>3 DEF LoseSocket, ReloadPage, Forget
  <2>2. \A s \in starting : [s EXCEPT !.by = IF s.by = b THEN "gone" ELSE s.by].cast = s.cast
    BY <1>t
  <2>3. {s.cast : s \in starting'} = {s.cast : s \in starting}
    <3>1. \A s \in starting' : \E r \in starting :
            s = [r EXCEPT !.by = IF r.by = b THEN "gone" ELSE r.by] /\ s.cast = r.cast
      BY <2>1, <2>2
    <3>2. \A r \in starting : \E s \in starting' : s.cast = r.cast
      BY <2>1, <2>2
    <3> QED
      BY <3>1, <3>2
  <2>4. boot' # Nobody <=> boot # Nobody
    BY <1>a, <2>1
  <2> QED
    BY <2>1, <2>3, <2>4 DEF AbstractService!serviceVars
<1>4. ASSUME NEW b \in Browsers, StartCast(b)
      PROVE  AbstractService!CastServiceNext
  <2>1. PICK c : c = [media |-> Head(outbox[b]).media, guest |-> b \notin Administrators]
    OBVIOUS
  <2>2. c \in RealCasts
    <3>1. Head(outbox[b]) \in Commands /\ Head(outbox[b]).kind = "cast"
      BY <1>4, <1>t, TakingIsTyped DEF StartCast, Arrives
    <3> QED
      BY <2>1, <3>1 DEF Commands, RealCasts
  <2>3. /\ starting' = starting \cup {[by |-> b, cast |-> c]} /\ active' = TRUE
        /\ UNCHANGED <<playing, tv, boot>>
    BY <1>4, <2>1 DEF StartCast
  <2>4. {s.cast : s \in starting'} = {s.cast : s \in starting} \cup {c}
    <3>1. PICK r : r = [by |-> b, cast |-> c]
      OBVIOUS
    <3>2. r.cast = c /\ starting' = starting \cup {r}
      BY <2>3, <3>1
    <3> QED
      BY <3>2
  <2>5. AbstractService!BeginCast(c)
    BY <2>3, <2>4 DEF AbstractService!BeginCast
  <2> QED
    BY <2>2, <2>5 DEF AbstractService!CastServiceNext
<1>5. ASSUME NEW s \in starting, FinishStart(s)
      PROVE  AbstractService!CastServiceNext
  <2>1. /\ starting' = starting \ {s} /\ playing' = s.cast /\ UNCHANGED <<tv, active>>
        /\ boot' = IF tv THEN boot ELSE s.by
    BY <1>5 DEF FinishStart
  <2>2. s.cast \in RealCasts /\ s.by # Nobody
    BY <1>t, <1>a
  <2>3. \A r \in starting : r.cast = s.cast => r = s
    BY DEF AskedOnce, StartedOnce
  <2>4. {r.cast : r \in starting'} = {r.cast : r \in starting} \ {s.cast}
    BY <2>1, <2>3
  <2>5. boot' # Nobody <=> (boot # Nobody \/ ~tv)
    BY <1>t, <2>1, <2>2
  <2>6. AbstractService!RecordCast(s.cast)
    BY <2>1, <2>4, <2>5 DEF AbstractService!RecordCast
  <2> QED
    BY <2>2, <2>6 DEF AbstractService!CastServiceNext
<1>6. ASSUME NEW b \in Browsers, StopCasting(b)
      PROVE  AbstractService!CastServiceNext \/ UNCHANGED AbstractService!serviceVars
  <2>1. CASE Refused(b)
    BY <1>s, <2>1 DEF Refused
  <2>2. CASE /\ playing' = NoCast /\ active' = (active /\ ~(tv /\ playing # NoCast))
             /\ UNCHANGED <<tv, boot, starting>>
    <3>1. CASE playing = NoCast
      BY <1>t, <2>2, <3>1 DEF AbstractService!serviceVars
    <3>2. CASE playing # NoCast
      <4>1. AbstractService!StopCast
        BY <1>t, <2>2, <3>2 DEF AbstractService!StopCast
      <4> QED
        BY <4>1 DEF AbstractService!CastServiceNext
    <3> QED
      BY <3>1, <3>2
  <2> QED
    BY <1>6, <2>1, <2>2 DEF StopCasting
<1>7. ASSUME NEW b \in Browsers, RelayControl(b) \/ RequestStatus(b)
      PROVE  UNCHANGED serverVars
  BY <1>7 DEF RelayControl, RequestStatus, Refused
<1>8. CASE CheckBoot
  <2>1. AbstractService!GiveUpWaiting
    BY <1>8 DEF CheckBoot, AbstractService!GiveUpWaiting
  <2> QED
    BY <2>1 DEF AbstractService!CastServiceNext
<1>9. CASE TvArrives
  <2>1. AbstractService!TvArrives
    BY <1>9 DEF TvArrives, TvChanges, AbstractService!TvArrives
  <2> QED
    BY <2>1 DEF AbstractService!CastServiceNext
<1>10. CASE TvLeaves
  <2>1. AbstractService!TvLeaves
    BY <1>10 DEF TvLeaves, TvChanges, AbstractService!TvLeaves
  <2> QED
    BY <2>1 DEF AbstractService!CastServiceNext
<1>11. CASE HdmiUnplugged
  <2>1. AbstractService!Unplug
    BY <1>11 DEF HdmiUnplugged, TvChanges, AbstractService!Unplug
  <2> QED
    BY <2>1 DEF AbstractService!CastServiceNext
<1>12. CASE AnnounceStop
  BY <1>12 DEF AnnounceStop, AbstractService!serviceVars
<1> QED
  BY <1>s, <1>1, <1>2, <1>3, <1>4, <1>5, <1>6, <1>7, <1>8, <1>9, <1>10, <1>11, <1>12
  DEF ControllersNext, Server

\* However clicks, commands, lost sockets and reloads overtake each other, each cast
\* that the users ask for waits in one place (castMediaToTv, start_cast).
THEOREM EachCastOnce == ControllersSpec => [](ControllersTypeOK /\ AskedOnce)
<1>1. ControllersInit => ControllersTypeOK /\ AskedOnce
  BY CastTypeInit, AskedInit
<1>2. ControllersTypeOK /\ AskedOnce /\ [ControllersNext]_castVars => (ControllersTypeOK /\ AskedOnce)'
  BY CastTypeNext, AskedNext
<1> QED
  BY <1>1, <1>2, PTL DEF ControllersSpec

\* The pages, whatever they send and lose, use the server by steps of CastService, which
\* TvCast implements: what is proved of them holds of the server on top of the kiosk.
THEOREM ReliesOnCasts == ControllersSpec => ReliesOnCastService
  BY EachCastOnce, ServedInitially, ServedStep, PTL
  DEF ControllersSpec, ReliesOnCastService, AbstractService!CastServiceSpec

-----------------------------------------------------------------------------
(* Streaming. *)

LEMMA LayoutBounds ==
    /\ MaxTasks \in Nat /\ MaxPage \in Nat /\ 1 \in HomePlaces
    /\ Home \in Filter /\ AllTypes \in MediaTypes /\ Numbers = 1..MaxTasks
    /\ Len(OnPage) \in Nat
<1>1. /\ MaxTasks \in Nat /\ MaxPage \in Nat \ {0} /\ AllTypes \in MediaTypes
      /\ OnPage \in Seq(SUBSET Categories)
  BY StreamingAssumption
<1> QED
  BY <1>1 DEF HomePlaces, Home, Filter, Numbers

LEMMA CardTyped ==
    ASSUME NEW f \in Filter, NEW c \in Categories
    PROVE  CardOf(f, c) \in Card
<1>1. f.media \in MediaTypes
  BY DEF Filter
<1>2. (IF f.place \in Folders /\ c \in Listed(f) THEN f.place ELSE NoFolder) \in Folders \cup {NoFolder}
  OBVIOUS
<1> QED
  BY <1>1, <1>2 DEF CardOf, Card, View

LEMMA CardHasView ==
    ASSUME NEW f \in Filter, NEW c \in Categories
    PROVE  CardOf(f, c).view # NoViewKey /\ CardOf(f, c).id = c
<1>1. f.media \in MediaTypes
  BY DEF Filter
<1>2. (IF f.place \in Folders /\ c \in Listed(f) THEN f.place ELSE NoFolder) \in Folders \cup {NoFolder}
  OBVIOUS
<1>3. CardOf(f, c).view \in [folder: Folders \cup {NoFolder}, media: MediaTypes]
  BY <1>1, <1>2 DEF CardOf
<1> QED
  BY <1>3, StreamingAssumption DEF CardOf

LEMMA LayoutTypeInit == StreamingInit => StreamingTypeOK
<1> SUFFICES ASSUME StreamingInit PROVE StreamingTypeOK
  OBVIOUS
<1>1. Spent("unused") \in Task
  BY LayoutBounds DEF Spent, Task
<1>2. /\ {filters, wanted} \subseteq Filter /\ categoriesData \subseteq Card
      /\ slot \subseteq {"rows", "grid", "error"} /\ gridView \in Card \cup {NoGrid}
      /\ pageBar \in 0..MaxPage /\ current \in 0..MaxTasks
  BY LayoutBounds DEF StreamingInit
<1>3. transitions \in Seq(Transition) /\ indexAsks \subseteq IndexAsk
  BY DEF StreamingInit
<1>4. tasks \in [Numbers -> Task]
  BY <1>1 DEF StreamingInit
<1> QED
  BY <1>2, <1>3, <1>4 DEF StreamingInit, StreamingTypeOK

LEMMA BeginTyped ==
    ASSUME StreamingTypeOK, NEW task \in Task, Begin(task)
    PROVE  /\ tasks' \in [Numbers -> Task] /\ current' \in 0..MaxTasks /\ layoutLoading' \in BOOLEAN
  BY LayoutBounds DEF StreamingTypeOK, Begin

LEMMA LoadTyped ==
    ASSUME StreamingTypeOK, filters' \in Filter, NEW how \in SUBSET {"bypass", "secondary", "init"},
           LoadAndRenderRows(how)
    PROVE  /\ tasks' \in [Numbers -> Task] /\ current' \in 0..MaxTasks /\ layoutLoading' \in BOOLEAN
<1>1. PICK joined \in Joins(how) :
        Begin([at |-> "list", asked |-> filters', ids |-> {}, kept |-> {},
               how |-> how \cup joined \cup IF SingleView(filters') THEN {"single"} ELSE {}])
  BY DEF LoadAndRenderRows
<1>2. joined \in SUBSET {"joined"}
  BY <1>1 DEF Joins
<1>3. (how \cup joined \cup IF SingleView(filters') THEN {"single"} ELSE {}) \in SUBSET Options
  BY <1>2 DEF Options
<1>4. [at |-> "list", asked |-> filters', ids |-> {}, kept |-> {},
        how |-> how \cup joined \cup IF SingleView(filters') THEN {"single"} ELSE {}] \in Task
  BY <1>3 DEF Task
<1> QED
  BY <1>1, <1>4, BeginTyped

LEMMA MountTyped ==
    ASSUME StreamingTypeOK
    PROVE  /\ MountRows \/ UnmountGrid => slot' \subseteq {"rows", "grid", "error"} /\ gridView' \in Card \cup {NoGrid}
           /\ \A card \in Card : MountGrid(card) => slot' \subseteq {"rows", "grid", "error"} /\ gridView' \in Card \cup {NoGrid}
  BY DEF StreamingTypeOK, MountRows, UnmountGrid, MountGrid

LEMMA ReturnTyped ==
    ASSUME StreamingTypeOK, NEW n \in Numbers, Return(n)
    PROVE  tasks' \in [Numbers -> Task] /\ initializing' \in BOOLEAN
<1>1. Spent("done") \in Task
  BY LayoutBounds DEF Spent, Task
<1> QED
  BY <1>1, LayoutBounds DEF StreamingTypeOK, Return

LEMMA AwaitTyped ==
    ASSUME StreamingTypeOK, NEW n \in Numbers, NEW ids \in SUBSET Categories, AwaitMedia(n, ids)
    PROVE  tasks' \in [Numbers -> Task]
<1>1. tasks' = [tasks EXCEPT ![n] = [tasks[n] EXCEPT !.at = "media", !.asked = filters, !.ids = ids]]
  BY DEF AwaitMedia, StreamingTypeOK
<1>2. [tasks[n] EXCEPT !.at = "media", !.asked = filters, !.ids = ids] \in Task
  BY DEF StreamingTypeOK, Task
<1> QED
  BY <1>1, <1>2 DEF StreamingTypeOK

LEMMA UpdatedTyped ==
    ASSUME NEW cards \in SUBSET Card, NEW new \in SUBSET Card
    PROVE  Updated(cards, new) \in SUBSET Card
  BY DEF Updated

LEMMA LayoutTypeNext == StreamingTypeOK /\ [StreamingNext]_streamingVars => StreamingTypeOK'
<1> SUFFICES ASSUME StreamingTypeOK, [StreamingNext]_streamingVars PROVE StreamingTypeOK'
  OBVIOUS
<1> USE LayoutBounds
<1>1. ASSUME EnterLayout
      PROVE  StreamingTypeOK'
  <2>1. filters' \in Filter /\ wanted' \in Filter
    BY <1>1 DEF EnterLayout, StreamingTypeOK, Filter
  <2>2. tasks' \in [Numbers -> Task] /\ current' \in 0..MaxTasks /\ layoutLoading' \in BOOLEAN
    <3>1. CASE initializing
      BY <1>1, <3>1 DEF EnterLayout, StreamingTypeOK
    <3>2. CASE ~initializing
      <4>1. LoadAndRenderRows({"bypass", "secondary", "init"})
        BY <1>1, <3>2 DEF EnterLayout
      <4> QED
        BY <4>1, <2>1, LoadTyped
    <3> QED
      BY <3>1, <3>2
  <2>8. {shown, rooted, initializing, layoutLoading, unsettled}' \subseteq BOOLEAN
    BY <1>1, <2>2 DEF EnterLayout, StreamingTypeOK
  <2>9. QED
    BY <1>1, <2>8, <2>1, <2>2 DEF EnterLayout, StreamingTypeOK
<1>2. ASSUME LeaveLayout
      PROVE  StreamingTypeOK'
  <2>8. {shown, rooted, initializing, layoutLoading, unsettled}' \subseteq BOOLEAN
    BY <1>2 DEF LeaveLayout, StreamingTypeOK
  <2>9. QED
    BY <1>2, <2>8 DEF LeaveLayout, StreamingTypeOK
<1>3. ASSUME NEW m \in MediaTypes, ChooseType(m)
      PROVE  StreamingTypeOK'
  <2>1. filters' \in Filter /\ wanted' \in Filter
    BY <1>3 DEF ChooseType, StreamingTypeOK, Filter, Home
  <2>2. tasks' \in [Numbers -> Task] /\ current' \in 0..MaxTasks /\ layoutLoading' \in BOOLEAN
    BY <1>3, <2>1, LoadTyped DEF ChooseType
  <2>8. {shown, rooted, initializing, layoutLoading, unsettled}' \subseteq BOOLEAN
    BY <1>3, <2>2 DEF ChooseType, StreamingTypeOK, Doubtful
  <2>9. QED
    BY <1>3, <2>8, <2>1, <2>2 DEF ChooseType, StreamingTypeOK
<1>4. ASSUME NEW p \in {1} \cup Categories \cup Parents, ChoosePlace(p)
      PROVE  StreamingTypeOK'
  <2>1. filters' \in Filter /\ wanted' \in Filter
    BY <1>4 DEF ChoosePlace, StreamingTypeOK, Filter
  <2>2. tasks' \in [Numbers -> Task] /\ current' \in 0..MaxTasks /\ layoutLoading' \in BOOLEAN
    BY <1>4, <2>1, LoadTyped DEF ChoosePlace
  <2>3. slot' \subseteq {"rows", "grid", "error"} /\ gridView' \in Card \cup {NoGrid}
    BY <1>4, MountTyped DEF ChoosePlace, StreamingTypeOK
  <2>8. {shown, rooted, initializing, layoutLoading, unsettled}' \subseteq BOOLEAN
    BY <1>4, <2>2 DEF ChoosePlace, StreamingTypeOK, Doubtful
  <2>9. QED
    BY <1>4, <2>8, <2>1, <2>2, <2>3 DEF ChoosePlace, StreamingTypeOK
<1>5. ASSUME NEW p \in HomePlaces, ChoosePage(p)
      PROVE  StreamingTypeOK'
  <2>1. filters' \in Filter /\ wanted' \in Filter
    BY <1>5 DEF ChoosePage, StreamingTypeOK, Filter
  <2>2. tasks' \in [Numbers -> Task] /\ current' \in 0..MaxTasks /\ layoutLoading' \in BOOLEAN
    BY <1>5, <2>1, LoadTyped DEF ChoosePage
  <2>8. {shown, rooted, initializing, layoutLoading, unsettled}' \subseteq BOOLEAN
    BY <1>5, <2>2 DEF ChoosePage, StreamingTypeOK, Doubtful
  <2>9. QED
    BY <1>5, <2>8, <2>1, <2>2 DEF ChoosePage, StreamingTypeOK
<1>6. ASSUME NEW how \in {{"secondary"}, {"secondary", "bypass"}}, LoadAgain(how)
      PROVE  StreamingTypeOK'
  <2>1. filters' \in Filter /\ wanted' \in Filter
    BY <1>6 DEF LoadAgain, StreamingTypeOK, Filter
  <2>2. tasks' \in [Numbers -> Task] /\ current' \in 0..MaxTasks /\ layoutLoading' \in BOOLEAN
    BY <1>6, <2>1, LoadTyped DEF LoadAgain
  <2>8. {shown, rooted, initializing, layoutLoading, unsettled}' \subseteq BOOLEAN
    BY <1>6, <2>2 DEF LoadAgain, StreamingTypeOK, Doubtful
  <2>9. QED
    BY <1>6, <2>8, <2>1, <2>2 DEF LoadAgain, StreamingTypeOK
<1>7. ASSUME NEW list \in BOOLEAN, NEW force \in BOOLEAN, RefreshStreaming(list, force)
      PROVE  StreamingTypeOK'
  <2>1. filters' \in Filter /\ wanted' \in Filter
    BY <1>7 DEF RefreshStreaming, StreamingTypeOK, Filter
  <2>2. tasks' \in [Numbers -> Task] /\ current' \in 0..MaxTasks /\ layoutLoading' \in BOOLEAN
    BY <1>7, <2>1, LoadTyped DEF RefreshStreaming
  <2>3. slot' \subseteq {"rows", "grid", "error"} /\ gridView' \in Card \cup {NoGrid}
    BY <1>7  DEF RefreshStreaming, StreamingTypeOK
  <2>8. {shown, rooted, initializing, layoutLoading, unsettled}' \subseteq BOOLEAN
    BY <1>7, <2>2 DEF RefreshStreaming, StreamingTypeOK, Doubtful
  <2>9. QED
    BY <1>7, <2>8, <2>1, <2>2, <2>3 DEF RefreshStreaming, StreamingTypeOK
<1>8. ASSUME NEW f \in Folders, NavigateToSubfolderInstant(f)
      PROVE  StreamingTypeOK'
  <2> DEFINE c == CategoryOf[f]
             known == {d \in categoriesData : d.id = c}
             kept == IF known = {} THEN {[id |-> c, view |-> NoViewKey]} ELSE known
             task == [at |-> "folder", asked |-> [filters EXCEPT !.place = f], ids |-> {c},
                      kept |-> kept, how |-> {}]
  <2>1. c \in Categories
    BY StreamingAssumption
  <2>2. kept \in SUBSET Card
    BY <2>1 DEF StreamingTypeOK, Card
  <2>3. [filters EXCEPT !.place = f] \in Filter
    BY DEF StreamingTypeOK, Filter
  <2>5. wanted' \in Filter
    BY <1>8 DEF NavigateToSubfolderInstant, Filter
  <2>6. task \in Task
    BY <2>1, <2>2, <2>3 DEF Task
  <2>7. Begin(task)
    BY <1>8 DEF NavigateToSubfolderInstant
  <2>4. tasks' \in [Numbers -> Task] /\ current' \in 0..MaxTasks /\ layoutLoading' \in BOOLEAN
    BY <2>6, <2>7, BeginTyped
  <2>8. {shown, rooted, initializing, layoutLoading, unsettled}' \subseteq BOOLEAN
    BY <1>8, <2>4 DEF NavigateToSubfolderInstant, StreamingTypeOK, Doubtful
  <2>9. QED
    BY <1>8, <2>8, <2>4, <2>5 DEF NavigateToSubfolderInstant, StreamingTypeOK
<1>9. ASSUME NEW n \in Numbers, ListAnswered(n)
      PROVE  StreamingTypeOK'
  <2>1. /\ tasks' \in [Numbers -> Task] /\ initializing' \in BOOLEAN
        /\ slot' \subseteq {"rows", "grid", "error"} /\ gridView' \in Card \cup {NoGrid}
        /\ categoriesData' \in SUBSET Card /\ layoutLoading' \in BOOLEAN /\ unsettled' \in BOOLEAN
    <3>1. CASE current # n
      <4>1. /\ Return(n)
            /\ UNCHANGED <<categoriesData, slot, gridView, layoutLoading, unsettled, upsets>>
        BY <1>9, <3>1 DEF ListAnswered
      <4> QED
        BY <4>1, ReturnTyped DEF StreamingTypeOK
    <3>2. CASE ListFails(n)
      <4>1. tasks' \in [Numbers -> Task] /\ initializing' \in BOOLEAN
        BY <3>2, ReturnTyped DEF ListFails
      <4>2. layoutLoading' \in BOOLEAN /\ unsettled' \in BOOLEAN
        BY <3>2 DEF ListFails
      <4> QED
        BY <3>2, <4>1, <4>2 DEF ListFails, StreamingTypeOK
    <3>3. CASE ListCame(n)
      <4>1. tasks[n] \in Task /\ Listed(tasks[n].asked) \in SUBSET Categories
        BY DEF StreamingTypeOK, Listed
      <4>2. categoriesData' \in SUBSET Card
        <5>1. \A c \in Listed(tasks[n].asked) : CardOf(filters, c) \in Card
          BY <4>1, CardTyped DEF StreamingTypeOK
        <5> QED
          BY <3>3, <5>1 DEF ListCame
      <4>3. tasks' \in [Numbers -> Task]
        <5>1. CASE "secondary" \in tasks[n].how
          <6>1. tasks' = [tasks EXCEPT ![n].at = "secondary"]
            BY <3>3, <5>1 DEF ListCame
          <6>2. [tasks[n] EXCEPT !.at = "secondary"] \in Task
            BY <4>1 DEF Task
          <6> QED
            BY <6>1, <6>2 DEF StreamingTypeOK
        <5>2. CASE "secondary" \notin tasks[n].how
          BY <3>3, <4>1, <5>2, AwaitTyped DEF ListCame
        <5> QED
          BY <5>1, <5>2
      <4>4. slot' \subseteq {"rows", "grid", "error"} /\ gridView' \in Card \cup {NoGrid}
        BY <3>3, MountTyped DEF ListCame, StreamingTypeOK
      <4> QED
        BY <3>3, <4>2, <4>3, <4>4 DEF ListCame, StreamingTypeOK
    <3> QED
      BY <1>9, <3>1, <3>2, <3>3 DEF ListAnswered
  <2>8. {shown, rooted, initializing, layoutLoading, unsettled}' \subseteq BOOLEAN
    BY <1>9, <2>1 DEF ListAnswered, StreamingTypeOK
  <2>9. QED
    BY <1>9, <2>1, <2>8 DEF ListAnswered, StreamingTypeOK
<1>10. ASSUME NEW n \in Numbers, SecondaryEnded(n)
      PROVE  StreamingTypeOK'
  <2>1. tasks' \in [Numbers -> Task] /\ initializing' \in BOOLEAN
    <3>1. CASE current # n
      BY <1>10, <3>1, ReturnTyped DEF SecondaryEnded
    <3>2. CASE current = n
      <4>1. AwaitMedia(n, IdsOf(categoriesData)) /\ UNCHANGED initializing
        BY <1>10, <3>2 DEF SecondaryEnded
      <4>2. IdsOf(categoriesData) \in SUBSET Categories
        BY DEF StreamingTypeOK, IdsOf, Card
      <4> QED
        BY <4>1, <4>2, AwaitTyped DEF StreamingTypeOK
    <3> QED
      BY <3>1, <3>2
  <2>8. {shown, rooted, initializing, layoutLoading, unsettled}' \subseteq BOOLEAN
    BY <1>10, <2>1 DEF SecondaryEnded, StreamingTypeOK
  <2>9. QED
    BY <1>10, <2>1, <2>8 DEF SecondaryEnded, StreamingTypeOK
<1>11. ASSUME NEW n \in Numbers, MediaAnswered(n)
      PROVE  StreamingTypeOK'
  <2>1. tasks' \in [Numbers -> Task] /\ initializing' \in BOOLEAN
    BY <1>11, ReturnTyped DEF MediaAnswered
  <2>2. /\ slot' \subseteq {"rows", "grid", "error"} /\ gridView' \in Card \cup {NoGrid}
        /\ categoriesData' \in SUBSET Card /\ pageBar' \in 0..MaxPage
        /\ transitions' \in Seq(Transition)
        /\ layoutLoading' \in BOOLEAN /\ unsettled' \in BOOLEAN
    <3>1. CASE current # n
      BY <1>11, <3>1 DEF MediaAnswered, StreamingTypeOK
    <3>2. CASE current = n
      <4> DEFINE b(came) == FetchCategoryMediaBatch(tasks[n].asked, came)
      <4>1. PICK came \in SUBSET tasks[n].ids :
              /\ categoriesData' = Updated(categoriesData, b(came))
              /\ IF came = tasks[n].ids THEN UNCHANGED <<unsettled, upsets>>
                 ELSE RequestUpset /\ unsettled' = TRUE
        BY <1>11, <3>2 DEF MediaAnswered
      <4>2. categoriesData' \in SUBSET Card
        <5>1. tasks[n].asked \in Filter /\ came \in SUBSET Categories
          BY <4>1 DEF StreamingTypeOK, Task
        <5>2. \A c \in came : CardOf(tasks[n].asked, c) \in Card
          BY <5>1, CardTyped
        <5>3. b(came) \in SUBSET Card
          BY <5>2 DEF FetchCategoryMediaBatch
        <5> QED
          BY <4>1, <5>3, UpdatedTyped DEF StreamingTypeOK
      <4>3. layoutLoading' \in BOOLEAN /\ unsettled' \in BOOLEAN
        BY <1>11, <3>2, <4>1 DEF MediaAnswered, StreamingTypeOK
      <4>4. ShowGrid(categoriesData') \/ ShowRows
        BY <1>11, <3>2 DEF MediaAnswered
      <4>5. CASE ShowGrid(categoriesData')
        <5>1. PICK c \in categoriesData' : transitions' = Append(transitions, [by |-> "load", shows |-> c])
          BY <4>5 DEF ShowGrid
        <5>2. [by |-> "load", shows |-> c] \in Transition
          BY <4>2, <5>1 DEF Transition
        <5> QED
          BY <4>2, <4>3, <4>5, <5>1, <5>2 DEF ShowGrid, StreamingTypeOK
      <4>6. CASE ShowRows
        <5>1. slot' \subseteq {"rows", "grid", "error"} /\ gridView' \in Card \cup {NoGrid}
          BY <4>6, MountTyped DEF ShowRows, StreamingTypeOK
        <5>2. pageBar' \in 0..MaxPage
          BY <4>6 DEF ShowRows, StreamingTypeOK, HomePlaces
        <5> QED
          BY <4>2, <4>3, <4>6, <5>1, <5>2 DEF ShowRows, StreamingTypeOK
      <4> QED
        BY <4>4, <4>5, <4>6
    <3> QED
      BY <3>1, <3>2
  <2>8. {shown, rooted, initializing, layoutLoading, unsettled}' \subseteq BOOLEAN
    BY <1>11, <2>1, <2>2 DEF MediaAnswered, StreamingTypeOK
  <2>9. QED
    BY <1>11, <2>1, <2>2, <2>8 DEF MediaAnswered, StreamingTypeOK
<1>12. ASSUME NEW n \in Numbers, FolderAnswered(n)
      PROVE  StreamingTypeOK'
  <2>1. tasks' \in [Numbers -> Task] /\ initializing' \in BOOLEAN
    BY <1>12, ReturnTyped DEF FolderAnswered
  <2>2. /\ categoriesData' \in SUBSET Card /\ transitions' \in Seq(Transition)
        /\ layoutLoading' \in BOOLEAN /\ unsettled' \in BOOLEAN
    <3>1. CASE current # n
      BY <1>12, <3>1 DEF FolderAnswered, StreamingTypeOK
    <3>2. CASE FolderCame(n)
      <4> DEFINE t == tasks[n]
                 s(card) == [by |-> "folder", to |-> [t.asked EXCEPT !.media = AllTypes], shows |-> card,
                             kept |-> t.kept]
      <4>1. PICK c \in t.ids : \E card \in FetchCategoryMedia(t.asked, c) :
              /\ IF card.view = NoViewKey THEN RequestUpset /\ unsettled' = TRUE
                 ELSE UNCHANGED <<upsets, unsettled>>
              /\ categoriesData' = Updated(categoriesData, {card})
              /\ transitions' = Append(transitions, s(card))
        BY <3>2 DEF FolderCame
      <4>9. PICK card \in FetchCategoryMedia(t.asked, c) :
              /\ IF card.view = NoViewKey THEN RequestUpset /\ unsettled' = TRUE
                 ELSE UNCHANGED <<upsets, unsettled>>
              /\ categoriesData' = Updated(categoriesData, {card})
              /\ transitions' = Append(transitions, s(card))
        BY <4>1
      <4>2. t \in Task
        BY DEF StreamingTypeOK
      <4>3. t.asked \in Filter /\ c \in Categories /\ t.kept \in SUBSET Card
        BY <4>1, <4>2 DEF Task
      <4>4. card \in Card
        BY <4>9, <4>3, CardTyped DEF FetchCategoryMedia, Card
      <4>5. s(card) \in Transition
        BY <4>3, <4>4 DEF Transition, Filter
      <4>6. layoutLoading' \in BOOLEAN /\ unsettled' \in BOOLEAN
        BY <3>2, <4>9 DEF FolderCame, StreamingTypeOK
      <4>7. categoriesData' \in SUBSET Card
        BY <4>9, <4>4, UpdatedTyped DEF StreamingTypeOK
      <4>8. transitions' \in Seq(Transition)
        <5>1. transitions \in Seq(Transition)
          BY DEF StreamingTypeOK
        <5>2. transitions' = Append(transitions, s(card))
          BY <4>9
        <5> HIDE DEF s
        <5> QED
          BY <5>1, <5>2, <4>5
      <4> QED
        BY <4>6, <4>7, <4>8
    <3> QED
      BY <1>12, <3>1, <3>2 DEF FolderAnswered
  <2>8. {shown, rooted, initializing, layoutLoading, unsettled}' \subseteq BOOLEAN
    BY <1>12, <2>1, <2>2 DEF FolderAnswered, StreamingTypeOK
  <2>9. QED
    BY <1>12, <2>1, <2>2, <2>8 DEF FolderAnswered, StreamingTypeOK
<1>13. ASSUME TransitionRuns
      PROVE  StreamingTypeOK'
  <2> DEFINE s == Head(transitions)
  <2>1. s \in Transition /\ transitions' \in Seq(Transition)
    BY <1>13 DEF TransitionRuns, StreamingTypeOK
  <2>2. s.shows \in Card /\ (s.by = "folder" => s.to \in Filter /\ s.kept \in SUBSET Card)
    BY <2>1 DEF Transition
  <2>3. slot' \subseteq {"rows", "grid", "error"} /\ gridView' \in Card \cup {NoGrid}
    BY <1>13, <2>2, MountTyped DEF TransitionRuns, StreamingTypeOK
  <2>4. filters' \in Filter /\ categoriesData' \in SUBSET Card /\ pageBar' \in 0..MaxPage
    BY <1>13, <2>2 DEF TransitionRuns, StreamingTypeOK
  <2>8. {shown, rooted, initializing, layoutLoading, unsettled}' \subseteq BOOLEAN
    BY <1>13 DEF TransitionRuns, StreamingTypeOK
  <2>9. QED
    BY <1>13, <2>1, <2>3, <2>4, <2>8 DEF TransitionRuns, StreamingTypeOK
<1>14. ASSUME NEW c \in Categories, IndexUpdated(c)
      PROVE  StreamingTypeOK'
  <2>1. indexAsks' \subseteq IndexAsk
    <3>1. (Cardinality(categoriesData) = 1) \in BOOLEAN
      OBVIOUS
    <3>2. [id |-> c, filters |-> filters, one |-> Cardinality(categoriesData) = 1] \in IndexAsk
      BY <3>1 DEF StreamingTypeOK, IndexAsk
    <3> QED
      BY <1>14, <3>2 DEF IndexUpdated, StreamingTypeOK
  <2>8. {shown, rooted, initializing, layoutLoading, unsettled}' \subseteq BOOLEAN
    BY <1>14 DEF IndexUpdated, StreamingTypeOK
  <2>9. QED
    BY <1>14, <2>1, <2>8 DEF IndexUpdated, StreamingTypeOK
<1>15. ASSUME NEW a \in indexAsks, RefreshIndexedCategorySurface(a)
      PROVE  StreamingTypeOK'
  <2>1. /\ slot' \subseteq {"rows", "grid", "error"} /\ gridView' \in Card \cup {NoGrid}
        /\ categoriesData' \in SUBSET Card /\ unsettled' \in BOOLEAN
    <3>1. CASE ~shown
      BY <1>15, <3>1 DEF RefreshIndexedCategorySurface, StreamingTypeOK
    <3>2. CASE shown
      <4>1. a.filters \in Filter /\ a.id \in Categories
        BY DEF StreamingTypeOK, IndexAsk
      <4>2. PICK card \in FetchCategoryMedia(a.filters, a.id) :
              /\ categoriesData' = Updated(categoriesData, {card})
              /\ IF gridView # NoGrid /\ a.one THEN MountGrid(card) ELSE UNCHANGED <<gridView, slot>>
              /\ unsettled' = \/ unsettled
                              \/ card.view = NoViewKey
                              \/ /\ a.id \notin Listed(filters) \/ card # CardOf(filters, a.id)
                                 /\ ~Working({"list"})
        BY <1>15, <3>2 DEF RefreshIndexedCategorySurface
      <4>3. card \in Card
        BY <4>1, <4>2, CardTyped DEF FetchCategoryMedia, Card
      <4>4. unsettled' \in BOOLEAN
        BY <4>2
      <4>5. categoriesData' \in SUBSET Card
        BY <4>2, <4>3, UpdatedTyped DEF StreamingTypeOK
      <4> QED
        BY <4>2, <4>3, <4>4, <4>5, MountTyped DEF StreamingTypeOK
    <3> QED
      BY <3>1, <3>2
  <2>8. {shown, rooted, initializing, layoutLoading, unsettled}' \subseteq BOOLEAN
    BY <1>15, <2>1 DEF RefreshIndexedCategorySurface, StreamingTypeOK
  <2>9. QED
    BY <1>15, <2>1, <2>8 DEF RefreshIndexedCategorySurface, StreamingTypeOK
<1>16. ASSUME UNCHANGED streamingVars
      PROVE  StreamingTypeOK'
  BY <1>16 DEF streamingVars, StreamingTypeOK
<1> QED
  BY <1>1, <1>2, <1>3, <1>4, <1>5, <1>6, <1>7, <1>8, <1>9, <1>10, <1>11, <1>12, <1>13, <1>14,
     <1>15, <1>16 DEF StreamingNext

CardsOf(f) == {CardOf(f, c) : c \in Listed(f)}

(* The slot holds the grid when there is one, and nothing before the layout is *)
(* mounted.                                                                  *)
GridInSlot ==
    /\ gridView = NoGrid => "grid" \notin slot
    /\ gridView # NoGrid /\ "error" \notin slot => slot = {"grid"}
    /\ ~rooted => slot = {} /\ gridView = NoGrid
    /\ ~shown => ~rooted

(* What is under way for the task whose controller it is: a load for the     *)
(* filters chosen last, which has their cards once the list came; or the way *)
(* into the folder chosen last.                                              *)
LoadGoesOn ==
    LET t == tasks[current] IN
    /\ t.at \in {"list", "secondary", "media"}
    /\ transitions = <<>> /\ filters = wanted /\ t.asked = filters
    /\ t.at \in {"secondary", "media"} => categoriesData = CardsOf(filters)
    /\ t.at = "media" => t.ids = Listed(filters)

FolderGoesOn ==
    LET t == tasks[current] IN
    /\ t.at = "folder"
    /\ transitions = <<>> /\ t.asked = wanted
    /\ wanted.place \in Folders /\ wanted.media = AllTypes /\ t.ids = {CategoryOf[wanted.place]}

(* Afterwards its result is shown, or one swap waits to show it.             *)
RowsShown == slot = {"rows"} /\ gridView = NoGrid /\ categoriesData = CardsOf(filters)
GridShown == slot = {"grid"} /\ SingleView(filters) /\ {gridView} = CardsOf(filters)
SwapWaits(s) ==
    /\ SingleView(wanted) /\ {s.shows} = CardsOf(wanted)
    /\ IF s.by = "load" THEN filters = wanted ELSE s.to = wanted
TaskEnded ==
    /\ tasks[current].at = "done" /\ ~layoutLoading
    /\ \/ transitions = <<>> /\ filters = wanted /\ (RowsShown \/ GridShown)
       \/ \E s \in Transition : transitions = <<s>> /\ SwapWaits(s)

Follows ==
    shown /\ ~unsettled =>
        /\ current # 0 /\ rooted /\ "error" \notin slot
        /\ LoadGoesOn \/ FolderGoesOn \/ TaskEnded
LayoutInv == StreamingTypeOK /\ GridInSlot /\ Follows

-----------------------------------------------------------------------------
LEMMA CardsKept ==
    ASSUME NEW f \in Filter
    PROVE  /\ Listed(f) \in SUBSET Categories
           /\ CardsOf(f) \in SUBSET Card
           /\ IdsOf(CardsOf(f)) = Listed(f)
           /\ \A c \in Listed(f) : Updated(CardsOf(f), {CardOf(f, c)}) = CardsOf(f)
           /\ Updated(CardsOf(f), FetchCategoryMediaBatch(f, Listed(f))) = CardsOf(f)
<1>1. Listed(f) \in SUBSET Categories
  BY DEF Listed
<1>2. \A c \in Listed(f) : CardOf(f, c) \in Card /\ CardOf(f, c).id = c
  BY <1>1, CardTyped, CardHasView
<1> HIDE DEF CardOf
<1> QED
  BY <1>1, <1>2 DEF CardsOf, IdsOf, Updated, FetchCategoryMediaBatch

LEMMA FolderCards ==
    ASSUME NEW f \in Filter, f.place \in Folders
    PROVE  CardsOf(f) = {CardOf(f, CategoryOf[f.place])} /\ SingleView(f)
<1>1. /\ CategoryOf[f.place] \in Categories
      /\ f.place \notin Categories \cup Parents \cup 1..MaxPage \cup 1..Len(OnPage)
  BY StreamingAssumption
<1>2. Listed(f) = {CategoryOf[f.place]}
  BY <1>1 DEF Listed, TotalPages
<1> QED
  BY <1>2 DEF CardsOf, SingleView

LEMMA LoadBegun ==
    ASSUME StreamingTypeOK, NEW how, LoadAndRenderRows(how)
    PROVE  current' \in Numbers /\ tasks'[current'].at = "list" /\ tasks'[current'].asked = filters'
<1>1. PICK joined \in Joins(how) :
        Begin([at |-> "list", asked |-> filters', ids |-> {}, kept |-> {},
               how |-> how \cup joined \cup IF SingleView(filters') THEN {"single"} ELSE {}])
  BY DEF LoadAndRenderRows
<1> QED
  BY <1>1 DEF Begin, StreamingTypeOK

LEMMA FreshLoad ==
    ASSUME StreamingTypeOK, NEW how, LoadAndRenderRows(how), UNCHANGED transitions,
           ~unsettled' => "error" \notin slot' /\ rooted' /\ transitions = <<>> /\ filters' = wanted'
    PROVE  Follows'
<1>1. current' # 0
  BY LoadBegun, LayoutBounds
<1>2. ASSUME ~unsettled' PROVE LoadGoesOn'
  BY <1>2, LoadBegun DEF LoadGoesOn
<1> QED
  BY <1>1, <1>2 DEF Follows

LEMMA GridMounted ==
    ASSUME StreamingTypeOK, GridInSlot, UNCHANGED <<shown, rooted>>
    PROVE  /\ UnmountGrid => GridInSlot'
           /\ MountRows /\ rooted => GridInSlot'
           /\ \A card \in Card : MountGrid(card) /\ rooted => GridInSlot'
<1>1. NoGrid \notin Card
  BY NoGridAssumption
<1> QED
  BY <1>1 DEF StreamingTypeOK, GridInSlot, UnmountGrid, MountRows, MountGrid

(* What a task that lost its controller does changes nothing that counts.    *)
LEMMA OthersReturn ==
    ASSUME StreamingTypeOK, Follows, NEW n \in Numbers, current # n, Return(n),
           UNCHANGED <<shown, rooted, filters, wanted, categoriesData, slot, gridView, current,
                       layoutLoading, transitions, unsettled>>
    PROVE  Follows'
<1> SUFFICES ASSUME shown, ~unsettled
             PROVE  Follows'
  BY DEF Follows
<1>1. current \in Numbers /\ tasks'[current] = tasks[current]
  BY LayoutBounds DEF StreamingTypeOK, Return, Follows
<1>2. LoadGoesOn => LoadGoesOn'
  BY <1>1 DEF LoadGoesOn
<1>3. FolderGoesOn => FolderGoesOn'
  BY <1>1 DEF FolderGoesOn
<1>4. TaskEnded => TaskEnded'
  BY <1>1 DEF TaskEnded, RowsShown, GridShown, SwapWaits
<1> QED
  BY <1>2, <1>3, <1>4 DEF Follows

LEMMA GridNext == StreamingTypeOK /\ GridInSlot /\ [StreamingNext]_streamingVars => GridInSlot'
<1> SUFFICES ASSUME StreamingTypeOK, GridInSlot, [StreamingNext]_streamingVars PROVE GridInSlot'
  OBVIOUS
<1>1. ASSUME EnterLayout
      PROVE  GridInSlot'
  BY <1>1 DEF EnterLayout, GridInSlot
<1>2. ASSUME LeaveLayout
      PROVE  GridInSlot'
  BY <1>2 DEF LeaveLayout, GridInSlot
<1>3. ASSUME NEW m \in MediaTypes, ChooseType(m)
      PROVE  GridInSlot'
  BY <1>3 DEF ChooseType, GridInSlot
<1>4. ASSUME NEW p \in {1} \cup Categories \cup Parents, ChoosePlace(p)
      PROVE  GridInSlot'
  BY <1>4, GridMounted DEF ChoosePlace
<1>5. ASSUME NEW p \in HomePlaces, ChoosePage(p)
      PROVE  GridInSlot'
  BY <1>5 DEF ChoosePage, GridInSlot
<1>6. ASSUME NEW how \in {{"secondary"}, {"secondary", "bypass"}}, LoadAgain(how)
      PROVE  GridInSlot'
  BY <1>6 DEF LoadAgain, GridInSlot
<1>7. ASSUME NEW list \in BOOLEAN, NEW force \in BOOLEAN, RefreshStreaming(list, force)
      PROVE  GridInSlot'
  BY <1>7 DEF RefreshStreaming, GridInSlot
<1>8. ASSUME NEW f \in Folders, NavigateToSubfolderInstant(f)
      PROVE  GridInSlot'
  BY <1>8 DEF NavigateToSubfolderInstant, GridInSlot
<1>9. ASSUME NEW n \in Numbers, ListAnswered(n)
      PROVE  GridInSlot'
  <2>1. UNCHANGED <<shown, rooted>>
    BY <1>9 DEF ListAnswered
  <2>2. CASE UNCHANGED <<slot, gridView>>
    BY <2>1, <2>2 DEF GridInSlot
  <2>3. CASE ListFails(n)
    BY <2>1, <2>3 DEF ListFails, GridInSlot
  <2>4. CASE MountRows /\ rooted
    BY <2>1, <2>4, GridMounted
  <2> QED
    BY <1>9, <2>2, <2>3, <2>4 DEF ListAnswered, ListCame
<1>10. ASSUME NEW n \in Numbers, SecondaryEnded(n)
      PROVE  GridInSlot'
  BY <1>10 DEF SecondaryEnded, GridInSlot
<1>11. ASSUME NEW n \in Numbers, MediaAnswered(n)
      PROVE  GridInSlot'
  <2>1. UNCHANGED <<shown, rooted>>
    BY <1>11 DEF MediaAnswered
  <2>2. CASE UNCHANGED <<slot, gridView>>
    BY <2>1, <2>2 DEF GridInSlot
  <2>3. CASE MountRows /\ rooted
    BY <2>1, <2>3, GridMounted
  <2> QED
    BY <1>11, <2>2, <2>3 DEF MediaAnswered, ShowGrid, ShowRows
<1>12. ASSUME NEW n \in Numbers, FolderAnswered(n)
      PROVE  GridInSlot'
  BY <1>12 DEF FolderAnswered, GridInSlot
<1>13. ASSUME TransitionRuns
      PROVE  GridInSlot'
  <2>1. UNCHANGED <<shown, rooted>>
    BY <1>13 DEF TransitionRuns
  <2>2. CASE rooted
    <3>1. MountGrid(Head(transitions).shows)
      BY <1>13, <2>2 DEF TransitionRuns
    <3>2. Head(transitions) \in Transition
      BY <1>13 DEF TransitionRuns, StreamingTypeOK
    <3>3. Head(transitions).shows \in Card
      BY <3>2 DEF Transition
    <3> QED
      BY <2>1, <2>2, <3>1, <3>3, GridMounted
  <2>3. CASE ~rooted
    <3>1. UNCHANGED <<slot, gridView>>
      BY <1>13, <2>3 DEF TransitionRuns
    <3> QED
      BY <2>1, <3>1 DEF GridInSlot
  <2> QED
    BY <2>2, <2>3
<1>14. ASSUME NEW c \in Categories, IndexUpdated(c)
      PROVE  GridInSlot'
  BY <1>14 DEF IndexUpdated, GridInSlot
<1>15. ASSUME NEW a \in indexAsks, RefreshIndexedCategorySurface(a)
      PROVE  GridInSlot'
  <2>1. UNCHANGED <<shown, rooted>>
    BY <1>15 DEF RefreshIndexedCategorySurface
  <2>2. CASE UNCHANGED <<slot, gridView>>
    BY <2>1, <2>2 DEF GridInSlot
  <2>3. ASSUME NEW card \in FetchCategoryMedia(a.filters, a.id), gridView # NoGrid, MountGrid(card)
        PROVE  GridInSlot'
    <3>1. a.filters \in Filter /\ a.id \in Categories
      BY DEF StreamingTypeOK, IndexAsk
    <3>2. card \in Card
      BY <2>3, <3>1, CardTyped DEF FetchCategoryMedia, Card
    <3>3. rooted
      BY <2>3 DEF GridInSlot
    <3> QED
      BY <2>1, <2>3, <3>2, <3>3, GridMounted
  <2> QED
    BY <1>15, <2>2, <2>3 DEF RefreshIndexedCategorySurface
<1>16. ASSUME UNCHANGED streamingVars
      PROVE  GridInSlot'
  BY <1>16 DEF streamingVars, GridInSlot
<1> QED
  BY <1>1, <1>2, <1>3, <1>4, <1>5, <1>6, <1>7, <1>8, <1>9, <1>10, <1>11, <1>12, <1>13, <1>14,
     <1>15, <1>16 DEF StreamingNext

(* An index update that is answered for the filters there are brings what is *)
(* shown, or what the load that goes on asked for.                           *)
LEMMA IndexKeeps ==
    ASSUME LayoutInv, NEW a \in indexAsks, RefreshIndexedCategorySurface(a)
    PROVE  Follows'
<1> SUFFICES ASSUME shown', ~unsettled'
             PROVE  Follows'
  BY DEF Follows
<1>1. shown /\ UNCHANGED <<shown, rooted, filters, wanted, tasks, current, layoutLoading, transitions>>
  BY DEF RefreshIndexedCategorySurface
<1>2. PICK card \in FetchCategoryMedia(a.filters, a.id) :
        /\ categoriesData' = Updated(categoriesData, {card})
        /\ IF gridView # NoGrid /\ a.one THEN MountGrid(card) ELSE UNCHANGED <<gridView, slot>>
        /\ unsettled' = \/ unsettled
                        \/ card.view = NoViewKey
                        \/ /\ a.id \notin Listed(filters) \/ card # CardOf(filters, a.id)
                           /\ ~Working({"list"})
  BY <1>1 DEF RefreshIndexedCategorySurface
<1>3. ~unsettled
  BY <1>2
<1>4. Working({"list"}) \/ (a.id \in Listed(filters) /\ card = CardOf(filters, a.id))
  BY <1>2
<1>5. current # 0 /\ rooted /\ "error" \notin slot /\ (LoadGoesOn \/ FolderGoesOn \/ TaskEnded)
  BY <1>1, <1>3 DEF LayoutInv, Follows
<1>6. "error" \notin slot'
  BY <1>2, <1>5 DEF MountGrid
<1>7. CASE LoadGoesOn
  <2>1. tasks[current].at \in {"secondary", "media"} => categoriesData' = CardsOf(filters)
    <3>1. SUFFICES ASSUME tasks[current].at \in {"secondary", "media"}
                   PROVE  categoriesData' = CardsOf(filters)
      OBVIOUS
    <3>2. ~Working({"list"})
      BY <3>1 DEF Working
    <3>3. filters \in Filter
      BY DEF LayoutInv, StreamingTypeOK
    <3>4. categoriesData = CardsOf(filters)
      BY <1>7, <3>1 DEF LoadGoesOn
    <3> QED
      BY <1>2, <1>4, <3>2, <3>3, <3>4, CardsKept
  <2> QED
    BY <1>1, <1>5, <1>6, <1>7, <2>1 DEF LoadGoesOn, Follows
<1>8. CASE FolderGoesOn
  BY <1>1, <1>5, <1>6, <1>8 DEF FolderGoesOn, Follows
<1>9. CASE TaskEnded
  <2>1. a.id \in Listed(filters) /\ card = CardOf(filters, a.id)
    BY <1>4, <1>9 DEF Working, TaskEnded
  <2>2. filters \in Filter
    BY DEF LayoutInv, StreamingTypeOK
  <2>3. RowsShown => RowsShown'
    BY <1>1, <1>2, <2>1, <2>2, CardsKept DEF RowsShown
  <2>4. GridShown => GridShown'
    <3>1. SUFFICES ASSUME GridShown
                   PROVE  GridShown'
      OBVIOUS
    <3>2. card = gridView
      BY <2>1, <3>1 DEF GridShown, CardsOf
    <3>3. gridView' = gridView /\ slot' = slot
      BY <1>2, <3>1, <3>2 DEF MountGrid, GridShown
    <3> QED
      BY <1>1, <3>1, <3>3 DEF GridShown
  <2> QED
    BY <1>1, <1>5, <1>6, <1>9, <2>3, <2>4 DEF TaskEnded, SwapWaits, Follows
<1> QED
  BY <1>5, <1>7, <1>8, <1>9

LEMMA ListKeeps ==
    ASSUME LayoutInv, NEW n \in Numbers, ListAnswered(n)
    PROVE  Follows'
<1>1. CASE current # n
  BY <1>1, OthersReturn DEF LayoutInv, ListAnswered
<1>2. CASE ListFails(n)
  BY <1>2 DEF ListFails, Follows
<1>3. CASE current = n /\ ListCame(n)
  <2> SUFFICES ASSUME shown', ~unsettled'
               PROVE  Follows'
    BY DEF Follows
  <2>1. shown /\ ~unsettled /\ UNCHANGED <<shown, rooted, filters, wanted, current, transitions>>
    BY <1>3 DEF ListAnswered, ListCame
  <2>2. tasks[n].at = "list" /\ rooted /\ "error" \notin slot /\ current # 0 /\ LoadGoesOn
    BY <1>3, <2>1 DEF ListAnswered, LayoutInv, Follows, FolderGoesOn, TaskEnded
  <2>3. "error" \notin slot'
    BY <1>3, <2>2 DEF ListCame, MountRows
  <2>4. tasks[n].asked = filters /\ filters = wanted /\ transitions = <<>>
    BY <1>3, <2>2 DEF LoadGoesOn
  <2>5. categoriesData' = CardsOf(filters)
    BY <1>3, <2>4 DEF ListCame, CardsOf
  <2>6. /\ tasks'[n].at \in {"secondary", "media"} /\ tasks'[n].asked = filters
        /\ tasks'[n].at = "media" => tasks'[n].ids = Listed(filters)
    BY <1>3, <2>4 DEF ListCame, AwaitMedia, LayoutInv, StreamingTypeOK, Task
  <2>7. LoadGoesOn'
    BY <1>3, <2>1, <2>4, <2>5, <2>6 DEF LoadGoesOn, CardsOf, CardOf, Listed
  <2> QED
    BY <2>1, <2>2, <2>3, <2>7 DEF Follows
<1> QED
  BY <1>1, <1>2, <1>3 DEF ListAnswered

LEMMA SecondaryKeeps ==
    ASSUME LayoutInv, NEW n \in Numbers, SecondaryEnded(n)
    PROVE  Follows'
<1>1. CASE current # n
  BY <1>1, OthersReturn DEF LayoutInv, SecondaryEnded
<1>2. CASE current = n
  <2> SUFFICES ASSUME shown', ~unsettled'
               PROVE  Follows'
    BY DEF Follows
  <2>1. /\ shown /\ ~unsettled
        /\ UNCHANGED <<shown, rooted, filters, wanted, categoriesData, slot, current, transitions>>
    BY DEF SecondaryEnded
  <2>2. tasks[n].at = "secondary" /\ rooted /\ "error" \notin slot /\ current # 0 /\ LoadGoesOn
    BY <1>2, <2>1 DEF SecondaryEnded, LayoutInv, Follows, FolderGoesOn, TaskEnded
  <2>3. categoriesData = CardsOf(filters) /\ filters \in Filter
    BY <1>2, <2>2 DEF LoadGoesOn, LayoutInv, StreamingTypeOK
  <2>4. IdsOf(categoriesData) = Listed(filters)
    BY <2>3, CardsKept
  <2>5. tasks'[n].at = "media" /\ tasks'[n].asked = filters /\ tasks'[n].ids = Listed(filters)
    BY <1>2, <2>4 DEF SecondaryEnded, AwaitMedia, LayoutInv, StreamingTypeOK, Task
  <2>6. LoadGoesOn'
    BY <1>2, <2>1, <2>2, <2>3, <2>5 DEF LoadGoesOn, CardsOf, CardOf, Listed
  <2> QED
    BY <2>1, <2>2, <2>6 DEF Follows
<1> QED
  BY <1>1, <1>2

LEMMA MediaKeeps ==
    ASSUME LayoutInv, NEW n \in Numbers, MediaAnswered(n)
    PROVE  Follows'
<1>1. CASE current # n
  BY <1>1, OthersReturn DEF LayoutInv, MediaAnswered
<1>2. CASE current = n
  <2> SUFFICES ASSUME shown', ~unsettled'
               PROVE  Follows'
    BY DEF Follows
  <2>1. /\ shown /\ UNCHANGED <<shown, rooted, filters, wanted, current>>
        /\ layoutLoading' = FALSE
    BY <1>2 DEF MediaAnswered
  <2>2. PICK came \in SUBSET tasks[n].ids :
          /\ categoriesData' =
                 Updated(categoriesData, FetchCategoryMediaBatch(tasks[n].asked, came))
          /\ IF came = tasks[n].ids THEN UNCHANGED <<unsettled, upsets>>
             ELSE RequestUpset /\ unsettled' = TRUE
    BY <1>2 DEF MediaAnswered
  <2>3. came = tasks[n].ids /\ ~unsettled
    BY <2>2
  <2>4. tasks[n].at = "media" /\ rooted /\ "error" \notin slot /\ current # 0 /\ LoadGoesOn
    BY <1>2, <2>1, <2>3 DEF MediaAnswered, LayoutInv, Follows, FolderGoesOn, TaskEnded
  <2>5. /\ categoriesData = CardsOf(filters) /\ filters \in Filter /\ filters = wanted
        /\ tasks[n].asked = filters /\ tasks[n].ids = Listed(filters) /\ transitions = <<>>
    BY <1>2, <2>4 DEF LoadGoesOn, LayoutInv, StreamingTypeOK
  <2>6. categoriesData' = CardsOf(filters) /\ CardsOf(filters) \in SUBSET Card
    BY <2>2, <2>3, <2>5, CardsKept
  <2>7. tasks'[current'].at = "done"
    BY <1>2, <2>1 DEF MediaAnswered, Return, Spent, LayoutInv, StreamingTypeOK
  <2>8. CardsOf(filters)' = CardsOf(filters)
    BY <2>1 DEF CardsOf, CardOf, Listed
  <2>9. ShowGrid(categoriesData') \/ ShowRows
    BY <1>2 DEF MediaAnswered
  <2>10. CASE ShowGrid(categoriesData')
    <3>1. PICK c \in categoriesData' :
            /\ categoriesData' = {CardOf(filters, c.id)}
            /\ transitions' = Append(transitions, [by |-> "load", shows |-> c])
      BY <2>10 DEF ShowGrid
    <3>2. PICK s : s = [by |-> "load", shows |-> c]
      OBVIOUS
    <3>3. transitions' = <<s>> /\ s \in Transition
      BY <2>5, <2>6, <3>1, <3>2 DEF Transition
    <3>4. {s.shows} = CardsOf(filters) /\ SingleView(filters) /\ UNCHANGED slot
      BY <2>6, <2>10, <3>1, <3>2 DEF ShowGrid
    <3>5. SwapWaits(s)'
      BY <2>1, <2>5, <2>8, <3>2, <3>4 DEF SwapWaits, SingleView, CardsOf, CardOf, Listed
    <3>6. TaskEnded'
      BY <2>1, <2>7, <3>3, <3>5 DEF TaskEnded
    <3> QED
      BY <2>1, <2>4, <3>4, <3>6 DEF Follows
  <2>11. CASE ShowRows
    <3>1. MountRows /\ UNCHANGED transitions
      BY <2>4, <2>11 DEF ShowRows
    <3>2. slot' = {"rows"} /\ gridView' = NoGrid
      BY <2>4, <3>1 DEF MountRows, LayoutInv, GridInSlot, StreamingTypeOK
    <3>3. RowsShown'
      BY <2>6, <2>8, <3>2 DEF RowsShown
    <3>4. TaskEnded'
      BY <2>1, <2>5, <2>7, <3>1, <3>3 DEF TaskEnded
    <3> QED
      BY <2>1, <2>4, <3>2, <3>4 DEF Follows
  <2> QED
    BY <2>9, <2>10, <2>11
<1> QED
  BY <1>1, <1>2

LEMMA FolderKeeps ==
    ASSUME LayoutInv, NEW n \in Numbers, FolderAnswered(n)
    PROVE  Follows'
<1>1. CASE current # n
  BY <1>1, OthersReturn DEF LayoutInv, FolderAnswered, Return
<1>2. CASE current = n
  <2> SUFFICES ASSUME shown', ~unsettled'
               PROVE  Follows'
    BY DEF Follows
  <2> DEFINE t == tasks[n]
             swap(card) == [by |-> "folder", to |-> [t.asked EXCEPT !.media = AllTypes], shows |-> card,
                            kept |-> t.kept]
  <2>1. shown /\ UNCHANGED <<shown, rooted, filters, wanted, slot, gridView, current>>
    BY DEF FolderAnswered
  <2>2. PICK c \in t.ids :
          /\ \E card \in FetchCategoryMedia(t.asked, c) :
               /\ IF card.view = NoViewKey THEN RequestUpset /\ unsettled' = TRUE
                  ELSE UNCHANGED <<upsets, unsettled>>
               /\ categoriesData' = Updated(categoriesData, {card})
               /\ transitions' = Append(transitions, swap(card))
          /\ layoutLoading' = FALSE
    BY <1>2 DEF FolderAnswered, FolderCame
  <2>3. PICK card \in FetchCategoryMedia(t.asked, c) :
          /\ IF card.view = NoViewKey THEN RequestUpset /\ unsettled' = TRUE
             ELSE UNCHANGED <<upsets, unsettled>>
          /\ transitions' = Append(transitions, swap(card))
    BY <2>2
  <2>4. card.view # NoViewKey /\ ~unsettled
    BY <2>3
  <2>5. t.at = "folder" /\ rooted /\ "error" \notin slot /\ current # 0 /\ FolderGoesOn
    BY <1>2, <2>1, <2>4 DEF FolderAnswered, LayoutInv, Follows, LoadGoesOn, TaskEnded
  <2>6. /\ transitions = <<>> /\ t.asked = wanted /\ wanted \in Filter
        /\ wanted.place \in Folders /\ wanted.media = AllTypes
        /\ c = CategoryOf[wanted.place] /\ t.kept \in SUBSET Card
    BY <1>2, <2>2, <2>5 DEF FolderGoesOn, LayoutInv, StreamingTypeOK, Task
  <2>7. card = CardOf(wanted, c) /\ c \in Categories
    BY <2>3, <2>4, <2>6, StreamingAssumption DEF FetchCategoryMedia
  <2>8. PICK s : s = swap(card)
    OBVIOUS
  <2>9. /\ s.by = "folder" /\ s.shows = card /\ s.to = wanted /\ s.kept = t.kept
        /\ s = [by |-> "folder", to |-> wanted, shows |-> card, kept |-> t.kept]
    <3>1. [t.asked EXCEPT !.media = AllTypes] = wanted
      BY <2>6 DEF Filter
    <3> QED
      BY <2>8, <3>1
  <2>10. s \in Transition /\ card \in Card
    BY <2>6, <2>7, <2>9, CardTyped DEF Transition
  <2>11. transitions' = <<s>>
    BY <2>3, <2>6, <2>8
  <2>12. SingleView(wanted) /\ {s.shows} = CardsOf(wanted)
    BY <2>6, <2>7, <2>9, FolderCards
  <2>13. SwapWaits(s)'
    BY <2>1, <2>9, <2>12 DEF SwapWaits, SingleView, CardsOf, CardOf, Listed
  <2>14. tasks'[current'].at = "done"
    BY <1>2, <2>1 DEF FolderAnswered, Return, Spent, LayoutInv, StreamingTypeOK
  <2>15. TaskEnded'
    BY <2>2, <2>10, <2>11, <2>13, <2>14 DEF TaskEnded
  <2> QED
    BY <2>1, <2>5, <2>15 DEF Follows
<1> QED
  BY <1>1, <1>2

LEMMA SwapKeeps ==
    ASSUME LayoutInv, TransitionRuns
    PROVE  Follows'
<1> SUFFICES ASSUME shown', ~unsettled'
             PROVE  Follows'
  BY DEF Follows
<1>1. shown /\ ~unsettled /\ UNCHANGED <<shown, rooted, wanted, tasks, current, layoutLoading>>
  BY DEF TransitionRuns
<1>2. transitions # <<>> /\ rooted /\ "error" \notin slot /\ current # 0
  BY <1>1 DEF TransitionRuns, LayoutInv, Follows
<1>3. PICK s \in Transition : transitions = <<s>> /\ SwapWaits(s)
  BY <1>1, <1>2 DEF LayoutInv, Follows, LoadGoesOn, FolderGoesOn, TaskEnded
<1>4. TaskEnded
  BY <1>1, <1>2 DEF LayoutInv, Follows, LoadGoesOn, FolderGoesOn
<1>5. Head(transitions) = s /\ transitions' = <<>>
  BY <1>3 DEF TransitionRuns
<1>6. MountGrid(s.shows)
  BY <1>2, <1>5 DEF TransitionRuns
<1>7. slot' = {"grid"} /\ gridView' = s.shows
  BY <1>2, <1>6 DEF MountGrid, LayoutInv, GridInSlot, StreamingTypeOK
<1>8. filters' = wanted
  BY <1>3, <1>5 DEF TransitionRuns, SwapWaits, Transition
<1>9. GridShown'
  <2>1. {s.shows} = CardsOf(wanted) /\ SingleView(wanted)
    BY <1>3 DEF SwapWaits
  <2>2. CardsOf(filters)' = CardsOf(wanted) /\ SingleView(filters)'
    BY <1>8, <2>1 DEF CardsOf, CardOf, Listed, SingleView
  <2> QED
    BY <1>7, <2>1, <2>2 DEF GridShown
<1> QED
  BY <1>1, <1>2, <1>4, <1>5, <1>7, <1>8, <1>9 DEF TaskEnded, Follows

LEMMA LayoutInitHolds == StreamingInit => LayoutInv
  BY LayoutTypeInit DEF StreamingInit, LayoutInv, GridInSlot, Follows

LEMMA FollowsNext == LayoutInv /\ [StreamingNext]_streamingVars => Follows'
<1> SUFFICES ASSUME LayoutInv, [StreamingNext]_streamingVars PROVE Follows'
  OBVIOUS
<1>0. StreamingTypeOK /\ filters' \in Filter
  BY LayoutTypeNext DEF LayoutInv, StreamingTypeOK
<1>1. ASSUME EnterLayout
      PROVE  Follows'
  <2>1. CASE initializing
    <3>1. unsettled'
      BY <1>1, <2>1 DEF EnterLayout
    <3> QED
      BY <3>1 DEF Follows
  <2>2. CASE ~initializing
    <3>1. slot' = {}
      BY <1>1 DEF EnterLayout, LayoutInv, GridInSlot
    <3>2. LoadAndRenderRows({"bypass", "secondary", "init"})
      BY <1>1, <2>2 DEF EnterLayout
    <3>3. UNCHANGED transitions
      BY <1>1 DEF EnterLayout
    <3>4. ~unsettled' => "error" \notin slot' /\ rooted' /\ transitions = <<>> /\ filters' = wanted'
      BY <1>1, <2>2, <3>1 DEF EnterLayout
    <3> QED
      BY <1>0, <3>2, <3>3, <3>4, FreshLoad
  <2> QED
    BY <2>1, <2>2
<1>2. ASSUME LeaveLayout
      PROVE  Follows'
  BY <1>2 DEF LeaveLayout, Follows
<1>3. ASSUME NEW m \in MediaTypes, ChooseType(m)
      PROVE  Follows'
  BY <1>0, <1>3, FreshLoad DEF ChooseType, Doubtful
<1>4. ASSUME NEW p \in {1} \cup Categories \cup Parents, ChoosePlace(p)
      PROVE  Follows'
  BY <1>0, <1>4, FreshLoad DEF ChoosePlace, Doubtful
<1>5. ASSUME NEW p \in HomePlaces, ChoosePage(p)
      PROVE  Follows'
  BY <1>0, <1>5, FreshLoad DEF ChoosePage, Doubtful
<1>6. ASSUME NEW how \in {{"secondary"}, {"secondary", "bypass"}}, LoadAgain(how)
      PROVE  Follows'
  BY <1>0, <1>6, FreshLoad DEF LoadAgain, Doubtful
<1>7. ASSUME NEW list \in BOOLEAN, NEW force \in BOOLEAN, RefreshStreaming(list, force)
      PROVE  Follows'
  <2>1. /\ LoadAndRenderRows({"secondary"} \cup IF list \/ force THEN {"bypass"} ELSE {})
        /\ UNCHANGED transitions
        /\ unsettled' = (Doubtful \/ filters' # wanted')
    BY <1>7 DEF RefreshStreaming
  <2>2. ~unsettled' => "error" \notin slot' /\ rooted' /\ transitions = <<>> /\ filters' = wanted'
    BY <2>1 DEF Doubtful
  <2> QED
    BY <1>0, <2>1, <2>2, FreshLoad
<1>8. ASSUME NEW f \in Folders, NavigateToSubfolderInstant(f)
      PROVE  Follows'
  <2> SUFFICES ASSUME ~unsettled', shown'
               PROVE  Follows'
    BY DEF Follows
  <2>1. /\ "error" \notin slot' /\ rooted' /\ transitions = <<>> /\ filters.media = AllTypes
        /\ UNCHANGED transitions /\ wanted' = [place |-> f, media |-> AllTypes]
    BY <1>8 DEF NavigateToSubfolderInstant, Doubtful
  <2>2. /\ current' # 0 /\ tasks'[current'].at = "folder"
        /\ tasks'[current'].asked = [filters EXCEPT !.place = f]
        /\ tasks'[current'].ids = {CategoryOf[f]}
    BY <1>0, <1>8, LayoutBounds DEF NavigateToSubfolderInstant, Begin, StreamingTypeOK
  <2>3. [filters EXCEPT !.place = f] = [place |-> f, media |-> AllTypes]
    BY <1>0, <2>1 DEF StreamingTypeOK, Filter
  <2>4. FolderGoesOn'
    BY <2>1, <2>2, <2>3 DEF FolderGoesOn
  <2> QED
    BY <2>1, <2>2, <2>4 DEF Follows
<1>14. ASSUME NEW c \in Categories, IndexUpdated(c)
      PROVE  Follows'
  BY <1>14 DEF IndexUpdated, LayoutInv, Follows, LoadGoesOn, FolderGoesOn, TaskEnded, RowsShown,
               GridShown, SwapWaits, CardsOf, CardOf, Listed, SingleView
<1>16. ASSUME UNCHANGED streamingVars
      PROVE  Follows'
  BY <1>16 DEF streamingVars, LayoutInv, Follows, LoadGoesOn, FolderGoesOn, TaskEnded, RowsShown,
               GridShown, SwapWaits, CardsOf, CardOf, Listed, SingleView
<1> QED
  BY <1>1, <1>2, <1>3, <1>4, <1>5, <1>6, <1>7, <1>8, <1>14, <1>16, ListKeeps, SecondaryKeeps,
     MediaKeeps, FolderKeeps, SwapKeeps, IndexKeeps DEF StreamingNext

(* The state of the layout, of its tasks and swaps and of the refreshes that *)
(* wait stays well typed.                                                    *)
THEOREM LayoutTyping == StreamingSpec => []StreamingTypeOK
<1>1. StreamingTypeOK /\ [StreamingNext]_streamingVars => StreamingTypeOK'
  BY LayoutTypeNext
<1> QED
  BY <1>1, LayoutTypeInit, PTL DEF StreamingSpec

(* The inductive invariant of the layout: as long as nothing that is         *)
(* excepted has happened, the task whose controller it is works for the      *)
(* filters chosen last, or has ended with its result shown or in the one     *)
(* swap that waits.                                                          *)
THEOREM LayoutKeeps == StreamingSpec => []LayoutInv
<1>1. LayoutInv /\ [StreamingNext]_streamingVars => LayoutInv'
  BY LayoutTypeNext, GridNext, FollowsNext DEF LayoutInv
<1> QED
  BY <1>1, LayoutInitHolds, PTL DEF StreamingSpec

(* However loads, ways into folders, refreshes, swaps and index updates      *)
(* overtake each other, a layout at rest shows what was chosen last.         *)
THEOREM LayoutFollows == StreamingSpec => []LayoutShowsChoice
<1>1. LayoutInv => LayoutShowsChoice
  <2> SUFFICES ASSUME LayoutInv, shown, ~LoadUnderWay, ~FolderUnderWay, transitions = <<>>, ~unsettled
               PROVE  /\ ~layoutLoading /\ filters = wanted
                      /\ RowsShown \/ GridShown
    BY DEF LayoutShowsChoice, RowsShown, GridShown, CardsOf
  <2>1. current # 0 /\ (LoadGoesOn \/ FolderGoesOn \/ TaskEnded)
    BY DEF LayoutInv, Follows
  <2>2. ~LoadGoesOn /\ ~FolderGoesOn
    BY <2>1 DEF LoadGoesOn, FolderGoesOn, LoadUnderWay, FolderUnderWay, Working
  <2> QED
    BY <2>1, <2>2 DEF TaskEnded
<1> QED
  BY <1>1, LayoutKeeps, PTL
=============================================================================
