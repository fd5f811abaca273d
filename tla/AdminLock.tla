------------------------------ MODULE AdminLock ------------------------------
(***************************************************************************)
(* Who is the administrator: the admin lock of session_store.py, the routes *)
(* of admin_controller.py that take and give it back, and the admin checks  *)
(* of auth.py.                                                              *)
(*                                                                          *)
(* The owner is cached in the session store and persisted in               *)
(* admin_lock.json.  While nothing is cached, a request reads the file in a *)
(* pool thread and yields until the answer or a two-second timeout; the     *)
(* other requests run meanwhile.  Everything after the answer is atomic.    *)
(***************************************************************************)
EXTENDS Functions

CONSTANTS Claimants,      \* session_id cookies
          NoAdmin,       \* nobody cached, no lock file
          Unread,        \* a pool thread that has not read the file yet
          MayFail        \* TRUE: a read may time out or hit a half-written file,
                         \* a write or a removal of the file may fail

ASSUME NoAdminAssumption == NoAdmin \notin Claimants
ASSUME UnreadAssumption == Unread \notin Claimants \cup {NoAdmin}
ASSUME SwitchAssumption == MayFail \in BOOLEAN

VARIABLES admin_session_id, \* the store's cached owner
          lock_file,        \* the session_id in admin_lock.json
          reading,          \* by session: its request that waits for the file
          late,             \* history: the waiting requests during which the
                            \* owner was set or became another
          astray            \* history: the file has missed the last change

lockVars == <<admin_session_id, lock_file, reading, late, astray>>

\* A claim without and with the password, a release, and any other request
\* (or socket event) that only asks whether its session is the administrator.
Kinds == {"claim", "reclaim", "release", "check"}
Owner == Claimants \cup {NoAdmin}

LockTypeOK ==
    /\ admin_session_id \in Owner
    /\ lock_file \in Owner
    /\ DOMAIN reading \subseteq Claimants
    /\ reading \in [DOMAIN reading -> [kind: Kinds, value: Owner \cup {Unread}]]
    /\ late \subseteq DOMAIN reading
    /\ astray \in BOOLEAN

Put(f, x, y) == [z \in DOMAIN f \cup {x} |-> IF z = x THEN y ELSE f[z]]
Dropped(f, x) == Restrict(f, DOMAIN f \ {x})

\* A device that starts may find the lock file of its previous run.
LockInit ==
    /\ admin_session_id = NoAdmin
    /\ lock_file \in Owner
    /\ reading = <<>>
    /\ late = {}
    /\ astray = FALSE

-----------------------------------------------------------------------------
(* session_store.py *)

\* A file that cannot be removed or opened is left as it was; one that cannot be
\* written is left empty, and names nobody.  Both are only logged.
set_admin_session_id(s) ==
    /\ admin_session_id' = s
    /\ \/ lock_file' = s /\ astray' = FALSE
       \/ /\ MayFail
          /\ lock_file' = lock_file \/ (s # NoAdmin /\ lock_file' = NoAdmin)
          /\ astray' = TRUE

\* Who is the administrator for the next request that asks.
Holder == IF admin_session_id # NoAdmin THEN admin_session_id ELSE lock_file

\* get_admin_session_id after the read: the answer replaces the cache unless it
\* equals what the request found there, which was nothing.
Refreshed(v) == IF v # NoAdmin THEN v ELSE admin_session_id

refresh(v) ==
    /\ admin_session_id' = Refreshed(v)
    /\ astray' = (astray \/ Refreshed(v) \notin {NoAdmin, lock_file})
    /\ UNCHANGED lock_file

-----------------------------------------------------------------------------
(* What a request does with the owner v it was given. *)

\* claim_admin: another owner is only replaced with the password.
GrantsAnybody(s, kind, v) == kind \in {"claim", "reclaim"}
Grants(s, kind, v) ==
    \/ kind = "claim" /\ v \in {NoAdmin, s}
    \/ kind = "reclaim"

\* release_admin, behind admin_required.
Releases(s, kind, v) == kind = "release" /\ v = s

Sets(s, kind, v) == Grants(s, kind, v) \/ Releases(s, kind, v)

\* The rest of the handler: claim, release, or only the refreshed cache.
Finish(s, kind, v) ==
    CASE Grants(s, kind, v)   -> set_admin_session_id(s)
      [] Releases(s, kind, v) -> set_admin_session_id(NoAdmin)
      [] OTHER                -> refresh(v)

\* The requests that go on waiting have been overtaken if the owner was set or
\* has become another.
Overtake(set) ==
    late' = IF set \/ Holder' # Holder THEN DOMAIN reading' ELSE late \cap DOMAIN reading'

-----------------------------------------------------------------------------
(* Requests. *)

\* An owner is cached: the request never yields.
HandleCached(s, kind) ==
    /\ s \notin DOMAIN reading
    /\ admin_session_id # NoAdmin
    /\ Finish(s, kind, admin_session_id)
    /\ UNCHANGED reading
    /\ Overtake(Sets(s, kind, admin_session_id))

StartReading(s, kind) ==
    /\ s \notin DOMAIN reading
    /\ admin_session_id = NoAdmin
    /\ reading' = Put(reading, s, [kind |-> kind, value |-> Unread])
    /\ UNCHANGED <<admin_session_id, lock_file, late, astray>>

\* _read_admin_lock_file, in the pool thread.
ReadLockFile(s) ==
    /\ s \in DOMAIN reading
    /\ reading[s].value = Unread
    /\ reading' = [reading EXCEPT ![s].value = lock_file]
    /\ UNCHANGED <<admin_session_id, lock_file, late, astray>>

\* _with_io_timeout: no answer in time, or no JSON in the file, is no owner.
ReadFails(s) ==
    /\ MayFail
    /\ s \in DOMAIN reading
    /\ reading[s].value = Unread
    /\ reading' = [reading EXCEPT ![s].value = NoAdmin]
    /\ UNCHANGED <<admin_session_id, lock_file, late, astray>>

Resume(s) ==
    /\ s \in DOMAIN reading
    /\ reading[s].value # Unread
    /\ Finish(s, reading[s].kind, reading[s].value)
    /\ reading' = Dropped(reading, s)
    /\ Overtake(Sets(s, reading[s].kind, reading[s].value))

-----------------------------------------------------------------------------
(* The rest of the program. *)

\* FactoryResetService, when a drive with the sentinel file is mounted.
FactoryReset ==
    /\ set_admin_session_id(NoAdmin)
    /\ UNCHANGED reading
    /\ Overtake(TRUE)

\* configure_admin_lock starts the next run with an empty cache.
Restart ==
    /\ admin_session_id' = NoAdmin
    /\ reading' = <<>>
    /\ late' = {}
    /\ UNCHANGED <<lock_file, astray>>

LockNext ==
    \/ \E s \in Claimants, kind \in Kinds : HandleCached(s, kind)
    \/ \E s \in Claimants, kind \in Kinds : StartReading(s, kind)
    \/ \E s \in Claimants : ReadLockFile(s)
    \/ \E s \in Claimants : ReadFails(s)
    \/ \E s \in Claimants : Resume(s)
    \/ FactoryReset
    \/ Restart

LockSpec == LockInit /\ [][LockNext]_lockVars

-----------------------------------------------------------------------------
(* Properties. *)

\* The request that takes the role in this step.
TakenBy(s, kind) ==
    \/ HandleCached(s, kind)
    \/ s \in DOMAIN reading /\ reading[s].kind = kind /\ Resume(s)

\* "Admin role already claimed by another user.": the owner is replaced by
\* another session only in a claim with the password, before and after restarts.
ReplacedOnlyWithPassword ==
    [][\A s, t \in Claimants :
         lock_file = s /\ lock_file' = t /\ s # t => TakenBy(t, "reclaim")]_lockVars

\* The role changes hands only when its new holder claims it with the password or
\* claims it while it is free, or when the old one releases it or the device is
\* reset; whatever requests wait for the file meanwhile, and whatever is restarted.
\* Excepted are an answer that is overtaken by a change of the owner, a claim that
\* could not read the file, and a role that falls back to the holder the file names
\* because the file has missed a change.
RoleChangesRightly ==
    [][Holder' # Holder =>
         \/ TakenBy(Holder', "reclaim")
         \/ Holder = NoAdmin /\ TakenBy(Holder', "claim")
         \/ Holder' = NoAdmin /\ (FactoryReset \/ TakenBy(Holder, "release"))
         \/ \E s \in late : Resume(s)
         \/ /\ MayFail /\ lock_file # NoAdmin
            /\ \E s \in DOMAIN reading :
                 reading[s] = [kind |-> "claim", value |-> NoAdmin] /\ Resume(s)
         \/ astray /\ Holder' = lock_file]_lockVars

\* The cache names another owner than the file only if the file has missed a
\* change, or an overtaken answer brought an old owner back.
CacheAgreesWithFile == ~astray => admin_session_id \in {NoAdmin, lock_file}

\* What a request that was not overtaken has read is still what the file holds,
\* and so is what others have cached from it.
ReadsAreCurrent ==
    \A s \in DOMAIN reading \ late :
        /\ reading[s].value \in {Unread, NoAdmin, lock_file}
        /\ ~MayFail => reading[s].value \in {Unread, lock_file}
        /\ admin_session_id \in {NoAdmin, lock_file}

LockInv == LockTypeOK /\ CacheAgreesWithFile /\ ReadsAreCurrent
=============================================================================
