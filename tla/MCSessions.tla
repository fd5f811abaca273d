------------------------------ MODULE MCSessions ------------------------------
(***************************************************************************)
(* What the server keeps for each browser of a home, for one run of TLC:   *)
(* the profile a session uses, the administrator's role, the cast on the   *)
(* TV, and the upload tokens of an address; and what a browser keeps of    *)
(* its user's choices, the streaming layout.  These share no state, so in  *)
(* one behaviour only the part the first state chose takes steps, and the  *)
(* states add up instead of multiplying.                                   *)
(***************************************************************************)
EXTENDS ProfileSessions, AdminLock, CastControllers, RateLimiter, Streaming, TLC

CONSTANTS films, shows, saga, folder

VARIABLE part
parts == <<vars, lockVars, castVars, limiterVars, streamingVars, part>>

Symmetric == Permutations(ProfileIds) \cup Permutations(Requests)

\* Two addresses, one of them twice as fast.
ClientRates == <<1, 2>>

\* Two pages of one category each, and a saga that both belong to.
MCCategoryOf == [f \in {folder} |-> films]
MCChildren == [p \in {saga} |-> {films, shows}]
MCOnPage == <<{films}, {shows}>>

SessionsInit ==
    /\ part \in {"profiles", "lock", "casts", "limits", "layout"}
    /\ Init
    /\ LockInit /\ (part = "lock" \/ lock_file = NoAdmin)
    /\ ControllersInit /\ (part = "casts" \/ (casts = 0 /\ ~tv))
    /\ LimiterInit
    /\ StreamingInit

SessionsNext ==
    \/ part = "profiles" /\ Next /\ UNCHANGED <<lockVars, castVars, limiterVars, streamingVars, part>>
    \/ part = "lock" /\ LockNext /\ UNCHANGED <<vars, castVars, limiterVars, streamingVars, part>>
    \/ part = "casts" /\ ControllersNext /\ UNCHANGED <<vars, lockVars, limiterVars, streamingVars, part>>
    \/ part = "limits" /\ LimiterNext /\ UNCHANGED <<vars, lockVars, castVars, streamingVars, part>>
    \/ part = "layout" /\ StreamingNext /\ UNCHANGED <<vars, lockVars, castVars, limiterVars, part>>

SessionsSpec == SessionsInit /\ [][SessionsNext]_parts
=============================================================================
