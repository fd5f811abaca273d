----------------------------- MODULE RateLimiter -----------------------------
(***************************************************************************)
(* The upload limits of rate_limit_service.py: a token bucket for every     *)
(* client and one for all, and the requests that wait_for_upload_capacity   *)
(* holds back until both let them through.                                  *)
(*                                                                          *)
(* One unit of time is the longest sleep of a waiting request (a second).   *)
(* A request may yield between the two buckets, at the limiter's lock,      *)
(* which is held while the network interface of a new client is detected.   *)
(***************************************************************************)
EXTENDS Integers, Functions

CONSTANTS Clients,       \* client addresses (loopback is exempt)
          Requests,      \* requests the server works on
          Sizes,         \* bytes of a request
          Rate,          \* bytes per unit of time, by client
          GlobalRate,
          Burst,         \* BURST_WINDOW_SECONDS
          StaleAfter,    \* cleanup_interval, and how long a bucket may be idle
          Timeout,       \* how long a request may wait
          MaxTime        \* bound on the clock

ASSUME RateAssumption ==
    /\ Rate \in [Clients -> Nat \ {0}]
    /\ GlobalRate \in Nat \ {0}
ASSUME SizesAssumption == Sizes \subseteq Nat
ASSUME TimesAssumption ==
    /\ {Burst, StaleAfter, Timeout, MaxTime} \subseteq Nat \ {0}
    /\ Burst <= StaleAfter
    /\ Burst <= Timeout

VARIABLES now,
          client_buckets,     \* the buckets there are, by client
          global_bucket,
          last_cleanup,
          request,            \* progress of the waiting requests
          admitted,           \* bytes let through by each client's bucket so far
          admitted_globally   \* bytes let through by the global one

limiterVars == <<now, client_buckets, global_bucket, last_cleanup, request, admitted,
          admitted_globally>>

capacity(c) == Rate[c] * Burst
global_capacity == GlobalRate * Burst

Bucket == [tokens: Nat, last_refill: Nat]
Idle == [pc |-> "idle"]
\* alone: no other request was under way since this one was made.
Waiting == [pc: {"client", "global", "asleep"}, client: Clients, bytes: Sizes,
            deadline: Nat, since: Nat, alone: BOOLEAN]

LimiterTypeOK ==
    /\ now \in Nat
    /\ DOMAIN client_buckets \subseteq Clients
    /\ client_buckets \in [DOMAIN client_buckets -> Bucket]
    /\ global_bucket \in Bucket
    /\ last_cleanup \in Nat
    /\ request \in [Requests -> Waiting \cup {Idle}]
    /\ admitted \in [Clients -> Int]
    /\ admitted_globally \in Nat

LimiterInit ==
    /\ now = 0
    /\ client_buckets = <<>>
    /\ global_bucket = [tokens |-> global_capacity, last_refill |-> 0]
    /\ last_cleanup = 0
    /\ request = [r \in Requests |-> Idle]
    /\ admitted = [c \in Clients |-> 0]
    /\ admitted_globally = 0

-----------------------------------------------------------------------------
(* TokenBucket *)

AtMost(limit, n) == IF n <= limit THEN n ELSE limit

\* _refill; without the second assignment it would pay the same time twice.
RefillTwice(b, rate) ==
    [b EXCEPT !.tokens = AtMost(rate * Burst, b.tokens + rate * (now - b.last_refill))]
Refill(b, rate) ==
    [tokens |-> AtMost(rate * Burst, b.tokens + rate * (now - b.last_refill)),
     last_refill |-> now]

Take(b, n) == [b EXCEPT !.tokens = @ - n]

\* refund
RefundNothing(b, n, rate) == b
Refund(b, n, rate) == [b EXCEPT !.tokens = AtMost(rate * Burst, b.tokens + n)]

-----------------------------------------------------------------------------
(* RateLimiter *)

WithBucket(f, x, y) == [z \in DOMAIN f \cup {x} |-> IF z = x THEN y ELSE f[z]]

At(r, pc) == request[r].pc = pc
Client(r) == request[r].client
Bytes(r) == request[r].bytes

\* _maybe_cleanup
CleansUp == now - last_cleanup >= StaleAfter
Idles(c) == client_buckets[c].last_refill < now - StaleAfter
Kept == {c \in DOMAIN client_buckets : ~(CleansUp /\ Idles(c))}

\* _get_client_bucket, refilled: a client without a bucket gets a full one.
ClientBucket(c) ==
    IF c \in Kept THEN Refill(client_buckets[c], Rate[c])
    ELSE [tokens |-> capacity(c), last_refill |-> now]

\* A request that is refused sleeps at most one unit of time, until its deadline
\* at the latest, or gives up there.
TimesOut(r) == now >= request[r].deadline
HeldBack(r) ==
    request' = [request EXCEPT ![r] =
                  IF TimesOut(r) THEN Idle ELSE [@ EXCEPT !.pc = "asleep", !.since = now]]

\* wait_for_upload_capacity begins.
Ask(r, c, n) ==
    /\ At(r, "idle")
    /\ request' =
         [q \in Requests |->
            IF q = r
            THEN [pc |-> "client", client |-> c, bytes |-> n,
                  deadline |-> now + Timeout, since |-> now,
                  alone |-> \A p \in Requests \ {r} : At(p, "idle")]
            ELSE IF At(q, "idle") THEN Idle ELSE [request[q] EXCEPT !.alone = FALSE]]
    /\ UNCHANGED <<now, client_buckets, global_bucket, last_cleanup, admitted,
                   admitted_globally>>

\* check_limit up to the limiter's lock: clean up, then the client's bucket.  A
\* refused request asks both buckets how long to wait, which refills them.
ConsumeClient(r) ==
    /\ At(r, "client")
    /\ LET c == Client(r)
           b == ClientBucket(c)
           kept == Restrict(client_buckets, Kept)
       IN \/ /\ Bytes(r) <= b.tokens
             /\ client_buckets' = WithBucket(kept, c, Take(b, Bytes(r)))
             /\ admitted' = [admitted EXCEPT ![c] = @ + Bytes(r)]
             /\ request' = [request EXCEPT ![r].pc = "global", ![r].since = now]
             /\ UNCHANGED global_bucket
          \/ /\ Bytes(r) > b.tokens
             /\ client_buckets' = WithBucket(kept, c, b)
             /\ global_bucket' = Refill(global_bucket, GlobalRate)
             /\ HeldBack(r)
             /\ UNCHANGED admitted
    /\ last_cleanup' = IF CleansUp THEN now ELSE last_cleanup
    /\ UNCHANGED <<now, admitted_globally>>

\* The rest of check_limit: the global bucket, or the refund.
ConsumeGlobal(r) ==
    /\ At(r, "global")
    /\ LET c == Client(r)
           g == Refill(global_bucket, GlobalRate)
           n == Bytes(r)
       IN \/ /\ n <= g.tokens
             /\ global_bucket' = Take(g, n)
             /\ admitted_globally' = admitted_globally + n
             /\ request' = [request EXCEPT ![r] = Idle]
             /\ UNCHANGED <<client_buckets, admitted>>
          \/ /\ n > g.tokens
             /\ global_bucket' = g
             /\ client_buckets' =
                  [client_buckets EXCEPT ![c] = Refill(Refund(@, n, Rate[c]), Rate[c])]
             /\ admitted' = [admitted EXCEPT ![c] = @ - n]
             /\ HeldBack(r)
             /\ UNCHANGED admitted_globally
    /\ UNCHANGED <<now, last_cleanup>>

Wake(r) ==
    /\ At(r, "asleep")
    /\ request' = [request EXCEPT ![r].pc = "client"]
    /\ UNCHANGED <<now, client_buckets, global_bucket, last_cleanup, admitted,
                   admitted_globally>>

\* Sleepers are woken in time, and the limiter's lock is held for seconds, not
\* for as long as a bucket takes to become stale.
Tick ==
    /\ now < MaxTime
    /\ \A r \in Requests :
         /\ At(r, "asleep") => now <= request[r].since
         /\ At(r, "global") => now < request[r].since + StaleAfter
    /\ now' = now + 1
    /\ UNCHANGED <<client_buckets, global_bucket, last_cleanup, request, admitted,
                   admitted_globally>>

LimiterNext ==
    \/ \E r \in Requests, c \in Clients, n \in Sizes : Ask(r, c, n)
    \/ \E r \in Requests : ConsumeClient(r) \/ ConsumeGlobal(r) \/ Wake(r)
    \/ Tick

LimiterSpec == LimiterInit /\ [][LimiterNext]_limiterVars

-----------------------------------------------------------------------------
(* Properties. *)

\* What a client may still send at once, and all clients together.
Available(c) ==
    IF c \in DOMAIN client_buckets THEN Refill(client_buckets[c], Rate[c]).tokens
    ELSE capacity(c)
GloballyAvailable == Refill(global_bucket, GlobalRate).tokens

\* "Allows bursts while enforcing average rate limits": over any stretch of time
\* a client sends at most a burst more than its rate allows, through every
\* interleaving of refusals, refunds and cleanups of its bucket.  Stated for the
\* stretch from the start; NoFreeTokens extends it to all others.
WithinRate ==
    /\ \A c \in Clients : admitted[c] <= Rate[c] * (Burst + now)
    /\ admitted_globally <= GlobalRate * (Burst + now)

\* No step lets a client send more than the time that passed in it has paid for.
Worth(c) == admitted[c] + Available(c)
NoFreeTokens ==
    [][/\ \A c \in Clients : Worth(c)' <= Worth(c) + Rate[c] * (now' - now)
       /\ (admitted_globally + GloballyAvailable)'
            <= admitted_globally + GloballyAvailable + GlobalRate * (now' - now)]_limiterVars

\* "eventually succeed at the configured rate rather than dropping on the floor":
\* a request that is alone and fits full buckets does not time out, so the
\* refusals on the way have cost it nothing.
LoneRequestSucceeds ==
    [][\A r \in Requests :
         ~At(r, "idle") /\ request'[r] = Idle /\ request[r].alone
           /\ Bytes(r) <= capacity(Client(r)) /\ Bytes(r) <= global_capacity
         => admitted_globally' = admitted_globally + Bytes(r)]_limiterVars

-----------------------------------------------------------------------------
(* The inductive strengthening. *)

BucketsAreBounded ==
    /\ \A c \in DOMAIN client_buckets :
         client_buckets[c].tokens <= capacity(c) /\ client_buckets[c].last_refill <= now
    /\ global_bucket.tokens <= global_capacity /\ global_bucket.last_refill <= now

\* The bucket a request will give its tokens back to is still there.
BucketIsKept ==
    \A r \in Requests :
        At(r, "global") =>
            /\ Client(r) \in DOMAIN client_buckets
            /\ request[r].since <= client_buckets[Client(r)].last_refill
            /\ now <= request[r].since + StaleAfter

\* What was admitted and what is available were paid for by the time that passed.
TokensArePaidFor ==
    /\ \A c \in Clients : Worth(c) <= capacity(c) + Rate[c] * now
    /\ admitted_globally + GloballyAvailable <= global_capacity + GlobalRate * now

Asked(r) == request[r].deadline - Timeout
Held(r) == IF At(r, "global") THEN Bytes(r) ELSE 0

\* A request that is alone has in the buckets all that the time since it was
\* made has paid for, up to full buckets.
LoneHasItsShare ==
    \A r \in Requests :
        ~At(r, "idle") /\ request[r].alone =>
            /\ \A q \in Requests \ {r} : At(q, "idle")
            /\ Asked(r) \in 0..now
            /\ AtMost(capacity(Client(r)), Rate[Client(r)] * (now - Asked(r)))
                 <= Available(Client(r)) + Held(r)
            /\ AtMost(global_capacity, GlobalRate * (now - Asked(r))) <= GloballyAvailable

LimiterInv ==
    /\ LimiterTypeOK
    /\ BucketsAreBounded
    /\ BucketIsKept
    /\ TokensArePaidFor
    /\ LoneHasItsShare
=============================================================================
