-------------------------- MODULE RateLimiterProofs --------------------------
(* Proofs about RateLimiter, for every number of clients and requests and      *)
(* every rate, burst, staleness and timeout.                                   *)
EXTENDS RateLimiter, TLAPS

-----------------------------------------------------------------------------
(* Arithmetic. *)

(* Products of a rate and a time.                                            *)
LEMMA Products ==
  ASSUME NEW a \in Nat, NEW x \in Nat, NEW y \in Nat
  PROVE  /\ a * x \in Nat
         /\ a * (x + y) = a * x + a * y
         /\ x <= y => a * x <= a * y
         /\ x <= y => a * (y - x) = a * y - a * x
         /\ a * 0 = 0 /\ a * 1 = a
<1>1. a * x \in Nat /\ a * y \in Nat
  OBVIOUS
<1>2. a * (x + y) = a * x + a * y
  OBVIOUS
<1>3. ASSUME x <= y PROVE a * x <= a * y
  <2>1. y - x \in Nat /\ y = x + (y - x)
    BY <1>3
  <2>2. a * (y - x) \in Nat /\ a * y = a * x + a * (y - x)
    BY <2>1
  <2> QED
    BY <1>1, <2>2
<1>4. ASSUME x <= y PROVE a * (y - x) = a * y - a * x
  OBVIOUS
<1> QED
  BY <1>1, <1>2, <1>3, <1>4

(* A bucket that is refilled: what it holds, and that doing it twice at the  *)
(* same time adds nothing.                                                   *)
LEMMA Refilling ==
  ASSUME LimiterTypeOK, NEW b \in Bucket, NEW rate \in Nat, b.last_refill <= now,
         b.tokens <= rate * Burst
  PROVE  /\ Refill(b, rate) \in Bucket
         /\ Refill(b, rate).tokens <= rate * Burst
         /\ b.tokens <= Refill(b, rate).tokens
         /\ Refill(b, rate).last_refill = now
         /\ b.last_refill = now => Refill(b, rate).tokens = b.tokens
         /\ now - b.last_refill >= Burst => Refill(b, rate).tokens = rate * Burst
<1>1. /\ now - b.last_refill \in Nat /\ b.tokens \in Nat /\ now \in Nat /\ Burst \in Nat
  BY TimesAssumption DEF LimiterTypeOK, Bucket
<1>2. /\ rate * (now - b.last_refill) \in Nat
      /\ rate * Burst \in Nat
      /\ Burst <= now - b.last_refill => rate * Burst <= rate * (now - b.last_refill)
      /\ rate * 0 = 0
  BY <1>1, Products
<1> DEFINE paid == rate * (now - b.last_refill)
           full == rate * Burst
<1>3. b.last_refill = now => paid = 0
  BY <1>1, <1>2
<1>4. /\ paid \in Nat /\ full \in Nat /\ b.tokens <= full
      /\ Burst <= now - b.last_refill => full <= paid
  BY <1>2
<1> HIDE DEF paid, full
<1>5. Refill(b, rate) = [tokens |-> AtMost(full, b.tokens + paid), last_refill |-> now]
  BY DEF Refill, paid, full
<1>6. /\ AtMost(full, b.tokens + paid) \in Nat
      /\ AtMost(full, b.tokens + paid) <= full
      /\ b.tokens <= AtMost(full, b.tokens + paid)
      /\ paid = 0 => AtMost(full, b.tokens + paid) = b.tokens
      /\ full <= paid => AtMost(full, b.tokens + paid) = full
  BY <1>1, <1>4 DEF AtMost
<1>7. Refill(b, rate) \in Bucket
  BY <1>1, <1>5, <1>6 DEF Bucket
<1>8. Refill(b, rate).tokens = AtMost(full, b.tokens + paid) /\ Refill(b, rate).last_refill = now
  BY <1>5
<1> QED
  BY <1>1, <1>3, <1>4, <1>6, <1>7, <1>8 DEF full

-----------------------------------------------------------------------------
(* What is available, and what each step makes of it. *)

(* A client's next bucket holds what is available to the client: removing a  *)
(* bucket that has been idle gives nothing away.                             *)
LEMMA Supply ==
  ASSUME LimiterTypeOK, BucketsAreBounded
  PROVE  /\ \A c \in Clients : /\ capacity(c) \in Nat
                              /\ Available(c) \in 0..capacity(c)
                              /\ ClientBucket(c) \in Bucket
                              /\ ClientBucket(c).tokens = Available(c)
                              /\ ClientBucket(c).last_refill = now
         /\ global_capacity \in Nat
         /\ GloballyAvailable \in 0..global_capacity
         /\ Refill(global_bucket, GlobalRate) \in Bucket
         /\ Refill(global_bucket, GlobalRate).last_refill = now
<1>1. ASSUME NEW c \in Clients
      PROVE  /\ capacity(c) \in Nat
             /\ Available(c) \in 0..capacity(c)
             /\ ClientBucket(c) \in Bucket
             /\ ClientBucket(c).tokens = Available(c)
             /\ ClientBucket(c).last_refill = now
  <2>1. /\ capacity(c) \in Nat /\ Rate[c] \in Nat /\ capacity(c) = Rate[c] * Burst
        /\ now \in Nat
    BY Products, RateAssumption, TimesAssumption DEF capacity, LimiterTypeOK
  <2>2. CASE c \notin DOMAIN client_buckets
    BY <2>1, <2>2 DEF Available, ClientBucket, Kept, Bucket
  <2>3. CASE c \in DOMAIN client_buckets
    <3> DEFINE b == client_buckets[c]
    <3>1. b \in Bucket /\ b.last_refill <= now /\ b.tokens <= capacity(c)
      BY <2>3 DEF LimiterTypeOK, BucketsAreBounded
    <3>2. /\ Refill(b, Rate[c]) \in Bucket
          /\ Refill(b, Rate[c]).tokens <= capacity(c)
          /\ Refill(b, Rate[c]).last_refill = now
          /\ now - b.last_refill >= Burst => Refill(b, Rate[c]).tokens = capacity(c)
      BY <2>1, <3>1, Refilling
    <3>3. Available(c) = Refill(b, Rate[c]).tokens /\ Available(c) \in 0..capacity(c)
      BY <2>1, <2>3, <3>2 DEF Available, Bucket
    <3>4. CASE c \in Kept
      BY <2>1, <3>2, <3>3, <3>4 DEF ClientBucket
    <3>5. CASE c \notin Kept
      <4>1. now - b.last_refill >= Burst
        BY <2>1, <2>3, <3>1, <3>5, TimesAssumption DEF Kept, Idles, Bucket
      <4> QED
        BY <2>1, <3>2, <3>3, <3>5, <4>1 DEF ClientBucket, Bucket
    <3> QED
      BY <3>4, <3>5
  <2> QED
    BY <2>2, <2>3
<1>2. global_capacity \in Nat /\ GlobalRate \in Nat /\ global_capacity = GlobalRate * Burst
  BY Products, RateAssumption, TimesAssumption DEF global_capacity
<1>3. /\ Refill(global_bucket, GlobalRate) \in Bucket
      /\ Refill(global_bucket, GlobalRate).tokens <= global_capacity
      /\ Refill(global_bucket, GlobalRate).last_refill = now
  BY <1>2, Refilling DEF LimiterTypeOK, BucketsAreBounded
<1> QED
  BY <1>1, <1>2, <1>3 DEF GloballyAvailable, Bucket

(* A bucket that was refilled just now holds what is available.               *)
LEMMA Stored ==
  ASSUME LimiterTypeOK, NEW c \in Clients, NEW x \in Bucket, x.last_refill = now,
         x.tokens <= capacity(c), now' = now,
         c \in DOMAIN client_buckets', client_buckets'[c] = x
  PROVE  Available(c)' = x.tokens
<1>1. /\ Rate[c] \in Nat /\ x.tokens <= Rate[c] * Burst /\ x.last_refill <= now
  BY RateAssumption DEF capacity, LimiterTypeOK
<1>2. Refill(x, Rate[c]).tokens = x.tokens
  BY <1>1, Refilling
<1>3. Available(c)' = AtMost(Rate[c] * Burst, x.tokens + Rate[c] * (now - x.last_refill))
  BY DEF Available, Refill
<1>4. Refill(x, Rate[c]).tokens
        = AtMost(Rate[c] * Burst, x.tokens + Rate[c] * (now - x.last_refill))
  BY DEF Refill
<1> QED
  BY <1>2, <1>3, <1>4

LEMMA StoredGlobally ==
  ASSUME LimiterTypeOK, NEW x \in Bucket, x.last_refill = now, x.tokens <= global_capacity,
         now' = now, global_bucket' = x
  PROVE  GloballyAvailable' = x.tokens
<1>1. /\ GlobalRate \in Nat /\ x.tokens <= GlobalRate * Burst /\ x.last_refill <= now
  BY RateAssumption DEF global_capacity, LimiterTypeOK
<1>2. Refill(x, GlobalRate).tokens = x.tokens
  BY <1>1, Refilling
<1> QED
  BY <1>2 DEF GloballyAvailable, Refill

(* check_limit up to the lock: the client's tokens are taken or are not,     *)
(* nobody else gains or loses any.                                           *)
LEMMA ConsumeClientEffect ==
  ASSUME LimiterTypeOK, BucketsAreBounded, NEW r \in Requests, NEW c \in Clients,
         c = Client(r), ConsumeClient(r)
  PROVE  /\ Bytes(r) \in Nat /\ now' = now
         /\ DOMAIN client_buckets' = Kept \cup {c}
         /\ \A d \in Kept \ {c} : client_buckets'[d] = client_buckets[d]
         /\ client_buckets' \in [DOMAIN client_buckets' -> Bucket]
         /\ client_buckets'[c].last_refill = now
         /\ \A d \in Clients \ {c} : Available(d)' = Available(d)
         /\ global_bucket' \in Bucket /\ global_bucket'.last_refill <= now
         /\ global_bucket'.tokens <= global_capacity
         /\ GloballyAvailable' = GloballyAvailable
         /\ admitted_globally' = admitted_globally
         /\ \/ /\ Bytes(r) <= Available(c)
               /\ client_buckets'[c].tokens = Available(c) - Bytes(r)
               /\ Available(c)' = Available(c) - Bytes(r)
               /\ admitted' = [admitted EXCEPT ![c] = @ + Bytes(r)]
               /\ request' = [request EXCEPT ![r].pc = "global", ![r].since = now]
            \/ /\ Bytes(r) > Available(c)
               /\ client_buckets'[c].tokens = Available(c)
               /\ Available(c)' = Available(c)
               /\ admitted' = admitted
               /\ HeldBack(r)
<1> DEFINE b == ClientBucket(c)
           kept == Restrict(client_buckets, Kept)
           g == Refill(global_bucket, GlobalRate)
<1>1. c \in Clients /\ Bytes(r) \in Nat /\ now' = now /\ now \in Nat
  BY SizesAssumption DEF ConsumeClient, LimiterTypeOK, Waiting, Idle, At, Client, Bytes
<1>2. /\ b \in Bucket /\ b.tokens = Available(c) /\ b.last_refill = now
      /\ Available(c) \in 0..capacity(c) /\ capacity(c) \in Nat
      /\ Rate[c] \in Nat /\ capacity(c) = Rate[c] * Burst
      /\ g \in Bucket /\ g.tokens = GloballyAvailable /\ g.last_refill = now
      /\ GloballyAvailable \in 0..global_capacity /\ global_capacity \in Nat
  BY <1>1, Supply, RateAssumption DEF GloballyAvailable, capacity
<1>3. PICK x \in {b, Take(b, Bytes(r))} :
        /\ client_buckets' = WithBucket(kept, c, x)
        /\ \/ /\ x = Take(b, Bytes(r)) /\ Bytes(r) <= Available(c)
              /\ admitted' = [admitted EXCEPT ![c] = @ + Bytes(r)]
              /\ request' = [request EXCEPT ![r].pc = "global", ![r].since = now]
              /\ global_bucket' = global_bucket
           \/ /\ x = b /\ Bytes(r) > Available(c)
              /\ admitted' = admitted
              /\ HeldBack(r)
              /\ global_bucket' = g
  BY <1>2 DEF ConsumeClient
<1>4. /\ x \in Bucket /\ x.last_refill = now /\ x.tokens <= capacity(c)
      /\ x = Take(b, Bytes(r)) => x.tokens = Available(c) - Bytes(r)
      /\ x = b => x.tokens = Available(c)
  BY <1>1, <1>2, <1>3 DEF Take, Bucket
<1>5. /\ DOMAIN client_buckets' = Kept \cup {c}
      /\ client_buckets'[c] = x
      /\ \A d \in Kept \ {c} : client_buckets'[d] = client_buckets[d]
      /\ client_buckets' \in [DOMAIN client_buckets' -> Bucket]
  BY <1>3, <1>4 DEF WithBucket, Restrict, Kept, LimiterTypeOK
<1>6. Available(c)' = x.tokens
  BY <1>1, <1>4, <1>5, Stored
<1>7. ASSUME NEW d \in Clients \ {c}
      PROVE  Available(d)' = Available(d)
  <2>1. CASE d \in Kept
    BY <1>1, <1>5, <2>1 DEF Available, Refill, Kept
  <2>2. CASE d \notin Kept
    <3>1. Available(d) = capacity(d)
      BY <2>2, Supply DEF ClientBucket
    <3> QED
      BY <1>5, <2>2, <3>1 DEF Available
  <2> QED
    BY <2>1, <2>2
<1>8. /\ global_bucket' \in Bucket /\ global_bucket'.last_refill <= now
      /\ global_bucket'.tokens <= global_capacity
      /\ GloballyAvailable' = GloballyAvailable
  <2>1. CASE global_bucket' = global_bucket
    BY <1>1, <2>1 DEF LimiterTypeOK, BucketsAreBounded, GloballyAvailable, Refill
  <2>2. CASE global_bucket' = g
    BY <1>1, <1>2, <2>2, StoredGlobally
  <2> QED
    BY <1>3, <2>1, <2>2
<1>9. admitted_globally' = admitted_globally
  BY DEF ConsumeClient
<1> QED
  BY <1>1, <1>3, <1>4, <1>5, <1>6, <1>7, <1>8, <1>9

(* The rest of check_limit: the request is through, or gets its tokens back.  *)
LEMMA ConsumeGlobalEffect ==
  ASSUME LimiterTypeOK, BucketsAreBounded, BucketIsKept, NEW r \in Requests, NEW c \in Clients,
         c = Client(r), ConsumeGlobal(r)
  PROVE  /\ Bytes(r) \in Nat /\ now' = now
         /\ c \in DOMAIN client_buckets /\ DOMAIN client_buckets' = DOMAIN client_buckets
         /\ \A d \in DOMAIN client_buckets \ {c} : client_buckets'[d] = client_buckets[d]
         /\ client_buckets' \in [DOMAIN client_buckets' -> Bucket]
         /\ client_buckets'[c].tokens <= capacity(c)
         /\ client_buckets'[c].last_refill \in client_buckets[c].last_refill..now
         /\ \A d \in Clients \ {c} : Available(d)' = Available(d)
         /\ global_bucket' \in Bucket /\ global_bucket'.last_refill <= now
         /\ global_bucket'.tokens <= global_capacity
         /\ \/ /\ Bytes(r) <= GloballyAvailable
               /\ Available(c)' = Available(c)
               /\ GloballyAvailable' = GloballyAvailable - Bytes(r)
               /\ admitted' = admitted
               /\ admitted_globally' = admitted_globally + Bytes(r)
               /\ request' = [request EXCEPT ![r] = Idle]
            \/ /\ Bytes(r) > GloballyAvailable
               /\ Available(c)' = AtMost(capacity(c), Available(c) + Bytes(r))
               /\ GloballyAvailable' = GloballyAvailable
               /\ admitted' = [admitted EXCEPT ![c] = @ - Bytes(r)]
               /\ admitted_globally' = admitted_globally
               /\ HeldBack(r)
<1> DEFINE b == client_buckets[c]
           n == Bytes(r)
           g == Refill(global_bucket, GlobalRate)
           paid == Rate[c] * (now - b.last_refill)
<1>1. n \in Nat /\ now' = now /\ now \in Nat /\ c \in DOMAIN client_buckets
  BY SizesAssumption
  DEF ConsumeGlobal, BucketIsKept, LimiterTypeOK, Waiting, Idle, At, Client, Bytes
<1>2. /\ b \in Bucket /\ b.last_refill \in 0..now /\ b.tokens \in 0..capacity(c)
      /\ capacity(c) \in Nat /\ Rate[c] \in Nat /\ capacity(c) = Rate[c] * Burst
      /\ g \in Bucket /\ g.tokens = GloballyAvailable /\ g.last_refill = now
      /\ GloballyAvailable \in 0..global_capacity /\ global_capacity \in Nat
  BY <1>1, Supply, RateAssumption
  DEF GloballyAvailable, capacity, LimiterTypeOK, BucketsAreBounded, Bucket
<1>3. paid \in Nat
  BY <1>1, <1>2, Products
<1>4. Available(c) = AtMost(capacity(c), b.tokens + paid)
  BY <1>1, <1>2 DEF Available, Refill
<1>5. ASSUME n <= g.tokens, client_buckets' = client_buckets
      PROVE  /\ \A d \in Clients : Available(d)' = Available(d)
             /\ client_buckets' \in [DOMAIN client_buckets' -> Bucket]
  BY <1>1, <1>5 DEF Available, Refill, LimiterTypeOK
<1>6. CASE /\ n <= g.tokens
           /\ global_bucket' = Take(g, n)
           /\ admitted_globally' = admitted_globally + n
           /\ request' = [request EXCEPT ![r] = Idle]
           /\ UNCHANGED <<client_buckets, admitted>>
  <2>1. /\ Take(g, n) \in Bucket /\ Take(g, n).last_refill = now
        /\ Take(g, n).tokens = g.tokens - n
    BY <1>1, <1>2, <1>6 DEF Take, Bucket
  <2>2. GloballyAvailable' = g.tokens - n /\ g.tokens - n <= global_capacity
    BY <1>1, <1>2, <1>6, <2>1, StoredGlobally
  <2> QED
    BY <1>1, <1>2, <1>5, <1>6, <2>1, <2>2
<1>7. CASE /\ n > g.tokens
           /\ global_bucket' = g
           /\ client_buckets' =
                [client_buckets EXCEPT ![c] = Refill(Refund(@, n, Rate[c]), Rate[c])]
           /\ admitted' = [admitted EXCEPT ![c] = @ - n]
           /\ HeldBack(r)
           /\ UNCHANGED admitted_globally
  <2> DEFINE y == Refund(b, n, Rate[c])
             x == Refill(y, Rate[c])
  <2>1. /\ y \in Bucket /\ y.last_refill = b.last_refill
        /\ y.tokens = AtMost(capacity(c), b.tokens + n) /\ y.tokens <= capacity(c)
    <3>1. /\ AtMost(capacity(c), b.tokens + n) \in Nat
          /\ AtMost(capacity(c), b.tokens + n) <= capacity(c)
      BY <1>1, <1>2 DEF AtMost
    <3>2. y = [b EXCEPT !.tokens = AtMost(capacity(c), b.tokens + n)]
      BY <1>2 DEF Refund
    <3> QED
      BY <1>2, <3>1, <3>2 DEF Bucket
  <2>2. /\ x \in Bucket /\ x.tokens <= capacity(c) /\ x.last_refill = now
    BY <1>1, <1>2, <2>1, Refilling
  <2>3. x.tokens = AtMost(capacity(c), AtMost(capacity(c), b.tokens + n) + paid)
    BY <1>2, <2>1 DEF Refill
  <2>4. x.tokens = AtMost(capacity(c), Available(c) + n)
    <3> HIDE DEF b, paid, x, y
    <3> QED
      BY <1>1, <1>2, <1>3, <1>4, <2>3 DEF AtMost
  <2>5. /\ DOMAIN client_buckets' = DOMAIN client_buckets
        /\ client_buckets'[c] = x
        /\ \A d \in DOMAIN client_buckets \ {c} : client_buckets'[d] = client_buckets[d]
        /\ client_buckets' \in [DOMAIN client_buckets' -> Bucket]
    BY <1>1, <1>7, <2>2 DEF LimiterTypeOK
  <2>6. Available(c)' = x.tokens
    BY <1>1, <2>2, <2>5, Stored
  <2>7. \A d \in Clients \ {c} : Available(d)' = Available(d)
    BY <1>1, <2>5 DEF Available, Refill
  <2>8. GloballyAvailable' = g.tokens
    BY <1>1, <1>2, <1>7, StoredGlobally
  <2> QED
    BY <1>1, <1>2, <1>7, <2>2, <2>4, <2>5, <2>6, <2>7, <2>8
<1> QED
  BY <1>6, <1>7 DEF ConsumeGlobal

(* A unit of time pays everybody a unit of their rate, up to a full bucket.    *)
LEMMA TickEffect ==
  ASSUME LimiterTypeOK, BucketsAreBounded, Tick
  PROVE  /\ now' = now + 1
         /\ \A c \in Clients : Available(c)' = AtMost(capacity(c), Available(c) + Rate[c])
         /\ GloballyAvailable' = AtMost(global_capacity, GloballyAvailable + GlobalRate)
<1>1. now' = now + 1 /\ now \in Nat /\ UNCHANGED <<client_buckets, global_bucket>>
  BY DEF Tick, LimiterTypeOK
<1>2. ASSUME NEW b \in Bucket, NEW rate \in Nat, b.last_refill <= now
      PROVE  Refill(b, rate)'.tokens = AtMost(rate * Burst, Refill(b, rate).tokens + rate)
  <2> DEFINE paid == rate * (now - b.last_refill)
             full == rate * Burst
  <2>1. /\ paid \in Nat /\ full \in Nat /\ b.tokens \in Nat
        /\ rate * (now' - b.last_refill) = paid + rate
    <3>1. now - b.last_refill \in Nat /\ Burst \in Nat /\ b.tokens \in Nat
      BY <1>1, <1>2, TimesAssumption DEF Bucket
    <3>2. now' - b.last_refill = (now - b.last_refill) + 1
      BY <1>1, <1>2 DEF Bucket
    <3>3. rate * ((now - b.last_refill) + 1) = paid + rate
      BY <3>1, Products
    <3> QED
      BY <3>1, <3>2, <3>3, Products
  <2>2. Refill(b, rate).tokens = AtMost(full, b.tokens + paid)
    BY DEF Refill
  <2> HIDE DEF paid, full
  <2>3. Refill(b, rate)'.tokens = AtMost(full, b.tokens + (paid + rate))
    <3>1. Refill(b, rate)'.tokens = AtMost(full, b.tokens + rate * (now' - b.last_refill))
      BY DEF Refill, full
    <3> QED
      BY <2>1, <3>1
  <2>4. AtMost(full, b.tokens + (paid + rate))
          = AtMost(full, AtMost(full, b.tokens + paid) + rate)
    BY <2>1, <1>2 DEF AtMost
  <2> QED
    BY <2>2, <2>3, <2>4 DEF full
<1>3. ASSUME NEW c \in Clients
      PROVE  Available(c)' = AtMost(capacity(c), Available(c) + Rate[c])
  <2>1. Rate[c] \in Nat /\ capacity(c) \in Nat /\ capacity(c) = Rate[c] * Burst
    BY Supply, RateAssumption DEF capacity
  <2>2. CASE c \in DOMAIN client_buckets
    <3>1. client_buckets[c] \in Bucket /\ client_buckets[c].last_refill <= now
      BY <2>2 DEF LimiterTypeOK, BucketsAreBounded
    <3>2. Refill(client_buckets[c], Rate[c])'.tokens
            = AtMost(capacity(c), Refill(client_buckets[c], Rate[c]).tokens + Rate[c])
      BY <1>1, <1>2, <2>1, <3>1 DEF Refill
    <3> QED
      BY <1>1, <2>2, <3>2 DEF Available
  <2>3. CASE c \notin DOMAIN client_buckets
    BY <1>1, <2>1, <2>3 DEF Available, AtMost
  <2> QED
    BY <2>2, <2>3
<1>4. GloballyAvailable' = AtMost(global_capacity, GloballyAvailable + GlobalRate)
  <2>1. global_bucket \in Bucket /\ global_bucket.last_refill <= now /\ GlobalRate \in Nat
    BY RateAssumption DEF LimiterTypeOK, BucketsAreBounded
  <2>2. Refill(global_bucket, GlobalRate)'.tokens
          = AtMost(global_capacity, Refill(global_bucket, GlobalRate).tokens + GlobalRate)
    BY <1>1, <1>2, <2>1 DEF Refill, global_capacity
  <2> QED
    BY <2>2 DEF GloballyAvailable
<1> QED
  BY <1>1, <1>3, <1>4

(* Only these steps touch the buckets.                                       *)
LEMMA OtherEffect ==
  ASSUME UNCHANGED <<now, client_buckets, global_bucket>>
  PROVE  /\ \A c \in Clients : Available(c)' = Available(c)
         /\ GloballyAvailable' = GloballyAvailable
BY DEF Available, GloballyAvailable, Refill

-----------------------------------------------------------------------------
(* The invariant. *)

LEMMA TypeInit == LimiterInit => LimiterTypeOK
BY RateAssumption, TimesAssumption, Products
DEF LimiterInit, LimiterTypeOK, Bucket, global_capacity, Idle

LEMMA TypeNext ==
  ASSUME LimiterTypeOK, BucketsAreBounded, BucketIsKept, [LimiterNext]_limiterVars
  PROVE  LimiterTypeOK'
<1>1. ASSUME NEW r \in Requests, NEW c \in Clients, NEW n \in Sizes, Ask(r, c, n)
      PROVE  LimiterTypeOK'
  <2>1. now + Timeout \in Nat
    BY TimesAssumption DEF LimiterTypeOK
  <2>2. [pc |-> "client", client |-> c, bytes |-> n, deadline |-> now + Timeout,
         since |-> now, alone |-> \A p \in Requests \ {r} : At(p, "idle")] \in Waiting
    BY <2>1 DEF Waiting, LimiterTypeOK
  <2>3. ASSUME NEW q \in Requests, ~At(q, "idle")
        PROVE  [request[q] EXCEPT !.alone = FALSE] \in Waiting
    <3>1. request[q] \in Waiting
      BY <2>3 DEF LimiterTypeOK, Idle, At
    <3> QED
      BY <3>1 DEF Waiting
  <2>4. request' \in [Requests -> Waiting \cup {Idle}]
    BY <1>1, <2>2, <2>3 DEF Ask
  <2> QED
    BY <1>1, <2>4 DEF Ask, LimiterTypeOK
<1>2. ASSUME NEW r \in Requests, ~At(r, "idle"), HeldBack(r)
      PROVE  request' \in [Requests -> Waiting \cup {Idle}]
  <2>1. request[r] \in Waiting
    BY <1>2 DEF LimiterTypeOK, Idle, At
  <2>2. [request[r] EXCEPT !.pc = "asleep", !.since = now] \in Waiting
    BY <2>1 DEF Waiting, LimiterTypeOK
  <2> QED
    BY <1>2, <2>2 DEF HeldBack, LimiterTypeOK
<1>3. ASSUME NEW r \in Requests, ConsumeClient(r)
      PROVE  LimiterTypeOK'
  <2>1. ~At(r, "idle") /\ request[r] \in Waiting
    BY <1>3 DEF ConsumeClient, At, LimiterTypeOK, Idle
  <2>2. PICK c \in Clients : c = Client(r)
    BY <2>1 DEF Client, Waiting
  <2>3. request' \in [Requests -> Waiting \cup {Idle}]
    <3>1. [request[r] EXCEPT !.pc = "global", !.since = now] \in Waiting
      BY <2>1 DEF Waiting, LimiterTypeOK
    <3>2. HeldBack(r) \/ request' = [request EXCEPT ![r].pc = "global", ![r].since = now]
      BY <1>3 DEF ConsumeClient
    <3> QED
      BY <1>2, <2>1, <3>1, <3>2 DEF LimiterTypeOK
  <2>4. admitted' \in [Clients -> Int]
    <3>1. /\ Bytes(r) \in Nat
          /\ \/ admitted' = admitted
             \/ admitted' = [admitted EXCEPT ![c] = @ + Bytes(r)]
      BY <1>3, <2>2, ConsumeClientEffect
    <3> QED
      BY <3>1 DEF LimiterTypeOK
  <2>5. last_cleanup' \in Nat
    BY <1>3 DEF ConsumeClient, LimiterTypeOK
  <2> QED
    BY <1>3, <2>2, <2>3, <2>4, <2>5, ConsumeClientEffect DEF LimiterTypeOK, Kept
<1>4. ASSUME NEW r \in Requests, ConsumeGlobal(r)
      PROVE  LimiterTypeOK'
  <2>1. ~At(r, "idle") /\ request[r] \in Waiting
    BY <1>4 DEF ConsumeGlobal, At, LimiterTypeOK, Idle
  <2>2. PICK c \in Clients : c = Client(r)
    BY <2>1 DEF Client, Waiting
  <2>3. request' \in [Requests -> Waiting \cup {Idle}]
    BY <1>2, <1>4, <2>1 DEF ConsumeGlobal, LimiterTypeOK
  <2>4. admitted' \in [Clients -> Int] /\ admitted_globally' \in Nat
    BY <1>4, <2>2, ConsumeGlobalEffect DEF LimiterTypeOK
  <2>5. last_cleanup' \in Nat
    BY <1>4 DEF ConsumeGlobal, LimiterTypeOK
  <2> QED
    BY <1>4, <2>2, <2>3, <2>4, <2>5, ConsumeGlobalEffect DEF LimiterTypeOK
<1>5. ASSUME NEW r \in Requests, Wake(r)
      PROVE  LimiterTypeOK'
  BY <1>5 DEF Wake, LimiterTypeOK, Waiting, Idle, At
<1>6. CASE Tick
  BY <1>6 DEF Tick, LimiterTypeOK
<1>7. CASE UNCHANGED limiterVars
  BY <1>7 DEF limiterVars, LimiterTypeOK
<1> QED
  BY <1>1, <1>3, <1>4, <1>5, <1>6, <1>7 DEF LimiterNext

LEMMA BucketsInit == LimiterInit => BucketsAreBounded
BY Products, RateAssumption, TimesAssumption
DEF LimiterInit, BucketsAreBounded, global_capacity

LEMMA BucketsNext ==
  ASSUME LimiterTypeOK, BucketsAreBounded, BucketIsKept, [LimiterNext]_limiterVars
  PROVE  BucketsAreBounded'
<1>1. ASSUME UNCHANGED <<client_buckets, global_bucket>>, now' \in Nat, now <= now'
      PROVE  BucketsAreBounded'
  BY <1>1 DEF BucketsAreBounded, LimiterTypeOK, Bucket
<1>2. ASSUME NEW r \in Requests, ConsumeClient(r)
      PROVE  BucketsAreBounded'
  <2>1. PICK c \in Clients : c = Client(r)
    BY <1>2 DEF ConsumeClient, At, Client, LimiterTypeOK, Waiting, Idle
  <2>2. /\ now' = now /\ now \in Nat /\ DOMAIN client_buckets' = Kept \cup {c}
        /\ \A d \in Kept \ {c} : client_buckets'[d] = client_buckets[d]
        /\ client_buckets'[c].last_refill = now
        /\ Bytes(r) \in Nat
        /\ client_buckets'[c].tokens \in {Available(c) - Bytes(r), Available(c)}
        /\ global_bucket'.last_refill <= now
        /\ global_bucket'.tokens <= global_capacity
    BY <1>2, <2>1, ConsumeClientEffect DEF LimiterTypeOK
  <2>3. Available(c) \in 0..capacity(c) /\ capacity(c) \in Nat
    BY Supply
  <2>4. client_buckets'[c].tokens <= capacity(c) /\ client_buckets'[c].last_refill <= now
    BY <2>2, <2>3
  <2>5. \A d \in Kept \ {c} : /\ client_buckets'[d].tokens <= capacity(d)
                              /\ client_buckets'[d].last_refill <= now
    BY <2>2 DEF BucketsAreBounded, Kept
  <2> QED
    BY <2>2, <2>4, <2>5 DEF BucketsAreBounded, capacity, global_capacity
<1>3. ASSUME NEW r \in Requests, ConsumeGlobal(r)
      PROVE  BucketsAreBounded'
  <2>1. PICK c \in Clients : c = Client(r)
    BY <1>3 DEF ConsumeGlobal, At, Client, LimiterTypeOK, Waiting, Idle
  <2>2. /\ now' = now /\ now \in Nat /\ DOMAIN client_buckets' = DOMAIN client_buckets
        /\ \A d \in DOMAIN client_buckets \ {c} : client_buckets'[d] = client_buckets[d]
        /\ client_buckets'[c].last_refill <= now
        /\ client_buckets'[c].tokens <= capacity(c)
        /\ global_bucket'.last_refill <= now
        /\ global_bucket'.tokens <= global_capacity
    BY <1>3, <2>1, ConsumeGlobalEffect DEF LimiterTypeOK, Bucket
  <2> QED
    BY <2>2 DEF BucketsAreBounded, capacity, global_capacity
<1> QED
  BY <1>1, <1>2, <1>3 DEF LimiterNext, limiterVars, Ask, Wake, Tick, LimiterTypeOK

LEMMA KeptNext ==
  ASSUME LimiterTypeOK, BucketsAreBounded, BucketIsKept, [LimiterNext]_limiterVars
  PROVE  BucketIsKept'
<1>1. LimiterTypeOK'
  BY TypeNext
<1>2. ASSUME NEW q \in Requests, At(q, "global")
      PROVE  /\ request[q] \in Waiting /\ Client(q) \in DOMAIN client_buckets
             /\ Client(q) \in Clients /\ request[q].since \in Nat
             /\ client_buckets[Client(q)].last_refill \in Nat
             /\ request[q].since <= client_buckets[Client(q)].last_refill
             /\ client_buckets[Client(q)].last_refill <= now
             /\ now <= request[q].since + StaleAfter
             /\ now \in Nat
  <2>1. request[q] \in Waiting
    BY <1>2 DEF At, LimiterTypeOK, Idle
  <2> QED
    BY <1>2, <2>1
    DEF BucketIsKept, BucketsAreBounded, LimiterTypeOK, Bucket, Client, Waiting
<1>3. ASSUME NEW q \in Requests, At(q, "global")
      PROVE  Client(q) \in Kept
  BY <1>2, <1>3, TimesAssumption DEF Kept, Idles
<1> SUFFICES ASSUME NEW q \in Requests, At(q, "global")'
             PROVE  /\ Client(q)' \in DOMAIN client_buckets'
                    /\ request'[q].since <= client_buckets'[Client(q)'].last_refill
                    /\ now' <= request'[q].since + StaleAfter
  BY DEF BucketIsKept, Client
<1> DEFINE Goal == /\ Client(q)' \in DOMAIN client_buckets'
                   /\ request'[q].since <= client_buckets'[Client(q)'].last_refill
                   /\ now' <= request'[q].since + StaleAfter
<1>4. ASSUME At(q, "global"), request'[q].client = request[q].client,
             request'[q].since = request[q].since, now' <= request[q].since + StaleAfter,
             Client(q) \in DOMAIN client_buckets',
             client_buckets'[Client(q)].last_refill \in Nat,
             client_buckets[Client(q)].last_refill <= client_buckets'[Client(q)].last_refill
      PROVE  Goal
  BY <1>2, <1>4 DEF Client
<1>5. ASSUME NEW r \in Requests, NEW c \in Clients, NEW n \in Sizes, Ask(r, c, n)
      PROVE  Goal
  <2>1. At(q, "global") /\ request'[q] = [request[q] EXCEPT !.alone = FALSE]
    BY <1>5 DEF Ask, At, Idle
  <2>2. request'[q].client = request[q].client /\ request'[q].since = request[q].since
    BY <1>2, <2>1 DEF Waiting
  <2> QED
    BY <1>2, <1>4, <1>5, <2>1, <2>2 DEF Ask
<1>6. ASSUME NEW r \in Requests, HeldBack(r)
      PROVE  q # r /\ request'[q] = request[q] /\ At(q, "global")
  BY <1>6 DEF HeldBack, At, Idle, LimiterTypeOK
<1>7. ASSUME NEW r \in Requests, ConsumeClient(r)
      PROVE  Goal
  <2>1. request[r] \in Waiting
    BY <1>7 DEF ConsumeClient, At, Idle, LimiterTypeOK
  <2>2. PICK c \in Clients : c = Client(r)
    BY <2>1 DEF Client, Waiting
  <2>3. /\ DOMAIN client_buckets' = Kept \cup {c} /\ client_buckets'[c].last_refill = now
        /\ \A d \in Kept \ {c} : client_buckets'[d] = client_buckets[d]
        /\ now' = now /\ now \in Nat
    BY <1>7, <2>2, ConsumeClientEffect DEF LimiterTypeOK
  <2>4. CASE q = r
    <3>1. request' = [request EXCEPT ![r].pc = "global", ![r].since = now]
      BY <1>6, <1>7, <2>4 DEF ConsumeClient
    <3>2. request'[q] = [request[q] EXCEPT !.pc = "global", !.since = now]
      BY <2>4, <3>1 DEF LimiterTypeOK
    <3>3. request'[q].client = c /\ request'[q].since = now
      BY <2>1, <2>2, <2>4, <3>2 DEF Waiting, Client
    <3> QED
      BY <2>3, <3>3, TimesAssumption DEF Client
  <2>5. CASE q # r
    <3>1. request'[q] = request[q] /\ At(q, "global")
      BY <1>6, <1>7, <2>5 DEF ConsumeClient, LimiterTypeOK, At
    <3>2. CASE Client(q) = c
      BY <1>2, <1>4, <2>3, <3>1, <3>2
    <3>3. CASE Client(q) # c
      BY <1>2, <1>3, <1>4, <2>3, <3>1, <3>3
    <3> QED
      BY <3>2, <3>3
  <2> QED
    BY <2>4, <2>5
<1>8. ASSUME NEW r \in Requests, ConsumeGlobal(r)
      PROVE  Goal
  <2>1. request[r] \in Waiting
    BY <1>8 DEF ConsumeGlobal, At, Idle, LimiterTypeOK
  <2>2. PICK c \in Clients : c = Client(r)
    BY <2>1 DEF Client, Waiting
  <2>3. /\ DOMAIN client_buckets' = DOMAIN client_buckets
        /\ client_buckets[c].last_refill <= client_buckets'[c].last_refill
        /\ client_buckets'[c].last_refill \in Nat
        /\ \A d \in DOMAIN client_buckets \ {c} : client_buckets'[d] = client_buckets[d]
        /\ now' = now
    BY <1>8, <2>2, ConsumeGlobalEffect DEF LimiterTypeOK, Bucket
  <2>4. request'[q] = request[q] /\ At(q, "global")
    BY <1>6, <1>8 DEF ConsumeGlobal, LimiterTypeOK, At, Idle
  <2>5. CASE Client(q) = c
    BY <1>2, <1>4, <2>3, <2>4, <2>5
  <2>6. CASE Client(q) # c
    BY <1>2, <1>4, <2>3, <2>4, <2>6
  <2> QED
    BY <2>5, <2>6
<1>9. ASSUME NEW r \in Requests, Wake(r)
      PROVE  Goal
  <2>1. request'[q] = request[q] /\ At(q, "global")
    <3>1. q # r
      BY <1>9 DEF Wake, At, Idle, LimiterTypeOK, Waiting
    <3> QED
      BY <1>9, <3>1 DEF Wake, LimiterTypeOK, At
  <2> QED
    BY <1>2, <1>4, <1>9, <2>1 DEF Wake
<1>10. CASE Tick
  <2>1. /\ At(q, "global") /\ now' <= request[q].since + StaleAfter
        /\ UNCHANGED <<request, client_buckets>>
    BY <1>2, <1>10, TimesAssumption DEF Tick, At
  <2> QED
    BY <1>2, <1>4, <2>1
<1>11. CASE UNCHANGED limiterVars
  <2>1. At(q, "global") /\ UNCHANGED <<request, client_buckets, now>>
    BY <1>11 DEF limiterVars, At
  <2> QED
    BY <1>2, <1>4, <2>1
<1> QED
  BY <1>5, <1>7, <1>8, <1>9, <1>10, <1>11 DEF LimiterNext

(* No step makes a client, or all of them, richer than its time has paid for.  *)
LEMMA StepIsPaidFor ==
  ASSUME LimiterTypeOK, BucketsAreBounded, BucketIsKept, [LimiterNext]_limiterVars
  PROVE  /\ now' - now \in {0, 1}
         /\ \A c \in Clients : Worth(c)' <= Worth(c) + Rate[c] * (now' - now)
         /\ (admitted_globally + GloballyAvailable)'
              <= admitted_globally + GloballyAvailable + GlobalRate * (now' - now)
<1>1. /\ \A c \in Clients : /\ Rate[c] \in Nat /\ admitted[c] \in Int
                             /\ capacity(c) \in Nat /\ Available(c) \in 0..capacity(c)
                             /\ Rate[c] * 0 = 0 /\ Rate[c] * 1 = Rate[c]
      /\ GlobalRate \in Nat /\ admitted_globally \in Nat
      /\ global_capacity \in Nat /\ GloballyAvailable \in 0..global_capacity
      /\ GlobalRate * 0 = 0 /\ GlobalRate * 1 = GlobalRate
      /\ now \in Nat
  BY Supply, RateAssumption, Products DEF LimiterTypeOK
<1>2. ASSUME UNCHANGED <<now, client_buckets, global_bucket, admitted, admitted_globally>>
      PROVE  /\ now' - now = 0
             /\ \A c \in Clients : Worth(c)' = Worth(c)
             /\ (admitted_globally + GloballyAvailable)'
                  = admitted_globally + GloballyAvailable
  BY <1>1, <1>2, OtherEffect DEF Worth
<1>3. ASSUME NEW r \in Requests, ConsumeClient(r)
      PROVE  /\ now' - now = 0
             /\ \A c \in Clients : Worth(c)' = Worth(c)
             /\ (admitted_globally + GloballyAvailable)'
                  = admitted_globally + GloballyAvailable
  <2>1. PICK c \in Clients : c = Client(r)
    BY <1>3 DEF ConsumeClient, At, Client, LimiterTypeOK, Waiting, Idle
  <2>2. /\ now' = now /\ admitted_globally' = admitted_globally /\ Bytes(r) \in Nat
        /\ GloballyAvailable' = GloballyAvailable
        /\ \A d \in Clients \ {c} : Available(d)' = Available(d)
        /\ \/ /\ Available(c)' = Available(c) - Bytes(r)
              /\ admitted' = [admitted EXCEPT ![c] = @ + Bytes(r)]
           \/ Available(c)' = Available(c) /\ admitted' = admitted
    BY <1>3, <2>1, ConsumeClientEffect
  <2>3. Worth(c)' = Worth(c)
    BY <1>1, <2>2 DEF Worth, LimiterTypeOK
  <2>4. \A d \in Clients \ {c} : Worth(d)' = Worth(d)
    BY <2>2 DEF Worth, LimiterTypeOK
  <2> QED
    BY <1>1, <2>2, <2>3, <2>4
<1>4. ASSUME NEW r \in Requests, ConsumeGlobal(r)
      PROVE  /\ now' - now = 0
             /\ \A c \in Clients : Worth(c)' <= Worth(c)
             /\ (admitted_globally + GloballyAvailable)'
                  <= admitted_globally + GloballyAvailable
  <2>1. PICK c \in Clients : c = Client(r)
    BY <1>4 DEF ConsumeGlobal, At, Client, LimiterTypeOK, Waiting, Idle
  <2>2. /\ now' = now /\ Bytes(r) \in Nat
        /\ \A d \in Clients \ {c} : Available(d)' = Available(d)
        /\ \/ /\ Available(c)' = Available(c) /\ admitted' = admitted
              /\ admitted_globally' = admitted_globally + Bytes(r)
              /\ GloballyAvailable' = GloballyAvailable - Bytes(r)
           \/ /\ Available(c)' = AtMost(capacity(c), Available(c) + Bytes(r))
              /\ admitted' = [admitted EXCEPT ![c] = @ - Bytes(r)]
              /\ admitted_globally' = admitted_globally
              /\ GloballyAvailable' = GloballyAvailable
    BY <1>4, <2>1, ConsumeGlobalEffect
  <2>3. AtMost(capacity(c), Available(c) + Bytes(r)) \in 0..Available(c) + Bytes(r)
    BY <1>1, <2>2 DEF AtMost
  <2>4. Worth(c)' <= Worth(c)
    BY <1>1, <2>2, <2>3 DEF Worth, LimiterTypeOK
  <2>5. \A d \in Clients \ {c} : Worth(d)' = Worth(d) /\ Worth(d) \in Int
    BY <1>1, <2>2 DEF Worth, LimiterTypeOK
  <2>6. (admitted_globally + GloballyAvailable)' <= admitted_globally + GloballyAvailable
    BY <1>1, <2>2
  <2> QED
    BY <1>1, <2>2, <2>4, <2>5, <2>6
<1>5. CASE Tick
  <2>1. /\ now' = now + 1 /\ UNCHANGED <<admitted, admitted_globally>>
        /\ \A c \in Clients : Available(c)' = AtMost(capacity(c), Available(c) + Rate[c])
        /\ GloballyAvailable' = AtMost(global_capacity, GloballyAvailable + GlobalRate)
    BY <1>5, TickEffect DEF Tick
  <2>2. now' - now = 1
    BY <1>1, <2>1
  <2>3. \A c \in Clients : Worth(c)' <= Worth(c) + Rate[c]
    BY <1>1, <2>1 DEF Worth, AtMost
  <2>4. (admitted_globally + GloballyAvailable)'
          <= admitted_globally + GloballyAvailable + GlobalRate
    BY <1>1, <2>1 DEF AtMost
  <2> QED
    BY <1>1, <2>2, <2>3, <2>4
<1>6. /\ \A c \in Clients : Worth(c) \in Int
      /\ admitted_globally + GloballyAvailable \in Int
  BY <1>1 DEF Worth
<1>7. CASE LimiterNext
  BY <1>1, <1>2, <1>3, <1>4, <1>5, <1>6, <1>7 DEF LimiterNext, Ask, Wake
<1>8. CASE UNCHANGED limiterVars
  BY <1>1, <1>2, <1>6, <1>8 DEF limiterVars
<1> QED
  BY <1>7, <1>8

LEMMA PaidForInit == LimiterInit => TokensArePaidFor
<1> SUFFICES ASSUME LimiterInit PROVE TokensArePaidFor
  OBVIOUS
<1>1. LimiterTypeOK /\ BucketsAreBounded
  BY TypeInit, BucketsInit
<1>2. /\ GloballyAvailable <= global_capacity /\ global_capacity \in Nat
      /\ \A c \in Clients : Available(c) <= capacity(c) /\ capacity(c) \in Nat
  BY <1>1, Supply
<1>3. /\ now = 0 /\ admitted_globally = 0 /\ \A c \in Clients : admitted[c] = 0
      /\ GlobalRate * 0 = 0 /\ \A c \in Clients : Rate[c] * 0 = 0
  BY RateAssumption, Products DEF LimiterInit
<1>4. GloballyAvailable \in Int /\ \A c \in Clients : Available(c) \in Int
  BY <1>1, Supply
<1> QED
  BY <1>2, <1>3, <1>4 DEF TokensArePaidFor, Worth

LEMMA PaidForNext ==
  ASSUME LimiterTypeOK, BucketsAreBounded, BucketIsKept, TokensArePaidFor, [LimiterNext]_limiterVars
  PROVE  TokensArePaidFor'
<1> DEFINE t == now' - now
<1>1. /\ t \in {0, 1} /\ now \in Nat /\ now' = now + t
      /\ \A c \in Clients : Worth(c)' <= Worth(c) + Rate[c] * t
      /\ (admitted_globally + GloballyAvailable)'
           <= admitted_globally + GloballyAvailable + GlobalRate * t
  BY StepIsPaidFor, TypeNext DEF LimiterTypeOK
<1>2. LimiterTypeOK'
  BY TypeNext
<1>3. ASSUME NEW c \in Clients
      PROVE  Worth(c)' <= capacity(c) + Rate[c] * now'
  <2>1. /\ Available(c) \in Int /\ capacity(c) \in Nat /\ Rate[c] \in Nat
        /\ admitted[c] \in Int /\ admitted'[c] \in Int
    BY <1>2, Supply, RateAssumption DEF LimiterTypeOK
  <2>2. Available(c)' \in Int
    BY <1>1, <1>2, <2>1, TimesAssumption DEF Available, Refill, AtMost, LimiterTypeOK, Bucket, capacity
  <2>3. /\ Rate[c] * now \in Nat /\ Rate[c] * t \in Nat
        /\ Rate[c] * now' = Rate[c] * now + Rate[c] * t
    <3>1. t \in Nat /\ now \in Nat /\ now' = now + t
      BY <1>1
    <3> HIDE DEF t
    <3>2. Rate[c] * (now + t) = Rate[c] * now + Rate[c] * t
      BY <2>1, <3>1, Products
    <3> QED
      BY <2>1, <3>1, <3>2, Products
  <2>4. Worth(c) <= capacity(c) + Rate[c] * now
    BY DEF TokensArePaidFor
  <2>5. Worth(c) \in Int /\ Worth(c)' \in Int
    BY <2>1, <2>2 DEF Worth
  <2>6. Worth(c)' <= Worth(c) + Rate[c] * t
    BY <1>1
  <2> HIDE DEF t
  <2> QED
    BY <2>1, <2>3, <2>4, <2>5, <2>6
<1>4. (admitted_globally + GloballyAvailable)' <= global_capacity + GlobalRate * now'
  <2> DEFINE w == admitted_globally + GloballyAvailable
  <2>1. /\ GloballyAvailable \in Int /\ global_capacity \in Nat /\ GlobalRate \in Nat
        /\ admitted_globally \in Nat /\ admitted_globally' \in Nat
    BY <1>2, Supply, RateAssumption DEF LimiterTypeOK
  <2>2. GloballyAvailable' \in Int
    BY <1>1, <1>2, <2>1, TimesAssumption DEF GloballyAvailable, Refill, AtMost, LimiterTypeOK, Bucket
  <2>3. /\ GlobalRate * now \in Nat /\ GlobalRate * t \in Nat
        /\ GlobalRate * now' = GlobalRate * now + GlobalRate * t
    BY <1>1, <2>1, Products
  <2>4. w <= global_capacity + GlobalRate * now
    BY DEF TokensArePaidFor
  <2>5. w \in Int /\ w' \in Int
    BY <2>1, <2>2
  <2>6. w' <= w + GlobalRate * t
    BY <1>1
  <2> HIDE DEF t, w
  <2>7. w' <= global_capacity + GlobalRate * now'
    BY <2>1, <2>3, <2>4, <2>5, <2>6
  <2> QED
    BY <2>7 DEF w
<1> QED
  BY <1>3, <1>4 DEF TokensArePaidFor, capacity, global_capacity

LEMMA PaidForIsWithinRate ==
  ASSUME LimiterTypeOK, BucketsAreBounded, TokensArePaidFor
  PROVE  WithinRate
<1>1. now \in Nat /\ Burst \in Nat
  BY TimesAssumption DEF LimiterTypeOK
<1>2. ASSUME NEW c \in Clients
      PROVE  admitted[c] <= Rate[c] * (Burst + now)
  <2>1. /\ Available(c) \in Nat /\ admitted[c] \in Int /\ Rate[c] \in Nat
        /\ capacity(c) = Rate[c] * Burst /\ capacity(c) \in Nat
    BY Supply, RateAssumption DEF capacity, LimiterTypeOK
  <2>2. Rate[c] * (Burst + now) = capacity(c) + Rate[c] * now /\ Rate[c] * now \in Nat
    BY <1>1, <2>1, Products
  <2>3. admitted[c] + Available(c) <= capacity(c) + Rate[c] * now
    BY DEF TokensArePaidFor, Worth
  <2> QED
    BY <2>1, <2>2, <2>3
<1>3. admitted_globally <= GlobalRate * (Burst + now)
  <2>1. /\ GloballyAvailable \in Nat /\ admitted_globally \in Nat /\ GlobalRate \in Nat
        /\ global_capacity = GlobalRate * Burst /\ global_capacity \in Nat
    BY Supply, RateAssumption DEF global_capacity, LimiterTypeOK
  <2>2. /\ GlobalRate * (Burst + now) = global_capacity + GlobalRate * now
        /\ GlobalRate * now \in Nat
    BY <1>1, <2>1, Products
  <2>3. admitted_globally + GloballyAvailable <= global_capacity + GlobalRate * now
    BY DEF TokensArePaidFor
  <2> QED
    BY <2>1, <2>2, <2>3
<1> QED
  BY <1>2, <1>3 DEF WithinRate

(* A request that is alone: in the states it passes, nobody else takes tokens. *)
LEMMA LoneNext ==
  ASSUME LimiterTypeOK, BucketsAreBounded, BucketIsKept, LoneHasItsShare, [LimiterNext]_limiterVars
  PROVE  LoneHasItsShare'
<1> SUFFICES ASSUME NEW q \in Requests, ~At(q, "idle")', request'[q].alone
             PROVE  /\ \A p \in Requests \ {q} : At(p, "idle")'
                    /\ Asked(q)' \in 0..now'
                    /\ (AtMost(capacity(Client(q)), Rate[Client(q)] * (now - Asked(q)))
                          <= Available(Client(q)) + Held(q))'
                    /\ (AtMost(global_capacity, GlobalRate * (now - Asked(q)))
                          <= GloballyAvailable)'
  BY DEF LoneHasItsShare
<1>1. LimiterTypeOK' /\ request'[q] \in Waiting /\ request[q] \in Waiting \cup {Idle}
  BY TypeNext DEF LimiterTypeOK, At, Idle
<1>2. PICK c \in Clients : c = request'[q].client
  BY <1>1 DEF Waiting
<1>3. /\ Client(q)' = c
      /\ capacity(c) \in Nat /\ Rate[c] \in Nat /\ Available(c) \in 0..capacity(c)
      /\ GlobalRate \in Nat /\ global_capacity \in Nat
      /\ GloballyAvailable \in 0..global_capacity /\ now \in Nat /\ Timeout \in Nat
  BY <1>2, Supply, RateAssumption, TimesAssumption DEF Client, LimiterTypeOK
<1> DEFINE share(t) == AtMost(capacity(c), Rate[c] * t)
           all(t) == AtMost(global_capacity, GlobalRate * t)
           asked == request'[q].deadline - Timeout
           held == IF At(q, "global") THEN Bytes(q) ELSE 0
           held1 == IF request'[q].pc = "global" THEN request'[q].bytes ELSE 0
<1>4. SUFFICES /\ \A p \in Requests \ {q} : At(p, "idle")'
               /\ asked \in 0..now'
               /\ share(now' - asked) <= Available(c)' + held1
               /\ all(now' - asked) <= GloballyAvailable'
  BY <1>3 DEF Asked, Held, At, Bytes, capacity, global_capacity
<1>5. ASSUME ~At(q, "idle"), request[q].alone
      PROVE  /\ \A p \in Requests \ {q} : At(p, "idle")
             /\ request[q].deadline - Timeout \in 0..now
             /\ Client(q) = c =>
                  share(now - (request[q].deadline - Timeout)) <= Available(c) + held
             /\ all(now - (request[q].deadline - Timeout)) <= GloballyAvailable
  BY <1>5 DEF LoneHasItsShare, Asked, Held
<1> HIDE DEF share, all, asked, held, held1
<1>6. ASSUME NEW r \in Requests, NEW d \in Clients, NEW n \in Sizes, Ask(r, d, n)
      PROVE  /\ \A p \in Requests \ {q} : At(p, "idle")'
             /\ asked \in 0..now'
             /\ share(now' - asked) <= Available(c)' + held1
             /\ all(now' - asked) <= GloballyAvailable'
  <2>1. q = r
    <3>1. ASSUME q # r PROVE FALSE
      <4>1. request'[q] = IF At(q, "idle") THEN Idle ELSE [request[q] EXCEPT !.alone = FALSE]
        BY <1>6, <3>1 DEF Ask
      <4>2. ~At(q, "idle") /\ request'[q] = [request[q] EXCEPT !.alone = FALSE]
        BY <4>1 DEF At, Idle
      <4>3. request[q] \in Waiting
        BY <1>1, <4>2 DEF At, Idle
      <4> QED
        BY <4>2, <4>3 DEF Waiting
    <3> QED
      BY <3>1
  <2>2. /\ request'[q] = [pc |-> "client", client |-> d, bytes |-> n,
                         deadline |-> now + Timeout, since |-> now,
                         alone |-> \A p \in Requests \ {r} : At(p, "idle")]
        /\ \A p \in Requests \ {r} :
             request'[p] = IF At(p, "idle") THEN Idle ELSE [request[p] EXCEPT !.alone = FALSE]
    BY <1>6, <2>1 DEF Ask
  <2>3. \A p \in Requests \ {q} : At(p, "idle")'
    <3> DEFINE lone == \A p \in Requests \ {r} : At(p, "idle")
    <3>1. request'[q] = [pc |-> "client", client |-> d, bytes |-> n,
                         deadline |-> now + Timeout, since |-> now, alone |-> lone]
      BY <2>2
    <3> HIDE DEF lone
    <3>2. request'[q].alone = lone
      BY <3>1
    <3>3. lone
      BY <3>2
    <3>4. ASSUME NEW p \in Requests \ {q}
          PROVE  request'[p] = Idle
      <4>1. At(p, "idle")
        BY <2>1, <3>3 DEF lone
      <4> QED
        BY <2>1, <2>2, <4>1
    <3> QED
      BY <3>4 DEF At, Idle
  <2>4. asked = now /\ held1 = 0 /\ now' = now /\ now' - asked = 0
    <3>1. request'[q].deadline = now + Timeout /\ request'[q].pc = "client"
      BY <2>2
    <3> QED
      BY <1>3, <1>6, <3>1 DEF Ask, asked, held1
  <2>5. Available(c)' = Available(c) /\ GloballyAvailable' = GloballyAvailable
    BY <1>6, OtherEffect DEF Ask
  <2>6. share(0) = 0 /\ all(0) = 0
    BY <1>3, Products DEF AtMost, share, all
  <2> QED
    BY <1>3, <2>3, <2>4, <2>5, <2>6
<1>7. ASSUME NEW r \in Requests, ~At(r, "idle"), \A p \in Requests \ {r} : request'[p] = request[p]
      PROVE  /\ q = r /\ request[q] \in Waiting
             /\ request[q].alone => \A p \in Requests \ {q} : At(p, "idle")'
  <2>1. q = r
    BY <1>5, <1>7 DEF At
  <2> QED
    BY <1>1, <1>5, <1>7, <2>1 DEF At, Idle
<1>8. ASSUME NEW r \in Requests, HeldBack(r), q = r, request[q] \in Waiting
      PROVE  /\ request'[q].client = request[q].client /\ request[q].alone
             /\ request'[q].deadline = request[q].deadline /\ held1 = 0
  <2>1. request'[q] = [request[q] EXCEPT !.pc = "asleep", !.since = now]
    BY <1>8 DEF HeldBack, At, Idle, LimiterTypeOK
  <2> QED
    BY <1>8, <2>1 DEF Waiting, held1
<1>9. ASSUME NEW r \in Requests, ConsumeClient(r)
      PROVE  /\ \A p \in Requests \ {q} : At(p, "idle")'
             /\ asked \in 0..now'
             /\ share(now' - asked) <= Available(c)' + held1
             /\ all(now' - asked) <= GloballyAvailable'
  <2>1. /\ ~At(r, "idle") /\ At(r, "client")
        /\ \A p \in Requests \ {r} : request'[p] = request[p]
    BY <1>9 DEF ConsumeClient, HeldBack, At, LimiterTypeOK
  <2>2. /\ q = r /\ request[q] \in Waiting /\ held = 0
        /\ request[q].alone => \A p \in Requests \ {q} : At(p, "idle")'
    BY <1>7, <2>1 DEF At, held
  <2>3. PICK d \in Clients : d = Client(r)
    BY <2>2 DEF Client, Waiting
  <2>4. /\ now' = now /\ GloballyAvailable' = GloballyAvailable /\ Bytes(r) \in Nat
        /\ \/ /\ Available(d)' = Available(d) - Bytes(r)
              /\ request' = [request EXCEPT ![r].pc = "global", ![r].since = now]
           \/ Available(d)' = Available(d) /\ HeldBack(r)
    BY <1>9, <2>3, ConsumeClientEffect
  <2>5. /\ request'[q].client = request[q].client /\ request[q].alone
        /\ request'[q].deadline = request[q].deadline
        /\ Available(d)' + held1 = Available(d)
    <3>1. CASE Available(d)' = Available(d) /\ HeldBack(r)
      <4>1. Available(d) \in Int
        BY Supply
      <4> QED
        BY <1>8, <2>2, <3>1, <4>1
    <3>2. CASE /\ Available(d)' = Available(d) - Bytes(r)
               /\ request' = [request EXCEPT ![r].pc = "global", ![r].since = now]
      <4>1. request'[q] = [request[q] EXCEPT !.pc = "global", !.since = now]
        BY <2>2, <3>2 DEF LimiterTypeOK
      <4>2. /\ request'[q].client = request[q].client /\ request[q].alone
            /\ request'[q].deadline = request[q].deadline /\ held1 = Bytes(r)
        BY <2>2, <4>1 DEF Waiting, Bytes, held1
      <4>3. Available(d) \in Int
        BY Supply
      <4> QED
        BY <2>4, <3>2, <4>2, <4>3
    <3> QED
      BY <2>4, <3>1, <3>2
  <2>6. d = c /\ Client(q) = c
    BY <1>2, <2>2, <2>3, <2>5 DEF Client
  <2>7. /\ share(now - (request[q].deadline - Timeout)) <= Available(c) + held
        /\ all(now - (request[q].deadline - Timeout)) <= GloballyAvailable
        /\ request[q].deadline - Timeout \in 0..now
        /\ \A p \in Requests \ {q} : At(p, "idle")'
    BY <1>5, <2>1, <2>2, <2>5, <2>6
  <2> QED
    BY <1>3, <2>2, <2>4, <2>5, <2>6, <2>7 DEF asked
<1>10. ASSUME NEW r \in Requests, ConsumeGlobal(r)
      PROVE  /\ \A p \in Requests \ {q} : At(p, "idle")'
             /\ asked \in 0..now'
             /\ share(now' - asked) <= Available(c)' + held1
             /\ all(now' - asked) <= GloballyAvailable'
  <2>1. /\ ~At(r, "idle") /\ At(r, "global")
        /\ \A p \in Requests \ {r} : request'[p] = request[p]
    BY <1>10 DEF ConsumeGlobal, HeldBack, At, LimiterTypeOK
  <2>2. /\ q = r /\ request[q] \in Waiting /\ held = Bytes(r)
        /\ request[q].alone => \A p \in Requests \ {q} : At(p, "idle")'
    BY <1>7, <2>1 DEF At, held
  <2>3. PICK d \in Clients : d = Client(r)
    BY <2>2 DEF Client, Waiting
  <2>4. /\ now' = now /\ Bytes(r) \in Nat
        /\ \/ request' = [request EXCEPT ![r] = Idle]
           \/ /\ Available(d)' = AtMost(capacity(d), Available(d) + Bytes(r))
              /\ GloballyAvailable' = GloballyAvailable
              /\ HeldBack(r)
    BY <1>10, <2>3, ConsumeGlobalEffect
  <2>5. request' # [request EXCEPT ![r] = Idle]
    BY <2>2 DEF At, Idle, LimiterTypeOK
  <2>6. /\ request'[q].client = request[q].client /\ request[q].alone
        /\ request'[q].deadline = request[q].deadline /\ held1 = 0
    BY <1>8, <2>2, <2>4, <2>5
  <2>7. d = c /\ Client(q) = c
    BY <1>2, <2>2, <2>3, <2>6 DEF Client
  <2>8. /\ share(now - (request[q].deadline - Timeout)) <= Available(c) + held
        /\ all(now - (request[q].deadline - Timeout)) <= GloballyAvailable
        /\ request[q].deadline - Timeout \in 0..now
    BY <1>5, <2>1, <2>2, <2>6, <2>7
  <2>9. ASSUME NEW t \in Nat, share(t) <= Available(c) + Bytes(r)
        PROVE  share(t) <= AtMost(capacity(c), Available(c) + Bytes(r))
    <3>1. Rate[c] * t \in Nat
      BY <1>3, Products
    <3> QED
      BY <1>3, <2>4, <2>9, <3>1 DEF share, AtMost
  <2>10. now - (request[q].deadline - Timeout) \in Nat
    BY <1>3, <2>8
  <2>11. AtMost(capacity(c), Available(c) + Bytes(r)) \in Nat
    BY <1>3, <2>4 DEF AtMost
  <2>12. share(now' - asked) <= Available(c)' + held1
    BY <2>2, <2>4, <2>5, <2>6, <2>7, <2>8, <2>9, <2>10, <2>11 DEF asked
  <2> QED
    BY <2>2, <2>4, <2>5, <2>6, <2>8, <2>12 DEF asked
<1>11. ASSUME NEW r \in Requests, Wake(r)
      PROVE  /\ \A p \in Requests \ {q} : At(p, "idle")'
             /\ asked \in 0..now'
             /\ share(now' - asked) <= Available(c)' + held1
             /\ all(now' - asked) <= GloballyAvailable'
  <2>1. /\ ~At(r, "idle") /\ At(r, "asleep")
        /\ \A p \in Requests \ {r} : request'[p] = request[p]
    BY <1>11 DEF Wake, At, LimiterTypeOK
  <2>2. /\ q = r /\ request[q] \in Waiting /\ held = 0
        /\ request[q].alone => \A p \in Requests \ {q} : At(p, "idle")'
    BY <1>7, <2>1 DEF At, held
  <2>3. request'[q] = [request[q] EXCEPT !.pc = "client"] /\ now' = now
    BY <1>11, <2>2 DEF Wake, LimiterTypeOK
  <2>4. /\ request'[q].client = request[q].client /\ request[q].alone
        /\ request'[q].deadline = request[q].deadline /\ held1 = 0
    BY <2>2, <2>3 DEF Waiting, held1
  <2>5. Available(c)' = Available(c) /\ GloballyAvailable' = GloballyAvailable
    BY <1>11, OtherEffect DEF Wake
  <2>6. Client(q) = c
    BY <1>2, <2>4 DEF Client
  <2> QED
    BY <1>5, <2>1, <2>2, <2>3, <2>4, <2>5, <2>6 DEF asked
<1>12. ASSUME Tick \/ UNCHANGED limiterVars
       PROVE  /\ ~At(q, "idle") /\ request[q].alone /\ Client(q) = c
              /\ \A p \in Requests \ {q} : At(p, "idle")'
              /\ asked = request[q].deadline - Timeout /\ held1 = held /\ held \in Nat
  <2>1. request' = request
    BY <1>12 DEF Tick, limiterVars
  <2>2. /\ ~At(q, "idle") /\ request[q].alone /\ Client(q) = c
        /\ asked = request[q].deadline - Timeout /\ held1 = held
    BY <1>2, <2>1 DEF At, Client, asked, held, held1, Bytes
  <2>3. \A p \in Requests \ {q} : At(p, "idle")
    BY <1>5, <2>2
  <2>4. held \in Nat
    BY <1>1, <2>1, SizesAssumption DEF held, Bytes, Waiting
  <2> QED
    BY <2>1, <2>2, <2>3, <2>4 DEF At
<1>13. ASSUME Tick
      PROVE  /\ \A p \in Requests \ {q} : At(p, "idle")'
             /\ asked \in 0..now'
             /\ share(now' - asked) <= Available(c)' + held1
             /\ all(now' - asked) <= GloballyAvailable'
  <2> DEFINE t == now - asked
  <2>1. /\ asked \in 0..now /\ share(t) <= Available(c) + held
        /\ all(t) <= GloballyAvailable /\ held1 = held /\ held \in Nat
    BY <1>5, <1>12, <1>13
  <2>2. /\ now' = now + 1 /\ Available(c)' = AtMost(capacity(c), Available(c) + Rate[c])
        /\ GloballyAvailable' = AtMost(global_capacity, GloballyAvailable + GlobalRate)
    BY <1>13, TickEffect
  <2>3. t \in Nat /\ now' - asked = t + 1
    BY <1>3, <2>1, <2>2
  <2> HIDE DEF t
  <2>4. /\ Rate[c] * t \in Nat /\ Rate[c] * (t + 1) = Rate[c] * t + Rate[c]
        /\ GlobalRate * t \in Nat /\ GlobalRate * (t + 1) = GlobalRate * t + GlobalRate
    <3>1. ASSUME NEW a \in Nat
          PROVE  a * t \in Nat /\ a * (t + 1) = a * t + a
      BY <2>3, Products
    <3> QED
      BY <1>3, <3>1
  <2>5. share(t + 1) <= AtMost(capacity(c), Available(c) + Rate[c]) + held
    BY <1>3, <2>1, <2>4 DEF share, AtMost
  <2>6. all(t + 1) <= AtMost(global_capacity, GloballyAvailable + GlobalRate)
    BY <1>3, <2>1, <2>4 DEF all, AtMost
  <2> QED
    <3>1. share(now' - asked) <= Available(c)' + held1
      BY <2>1, <2>2, <2>3, <2>5
    <3>2. all(now' - asked) <= GloballyAvailable'
      BY <2>2, <2>3, <2>6
    <3>3. asked \in 0..now'
      BY <1>3, <2>1, <2>2
    <3> QED
      BY <1>12, <1>13, <3>1, <3>2, <3>3
<1>14. ASSUME UNCHANGED limiterVars
      PROVE  /\ \A p \in Requests \ {q} : At(p, "idle")'
             /\ asked \in 0..now'
             /\ share(now' - asked) <= Available(c)' + held1
             /\ all(now' - asked) <= GloballyAvailable'
  <2>1. now' = now /\ Available(c)' = Available(c) /\ GloballyAvailable' = GloballyAvailable
    BY <1>14, OtherEffect DEF limiterVars
  <2> QED
    BY <1>5, <1>12, <1>14, <2>1
<1> QED
  BY <1>6, <1>9, <1>10, <1>11, <1>13, <1>14 DEF LimiterNext

(* Where a request that is alone and fits comes to an end: it has been let      *)
(* through, since after its timeout the buckets are full.                      *)
LEMMA LoneStep ==
  ASSUME LimiterTypeOK, BucketsAreBounded, BucketIsKept, LoneHasItsShare, [LimiterNext]_limiterVars,
         NEW q \in Requests, ~At(q, "idle"), request'[q] = Idle, request[q].alone,
         Bytes(q) <= capacity(Client(q)), Bytes(q) <= global_capacity
  PROVE  admitted_globally' = admitted_globally + Bytes(q)
<1>1. request[q] \in Waiting
  BY DEF LimiterTypeOK, At, Idle
<1>2. PICK c \in Clients : c = Client(q)
  BY <1>1 DEF Client, Waiting
<1>3. /\ request[q].deadline \in Nat /\ Bytes(q) \in Nat /\ now \in Nat /\ Timeout \in Nat
      /\ capacity(c) \in Nat /\ Rate[c] \in Nat /\ Available(c) \in 0..capacity(c)
      /\ GlobalRate \in Nat /\ global_capacity \in Nat
      /\ GloballyAvailable \in 0..global_capacity /\ Burst \in Nat /\ Burst <= Timeout
      /\ capacity(c) = Rate[c] * Burst /\ global_capacity = GlobalRate * Burst
  BY <1>1, Supply, RateAssumption, TimesAssumption, SizesAssumption
  DEF LimiterTypeOK, Bytes, Waiting, capacity, global_capacity
<1>4. /\ Asked(q) \in 0..now /\ Asked(q) = request[q].deadline - Timeout
      /\ AtMost(capacity(c), Rate[c] * (now - Asked(q))) <= Available(c) + Held(q)
      /\ AtMost(global_capacity, GlobalRate * (now - Asked(q))) <= GloballyAvailable
  BY <1>2 DEF LoneHasItsShare, Asked
<1>5. ASSUME TimesOut(q)
      PROVE  /\ capacity(c) <= Available(c) + Held(q)
             /\ global_capacity <= GloballyAvailable
  <2> DEFINE t == now - Asked(q)
  <2>1. t \in Nat /\ Burst <= t
    BY <1>3, <1>4, <1>5 DEF TimesOut
  <2> HIDE DEF t
  <2>2. ASSUME NEW a \in Nat
        PROVE  a * t \in Nat /\ a * Burst <= a * t
    BY <1>3, <2>1, Products
  <2>3. /\ capacity(c) <= Rate[c] * t /\ Rate[c] * t \in Nat
        /\ global_capacity <= GlobalRate * t /\ GlobalRate * t \in Nat
    BY <1>3, <2>2
  <2>4. /\ AtMost(capacity(c), Rate[c] * t) = capacity(c)
        /\ AtMost(global_capacity, GlobalRate * t) = global_capacity
    <3>1. ASSUME NEW x \in Nat, NEW limit \in Nat, limit <= x
          PROVE  AtMost(limit, x) = limit
      BY <3>1 DEF AtMost
    <3> QED
      BY <1>3, <2>3, <3>1
  <2>5. /\ AtMost(capacity(c), Rate[c] * t) <= Available(c) + Held(q)
        /\ AtMost(global_capacity, GlobalRate * t) <= GloballyAvailable
    BY <1>4 DEF t
  <2> QED
    BY <2>4, <2>5
<1>6. ASSUME HeldBack(q)
      PROVE  TimesOut(q)
  BY <1>1, <1>6 DEF HeldBack, Idle, LimiterTypeOK
<1>7. ASSUME NEW r \in Requests, request' = [request EXCEPT ![r] = request'[r]]
      PROVE  q = r
  BY <1>7 DEF At, LimiterTypeOK, Idle
<1>8. ASSUME NEW r \in Requests, NEW d \in Clients, NEW n \in Sizes, Ask(r, d, n)
      PROVE  FALSE
  <2>1. CASE q = r
    BY <1>8, <2>1 DEF Ask
  <2>2. CASE q # r
    <3>1. request'[q] = [request[q] EXCEPT !.alone = FALSE]
      BY <1>8, <2>2 DEF Ask
    <3> QED
      BY <1>1, <3>1 DEF Waiting, Idle, At
  <2> QED
    BY <2>1, <2>2
<1>9. ASSUME NEW r \in Requests, ConsumeClient(r)
      PROVE  FALSE
  <2>1. q = r
    BY <1>7, <1>9 DEF ConsumeClient, HeldBack, LimiterTypeOK
  <2>2. ~(request' = [request EXCEPT ![r].pc = "global", ![r].since = now])
    BY <1>1, <2>1 DEF Idle, LimiterTypeOK, Waiting
  <2>3. HeldBack(r) /\ Bytes(q) > Available(c) /\ Held(q) = 0
    BY <1>2, <1>9, <2>1, <2>2, ConsumeClientEffect DEF Held, ConsumeClient, At
  <2>4. capacity(c) <= Available(c)
    BY <1>3, <1>5, <1>6, <2>1, <2>3
  <2> QED
    BY <1>2, <1>3, <2>3, <2>4
<1>10. ASSUME NEW r \in Requests, ConsumeGlobal(r)
       PROVE  admitted_globally' = admitted_globally + Bytes(q)
  <2>1. q = r
    BY <1>7, <1>10 DEF ConsumeGlobal, HeldBack, LimiterTypeOK
  <2>2. CASE HeldBack(r) /\ Bytes(q) > GloballyAvailable
    BY <1>3, <1>5, <1>6, <2>1, <2>2
  <2> QED
    BY <1>2, <1>10, <2>1, <2>2, ConsumeGlobalEffect
<1>11. ASSUME NEW r \in Requests, Wake(r)
       PROVE  FALSE
  <2>1. q = r
    BY <1>7, <1>11 DEF Wake, LimiterTypeOK
  <2>2. request'[q] = [request[q] EXCEPT !.pc = "client"]
    BY <1>11, <2>1 DEF Wake, LimiterTypeOK
  <2> QED
    BY <1>1, <2>2 DEF Waiting, Idle
<1>12. CASE Tick \/ UNCHANGED limiterVars
  BY <1>12 DEF Tick, limiterVars, At, Idle
<1> QED
  BY <1>8, <1>9, <1>10, <1>11, <1>12 DEF LimiterNext

-----------------------------------------------------------------------------
(* The theorems. *)

(* The buckets are well typed, never hold more than a burst, are there as long *)
(* as a request may give tokens back to them, and every token was paid for by   *)
(* the time that passed; a request that is alone has its share of them:         *)
(* TokenBucket, _get_client_bucket, _maybe_cleanup and check_limit.              *)
THEOREM Accounts == LimiterSpec => []LimiterInv
<1>1. LimiterInit => LimiterInv
  <2>1. LimiterInit => BucketIsKept /\ LoneHasItsShare
    BY DEF LimiterInit, BucketIsKept, LoneHasItsShare, At, Idle
  <2> QED
    BY <2>1, TypeInit, BucketsInit, PaidForInit DEF LimiterInv
<1>2. LimiterInv /\ [LimiterNext]_limiterVars => LimiterInv'
  BY TypeNext, BucketsNext, KeptNext, PaidForNext, LoneNext DEF LimiterInv
<1> QED
  BY <1>1, <1>2, PTL DEF LimiterSpec

(* The type invariant of the rate limiter.                                    *)
THEOREM Typing == LimiterSpec => []LimiterTypeOK
<1>1. LimiterInv => LimiterTypeOK
  BY DEF LimiterInv
<1> QED
  BY <1>1, Accounts, PTL

(* Whatever the interleaving of consumptions, refusals, refunds and cleanups,  *)
(* a client and all clients together send at most a burst more than the rate.  *)
THEOREM Limited == LimiterSpec => []WithinRate
<1>1. LimiterInv => WithinRate
  BY PaidForIsWithinRate DEF LimiterInv
<1> QED
  BY <1>1, Accounts, PTL

(* No step, not even the removal of an idle bucket or a refund, gives a client *)
(* tokens that the time that passed in it has not paid for.                    *)
THEOREM NothingForFree == LimiterSpec => NoFreeTokens
<1>1. LimiterInv /\ [LimiterNext]_limiterVars =>
        [/\ \A c \in Clients : Worth(c)' <= Worth(c) + Rate[c] * (now' - now)
         /\ (admitted_globally + GloballyAvailable)'
              <= admitted_globally + GloballyAvailable + GlobalRate * (now' - now)]_limiterVars
  BY StepIsPaidFor DEF LimiterInv
<1> QED
  BY <1>1, Accounts, PTL DEF LimiterSpec, NoFreeTokens

(* A request that nobody disturbs and that fits the bursts never times out: the *)
(* client's tokens come back when the global bucket refuses it.                *)
THEOREM LoneSucceeds == LimiterSpec => LoneRequestSucceeds
<1>1. LimiterInv /\ [LimiterNext]_limiterVars =>
        [\A r \in Requests :
           ~At(r, "idle") /\ request'[r] = Idle /\ request[r].alone
             /\ Bytes(r) <= capacity(Client(r)) /\ Bytes(r) <= global_capacity
           => admitted_globally' = admitted_globally + Bytes(r)]_limiterVars
  BY LoneStep DEF LimiterInv
<1> QED
  BY <1>1, Accounts, PTL DEF LimiterSpec, LoneRequestSucceeds
=============================================================================
