----------------------------- MODULE RateLimiter -----------------------------
(***************************************************************************)
(* The limiter in front of every route: a token bucket per client, kept in *)
(* a map from which a goroutine removes the clients not seen for a while.  *)
(*                                                                         *)
(* getClient hands out the bucket under the mutex; the token is taken from *)
(* it after the mutex is released, when the map may have lost the bucket.  *)
(***************************************************************************)
EXTENDS Naturals, Sequences

CONSTANTS
  Clients,
  Burst,         \* size of a bucket (60, or 120 for users who are logged in)
  Rate,          \* tokens per tick (1 or 2 per second)
  IdleTicks,     \* ticks after which a client may be removed (5 minutes); in them
                 \* an empty bucket fills
  Callers,       \* concurrent requests
  MaxBuckets,    \* bound: buckets ever made
  LastCall       \* bound: the clock

\* An empty bucket is full again when its client may be removed: 60 tokens at one
\* per second, and 120 at two, in five minutes (ratelimit.go:32, :104, :108).
ASSUME LimiterAssumption ==
  /\ Burst \in Nat /\ Rate \in Nat /\ IdleTicks \in Nat
  /\ Burst <= Rate * (IdleTicks + 1)
  /\ MaxBuckets \in Nat /\ LastCall \in Nat

VARIABLES
  now,
  buckets,       \* tokens in each bucket ever made
  bucketOf,      \* the map: a client's bucket, 0 if it has none
  lastSeen,
  caller,        \* the bucket a request was handed, 0 if none, and (history) when
  \* History, read by the property only.
  budget         \* tokens of a client's bucket had it never been removed

limiterVars == <<now, buckets, bucketOf, lastSeen, caller, budget>>

-----------------------------------------------------------------------------
NoBucket == [bucket |-> 0, at |-> 0]

LimiterTypeOK ==
  /\ now \in 0..LastCall
  /\ buckets \in Seq(0..Burst) /\ Len(buckets) <= MaxBuckets
  /\ bucketOf \in [Clients -> 0..MaxBuckets]
  /\ lastSeen \in [Clients -> 0..LastCall]
  /\ caller \in [Callers -> [bucket : 0..MaxBuckets, at : 0..LastCall]]
  /\ budget \in [Clients -> 0..Burst]

LimiterInit ==
  /\ now = 0
  /\ buckets = <<>>
  /\ bucketOf = [c \in Clients |-> 0]
  /\ lastSeen = [c \in Clients |-> 0]
  /\ caller = [r \in Callers |-> NoBucket]
  /\ budget = [c \in Clients |-> Burst]

\* Mutant: a bucket fills without an end.
RefilledOver(n) == n + Rate

\* No bucket holds more than a burst.
Refilled(n) == IF n + Rate < Burst THEN n + Rate ELSE Burst

\* Time passes: buckets fill as the arithmetic of rate.Limiter has it.
TimePasses ==
  /\ now < LastCall
  /\ now' = now + 1
  /\ buckets' = [i \in DOMAIN buckets |-> Refilled(buckets[i])]
  /\ budget' = [c \in Clients |-> Refilled(budget[c])]
  /\ UNCHANGED <<bucketOf, lastSeen, caller>>

\* Mutant: a client that is known is not seen again.
GetUnseen(r, c) ==
  /\ caller[r] = NoBucket
  /\ bucketOf[c] = 0 => Len(buckets) < MaxBuckets
  /\ IF bucketOf[c] = 0
     THEN /\ buckets' = Append(buckets, Burst)
          /\ bucketOf' = [bucketOf EXCEPT ![c] = Len(buckets) + 1]
          /\ lastSeen' = [lastSeen EXCEPT ![c] = now]
     ELSE UNCHANGED <<buckets, bucketOf, lastSeen>>
  /\ caller' = [caller EXCEPT ![r] = [bucket |-> bucketOf'[c], at |-> now]]
  /\ UNCHANGED <<now, budget>>

getClient(r, c) ==
  /\ caller[r] = NoBucket
  /\ bucketOf[c] = 0 => Len(buckets) < MaxBuckets
  /\ IF bucketOf[c] = 0
     THEN /\ buckets' = Append(buckets, Burst)
          /\ bucketOf' = [bucketOf EXCEPT ![c] = Len(buckets) + 1]
     ELSE UNCHANGED <<buckets, bucketOf>>
  /\ lastSeen' = [lastSeen EXCEPT ![c] = now]
  /\ caller' = [caller EXCEPT ![r] = [bucket |-> bucketOf'[c], at |-> now]]
  /\ UNCHANGED <<now, budget>>

\* limiter.Allow(): one token, or 429.  The token is counted against the client
\* unless the request has stalled since getClient, into a later tick or until the
\* map had lost the bucket.
Allow(r) ==
  LET b == caller[r].bucket
      taken == buckets[b] > 0
      counted(c) == taken /\ bucketOf[c] = b /\ caller[r].at = now
  IN
  /\ caller[r] # NoBucket
  /\ buckets' = IF taken THEN [buckets EXCEPT ![b] = buckets[b] - 1] ELSE buckets
  /\ budget' = [c \in Clients |-> IF counted(c) /\ budget[c] > 0 THEN budget[c] - 1 ELSE budget[c]]
  /\ caller' = [caller EXCEPT ![r] = NoBucket]
  /\ UNCHANGED <<now, bucketOf, lastSeen>>

\* cleanup's pass over the map.
Cleanup ==
  LET idle == {c \in Clients : bucketOf[c] # 0 /\ now > lastSeen[c] + IdleTicks} IN
  /\ idle # {}
  /\ bucketOf' = [c \in Clients |-> IF c \in idle THEN 0 ELSE bucketOf[c]]
  /\ UNCHANGED <<now, buckets, lastSeen, caller, budget>>

LimiterNext ==
  \/ TimePasses
  \/ \E r \in Callers : Allow(r) \/ \E c \in Clients : getClient(r, c)
  \/ Cleanup

LimiterSpec == LimiterInit /\ [][LimiterNext]_limiterVars

-----------------------------------------------------------------------------
\* Removing a client grants it nothing, but for requests that stall between the two
\* steps: its bucket never holds more than it would had the map kept it
\* (ratelimit.go:52).
RemovalGrantsNothing ==
  \A c \in Clients : bucketOf[c] # 0 => buckets[bucketOf[c]] <= budget[c]

-----------------------------------------------------------------------------
(* The inductive invariant.                                                *)

\* A bucket belongs to one client, and a request has a bucket that was made.
BucketInv ==
  /\ \A c \in Clients : bucketOf[c] <= Len(buckets)
  /\ \A c, d \in Clients : bucketOf[c] = bucketOf[d] /\ bucketOf[c] # 0 => c = d
  /\ \A r \in Callers : caller[r] # NoBucket => caller[r].bucket \in DOMAIN buckets

\* A client has been seen since any request with its bucket (ratelimit.go:38).
SeenInv ==
  /\ \A c \in Clients : lastSeen[c] <= now
  /\ \A r \in Callers, c \in Clients :
       caller[r] # NoBucket /\ bucketOf[c] = caller[r].bucket => caller[r].at <= lastSeen[c]

\* Tokens are counted when a client is seen only, so the bucket it had kept has
\* filled up since; it is full when the client has been removed (ratelimit.go:52).
BudgetInv ==
  \A c \in Clients :
    /\ budget[c] < Burst => Rate * (now - lastSeen[c]) <= budget[c]
    /\ bucketOf[c] = 0 => budget[c] = Burst

LimiterInv ==
  /\ LimiterTypeOK
  /\ BucketInv
  /\ SeenInv
  /\ BudgetInv
  /\ RemovalGrantsNothing
=============================================================================
