------------------------------ MODULE KeyCache ------------------------------
(***************************************************************************)
(* The cache of the keys that sign the users' tokens: fetched from the     *)
(* dashboard when it has expired or a token names an unknown key, and used *)
(* beyond its expiry while the dashboard does not answer.                  *)
(*                                                                         *)
(* getPublicKey holds the mutex during its fetch and is one step;          *)
(* lookupWithRefresh takes the mutex again for a second fetch.             *)
(***************************************************************************)
EXTENDS Naturals

CONSTANTS
  Kids,          \* key identifiers
  NoKid,
  KeyTTL,        \* ticks a fetched set is good for
  LastKeyTick,   \* bound: the clock
  TokenRequests  \* concurrent requests with a token

ASSUME KeyAssumption == NoKid \notin Kids /\ KeyTTL \in Nat \ {0} /\ LastKeyTick \in Nat

VARIABLES
  tick,
  published,     \* keys the dashboard serves now
  keys,          \* the cached set
  expiry,
  tokenRequest,  \* the unknown key a request is going to fetch again
  verdict,       \* the lookup decided last
  \* History, read by the properties only.
  servedUntil    \* the last tick a key was served in, if any

keyVars == <<tick, published, keys, expiry, tokenRequest, verdict, servedUntil>>

-----------------------------------------------------------------------------
\* How a lookup ended: with a key of a set that is good, with a key of an expired
\* set, because the fetched set does not have it, or because the fetch failed.
Verdict == [kid : Kids \union {NoKid}, at : 0..LastKeyTick,
            how : {"none", "good", "expired", "unknown", "failed"}]

Decide(k, how) == verdict' = [kid |-> k, at |-> tick, how |-> how]

KeyTypeOK ==
  /\ tick \in 0..LastKeyTick
  /\ published \subseteq Kids
  /\ keys \subseteq Kids
  /\ expiry \in 0..(LastKeyTick + KeyTTL)
  /\ tokenRequest \in [TokenRequests -> Kids \union {NoKid}]
  /\ verdict \in Verdict
  /\ servedUntil \in [Kids -> 0..LastKeyTick]

\* main exits unless the first fetch, Ping, succeeds.
KeyInit ==
  /\ tick = 0
  /\ published \in SUBSET Kids
  /\ keys = published
  /\ expiry = KeyTTL
  /\ tokenRequest = [r \in TokenRequests |-> NoKid]
  /\ verdict = [kid |-> NoKid, at |-> 0, how |-> "none"]
  /\ servedUntil = [k \in Kids |-> 0]

Tick ==
  /\ tick < LastKeyTick
  /\ tick' = tick + 1
  /\ servedUntil' = [k \in Kids |-> IF k \in published THEN tick + 1 ELSE servedUntil[k]]
  /\ UNCHANGED <<published, keys, expiry, tokenRequest, verdict>>

Rotate(new) ==
  /\ new # published
  /\ published' = new
  /\ servedUntil' = [k \in Kids |-> IF k \in new THEN tick ELSE servedUntil[k]]
  /\ UNCHANGED <<tick, keys, expiry, tokenRequest, verdict>>

\* Mutant: keys are added to the map that is there.
MergeKeys ==
  /\ keys' = keys \union published
  /\ expiry' = tick + KeyTTL

\* refreshLocked, when the dashboard answers: a new set, also an empty one.
RefreshLocked ==
  /\ keys' = published
  /\ expiry' = tick + KeyTTL

\* Each request has its own step of getPublicKey and at most one more fetch.
GoodKey(k) == tick < expiry /\ k \in keys

LookUpCached(k) ==
  /\ GoodKey(k)
  /\ Decide(k, "good")
  /\ UNCHANGED <<tick, published, keys, expiry, tokenRequest, servedUntil>>

\* The set has expired, or does not have the key: a fetch that succeeds.
LookUpRefreshed(r, k) ==
  /\ tokenRequest[r] = NoKid
  /\ ~GoodKey(k)
  /\ RefreshLocked
  /\ IF k \in keys' THEN Decide(k, "good") /\ UNCHANGED tokenRequest
     ELSE tokenRequest' = [tokenRequest EXCEPT ![r] = k] /\ UNCHANGED verdict
  /\ UNCHANGED <<tick, published, servedUntil>>

\* The fetch fails: the old set is used, whatever its age.
LookUpStale(k) ==
  /\ ~GoodKey(k)
  /\ Decide(k, IF k \in keys THEN "expired" ELSE "failed")
  /\ UNCHANGED <<tick, published, keys, expiry, tokenRequest, servedUntil>>

\* ErrKidNotFound: lookupWithRefresh fetches once more.
RefreshAgain(r, answered) ==
  LET k == tokenRequest[r] IN
  /\ k # NoKid
  /\ tokenRequest' = [tokenRequest EXCEPT ![r] = NoKid]
  /\ IF answered
     THEN RefreshLocked /\ Decide(k, IF k \in keys' THEN "good" ELSE "unknown")
     ELSE Decide(k, "failed") /\ UNCHANGED <<keys, expiry>>
  /\ UNCHANGED <<tick, published, servedUntil>>

KeyNext ==
  \/ Tick
  \/ \E new \in SUBSET Kids : Rotate(new)
  \/ \E k \in Kids : LookUpCached(k) \/ LookUpStale(k) \/ \E r \in TokenRequests : LookUpRefreshed(r, k)
  \/ \E r \in TokenRequests, answered \in BOOLEAN : RefreshAgain(r, answered)

KeySpec == KeyInit /\ [][KeyNext]_keyVars

-----------------------------------------------------------------------------
\* Unless the dashboard fails, a key is accepted for less than the TTL after it
\* was served last, and no key is unknown that is served when the second fetch
\* is made (auth.go:111).
KeyAcceptedWhileServed ==
  [][verdict' # verdict =>
       /\ verdict'.how = "good" => tick < servedUntil[verdict'.kid] + KeyTTL
       /\ verdict'.how = "unknown" => verdict'.kid \notin published]_keyVars

-----------------------------------------------------------------------------
(* The inductive invariant.                                                *)

\* What is served now is on record, and a cached set expires at most the TTL after
\* each of its keys was served (auth.go:111).
ServedInv ==
  /\ \A k \in Kids : servedUntil[k] <= tick
  /\ \A k \in published : servedUntil[k] = tick
  /\ \A k \in keys : expiry <= servedUntil[k] + KeyTTL

KeyInv == KeyTypeOK /\ ServedInv
=============================================================================
