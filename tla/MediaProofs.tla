----------------------------- MODULE MediaProofs -----------------------------
(***************************************************************************)
(* Theorems about the media library, for any number of users, file names,  *)
(* ticks and concurrent requests.                                          *)
(***************************************************************************)
EXTENDS MediaLibrary, SequenceTheorems, TLAPS

-----------------------------------------------------------------------------
(* Types.                                                                  *)

MediaLocals == [at : {"idle", "unpend", "insert", "blob", "erase"}, user : Users \union {Nobody},
                keys : SUBSET Keys]

LEMMA MediaRows ==
  ASSUME MediaTypeOK
  PROVE  /\ DOMAIN assets = 1..Len(assets) /\ Len(assets) \in Nat
         /\ \A a \in DOMAIN assets : assets[a] \in Asset /\ a \in Nat
         /\ assets \in [1..Len(assets) -> Asset]
         /\ mediaRequest \in [MediaRequests -> MediaLocals]
BY LenProperties DEF MediaTypeOK, MediaLocals

\* What MediaRequestInv says of a request with local variables s.
SoundMedia(s) ==
  /\ s \in MediaLocals
  /\ s.at \in {"unpend", "insert", "blob"} => \E k \in Keys : s.keys = {k}
  /\ s.at \in {"unpend", "insert", "erase"} => s.user \in Users
  /\ s.at = "idle" => s.keys = {}

LEMMA NoMediaRequestSound == SoundMedia(NoMediaRequest)
BY DEF SoundMedia, MediaLocals, NoMediaRequest

\* Request r goes on with local variables s.
Moves(r, s) == SoundMedia(s) /\ mediaRequest' = [mediaRequest EXCEPT ![r] = s]

\* Every step that is not a restart moves at most one request, and leaves it
\* with sound local variables.
LEMMA MediaMoves ==
  ASSUME MediaTypeOK, MediaRequestInv, NEW r \in MediaRequests
  PROVE  /\ \A u \in Users, k \in Keys :
              Complete(r, u, k) => Moves(r, [at |-> "unpend", user |-> u, keys |-> {k}])
         /\ \A deleted \in BOOLEAN :
              Unpend(r, deleted)
              => Moves(r, [at |-> "insert", user |-> mediaRequest[r].user, keys |-> mediaRequest[r].keys])
         /\ \A a \in DOMAIN assets :
              DeleteAsset(r, a) => Moves(r, [at |-> "blob", user |-> Nobody, keys |-> {assets[a].key}])
         /\ \A u \in Users :
              CollectPendingMediaKeys(r, u)
              => Moves(r, [at |-> "erase", user |-> u, keys |-> {k \in Keys : pendingOf[k] = u}])
         /\ Done(r) => Moves(r, NoMediaRequest)
<1> USE MediaRows
<1>1. ASSUME NEW u \in Users, NEW k \in Keys, Complete(r, u, k)
      PROVE  Moves(r, [at |-> "unpend", user |-> u, keys |-> {k}])
  BY <1>1 DEF Complete, Set, Moves, SoundMedia, MediaLocals
<1>2. ASSUME NEW deleted \in BOOLEAN, Unpend(r, deleted)
      PROVE  Moves(r, [at |-> "insert", user |-> mediaRequest[r].user, keys |-> mediaRequest[r].keys])
  BY <1>2 DEF Unpend, Set, Moves, SoundMedia, MediaLocals, MediaRequestInv
<1>3. ASSUME NEW a \in DOMAIN assets, DeleteAsset(r, a)
      PROVE  Moves(r, [at |-> "blob", user |-> Nobody, keys |-> {assets[a].key}])
  BY <1>3 DEF DeleteAsset, Set, Moves, SoundMedia, MediaLocals, Asset
<1>4. ASSUME NEW u \in Users, CollectPendingMediaKeys(r, u)
      PROVE  Moves(r, [at |-> "erase", user |-> u, keys |-> {k \in Keys : pendingOf[k] = u}])
  BY <1>4 DEF CollectPendingMediaKeys, Set, Moves, SoundMedia, MediaLocals
<1>5. Done(r) => Moves(r, NoMediaRequest)
  BY NoMediaRequestSound DEF Done, Moves
<1> QED BY <1>1, <1>2, <1>3, <1>4, <1>5

LEMMA MediaRequestsKept ==
  ASSUME MediaTypeOK, MediaRequestInv, [MediaNext]_mediaVars
  PROVE  mediaRequest' \in [MediaRequests -> MediaLocals] /\ MediaRequestInv'
<1> USE MediaRows
<1> DEFINE Goal == mediaRequest' \in [MediaRequests -> MediaLocals] /\ MediaRequestInv'
<1>1. \A q \in MediaRequests : SoundMedia(mediaRequest[q])
  BY DEF SoundMedia, MediaRequestInv, Unused
<1>2. ASSUME mediaRequest' = [q \in MediaRequests |-> mediaRequest'[q]],
             \A q \in MediaRequests : SoundMedia(mediaRequest'[q])
      PROVE  Goal
  BY <1>2 DEF SoundMedia, MediaRequestInv, Unused
<1> HIDE DEF Goal
<1>3. ASSUME NEW r \in MediaRequests, NEW s, Moves(r, s)
      PROVE  Goal
  <2>1. \A q \in MediaRequests : mediaRequest'[q] = IF q = r THEN s ELSE mediaRequest[q]
    BY <1>3 DEF Moves
  <2>2. mediaRequest' = [q \in MediaRequests |-> mediaRequest'[q]]
    BY <1>3 DEF Moves
  <2> QED BY <1>1, <1>2, <1>3, <2>1, <2>2 DEF Moves
<1>4. ASSUME UNCHANGED mediaRequest
      PROVE  Goal
  BY <1>1, <1>2, <1>4
<1>5. ASSUME Restart
      PROVE  Goal
  BY <1>2, <1>5, NoMediaRequestSound DEF Restart
<1>6. ASSUME NEW r \in MediaRequests, Done(r)
      PROVE  Goal
  BY <1>3, <1>6, MediaMoves
<1>7. ASSUME NEW r \in MediaRequests, NEW u \in Users, NEW k \in Keys, Complete(r, u, k)
      PROVE  Goal
  BY <1>3, <1>7, MediaMoves
<1>8. ASSUME NEW r \in MediaRequests, NEW deleted \in BOOLEAN, Unpend(r, deleted)
      PROVE  Goal
  BY <1>3, <1>8, MediaMoves
<1>9. ASSUME NEW r \in MediaRequests, NEW a \in 1..MaxAssets, DeleteAsset(r, a)
      PROVE  Goal
  <2>1. a \in DOMAIN assets
    BY <1>9 DEF DeleteAsset
  <2> QED BY <1>3, <1>9, <2>1, MediaMoves
<1>10. ASSUME NEW r \in MediaRequests, NEW u \in Users, CollectPendingMediaKeys(r, u)
       PROVE  Goal
  BY <1>3, <1>10, MediaMoves
<1>11. \A r \in MediaRequests :
         \/ InsertAsset(r) \/ \E deleted \in BOOLEAN : DeleteBlob(r, deleted)
         \/ CommitDeletion(r) \/ MediaCutOff(r)
         => Done(r)
  BY DEF InsertAsset, DeleteBlob, CommitDeletion, MediaCutOff
<1>12. /\ \A u \in Users, name \in FileNames, stored \in BOOLEAN :
            Presign(u, name, stored) => UNCHANGED mediaRequest
       /\ \A u \in Users, k \in Keys : Upload(u, k) => UNCHANGED mediaRequest
       /\ \A k \in Keys, deleted \in BOOLEAN : CleanupR2(k, deleted) => UNCHANGED mediaRequest
       /\ \A linked : DeleteDestination(linked) => UNCHANGED mediaRequest
       /\ MediaTick \/ UNCHANGED mediaVars => UNCHANGED mediaRequest
  BY DEF Presign, Upload, CleanupR2, DeleteDestination, MediaTick, mediaVars
<1> QED BY <1>4, <1>5, <1>6, <1>7, <1>8, <1>9, <1>10, <1>11, <1>12 DEF MediaNext, Goal

\* A new row of media_assets, the only one of the request's key ..
LEMMA AssetInserted ==
  ASSUME MediaTypeOK, MediaRequestInv, NEW r \in MediaRequests, InsertAsset(r)
  PROVE  LET n == Len(assets) + 1 IN
         \E k \in Keys :
           /\ mediaRequest[r].keys = {k} /\ mediaRequest[r].user \in Users
           /\ assets' \in Seq(Asset) /\ Len(assets') <= MaxAssets
           /\ DOMAIN assets' = DOMAIN assets \union {n} /\ n \notin DOMAIN assets
           /\ assets'[n] = [key |-> k, by |-> mediaRequest[r].user, present |-> TRUE]
           /\ \A a \in DOMAIN assets : assets'[a] = assets[a]
<1> USE MediaRows
<1>1. PICK k \in Keys : mediaRequest[r].keys = {k}
  BY DEF InsertAsset, MediaRequestInv
<1> DEFINE n == Len(assets) + 1
           new == [key |-> k, by |-> mediaRequest[r].user, present |-> TRUE]
<1>2. mediaRequest[r].user \in Users /\ assets \in Seq(Asset)
  BY DEF InsertAsset, MediaRequestInv, MediaTypeOK
<1>3. new \in Asset /\ assets' = Append(assets, new) /\ Len(assets) < MaxAssets
  BY <1>1, <1>2 DEF InsertAsset, Asset
<1>4. new = [key |-> k, by |-> mediaRequest[r].user, present |-> TRUE]
  OBVIOUS
<1> HIDE DEF new
<1>5. /\ assets' \in Seq(Asset) /\ Len(assets') = n
      /\ DOMAIN assets' = DOMAIN assets \union {n} /\ n \notin DOMAIN assets
      /\ assets'[n] = new
      /\ \A a \in DOMAIN assets : assets'[a] = assets[a]
  BY <1>2, <1>3, AppendProperties, LenProperties
<1>6. Len(assets') <= MaxAssets
  BY <1>3, <1>5, MediaAssumption
<1> QED BY <1>1, <1>2, <1>4, <1>5, <1>6

\* .. and one that goes.
LEMMA AssetDeleted ==
  ASSUME MediaTypeOK, NEW r \in MediaRequests, NEW d \in DOMAIN assets, DeleteAsset(r, d)
  PROVE  /\ assets' \in Seq(Asset) /\ Len(assets') <= MaxAssets
         /\ DOMAIN assets' = DOMAIN assets
         /\ ~assets'[d].present
         /\ \A a \in DOMAIN assets :
              /\ assets'[a].key = assets[a].key /\ assets'[a].by = assets[a].by
              /\ a # d => assets'[a] = assets[a]
<1> USE MediaRows
<1>1. assets' \in [1..Len(assets) -> Asset]
  BY DEF DeleteAsset, Asset
<1>2. assets' \in Seq(Asset) /\ Len(assets') = Len(assets) /\ DOMAIN assets' = DOMAIN assets
  BY <1>1, SeqDef, LenProperties
<1> QED BY <1>2 DEF DeleteAsset, Asset, MediaTypeOK

\* Rows that go with a destination.
LEMMA AssetsUnlisted ==
  ASSUME MediaTypeOK, NEW linked, DeleteDestination(linked)
  PROVE  /\ assets' \in Seq(Asset) /\ Len(assets') <= MaxAssets
         /\ DOMAIN assets' = DOMAIN assets
         /\ \A a \in DOMAIN assets :
              /\ assets'[a].key = assets[a].key /\ assets'[a].by = assets[a].by
              /\ assets'[a].present => assets[a].present
              /\ a \notin linked => assets'[a] = assets[a]
              /\ a \in linked => assets[a].key \in leaked'
<1> USE MediaRows
<1>1. assets' \in [1..Len(assets) -> Asset]
  BY DEF DeleteDestination, Asset
<1>2. assets' \in Seq(Asset) /\ Len(assets') = Len(assets) /\ DOMAIN assets' = DOMAIN assets
  BY <1>1, SeqDef, LenProperties
<1>3. ASSUME NEW a \in DOMAIN assets
      PROVE  /\ assets'[a].key = assets[a].key /\ assets'[a].by = assets[a].by
             /\ assets'[a].present => assets[a].present
             /\ a \notin linked => assets'[a] = assets[a]
             /\ a \in linked => assets[a].key \in leaked'
  BY DEF DeleteDestination, Asset
<1> QED BY <1>2, <1>3 DEF MediaTypeOK

\* Which parts of the state the other steps leave alone.
LEMMA AssetsElsewhere ==
  ASSUME [MediaNext]_mediaVars
  PROVE  \/ UNCHANGED assets
         \/ \E r \in MediaRequests : InsertAsset(r)
         \/ \E r \in MediaRequests : \E d \in DOMAIN assets : DeleteAsset(r, d)
         \/ \E linked : DeleteDestination(linked)
BY DEF MediaNext, mediaVars, Presign, Upload, Complete, Unpend, DeleteAsset, DeleteBlob,
       CollectPendingMediaKeys, CommitDeletion, CleanupR2, MediaCutOff, Restart, MediaTick

LEMMA MediaTypeInductive ==
  ASSUME MediaTypeOK, MediaRequestInv, [MediaNext]_mediaVars
  PROVE  MediaTypeOK'
<1> USE MediaRows
<1>1. clock' \in Ticks
  <2>1. clock' = clock \/ MediaTick
    BY DEF MediaNext, mediaVars, Presign, Upload, Complete, Unpend, InsertAsset, DeleteAsset, DeleteDestination, DeleteBlob,
           CollectPendingMediaKeys, CommitDeletion, CleanupR2, MediaCutOff, Restart
  <2>2. MediaTick => clock' \in Ticks
    BY MediaAssumption DEF MediaTick, MediaTypeOK, Ticks
  <2> QED BY <2>1, <2>2 DEF MediaTypeOK
<1>2. ASSUME NEW u \in Users, NEW name \in FileNames
      PROVE  <<clock, name>> \in Keys
  BY DEF MediaTypeOK, Keys
<1>3. pendingOf' \in [Keys -> Users \union {Nobody}]
  <2>1. \/ UNCHANGED pendingOf
        \/ \E u \in Users, name \in FileNames, stored \in BOOLEAN : Presign(u, name, stored)
        \/ \E r \in MediaRequests, deleted \in BOOLEAN : Unpend(r, deleted)
        \/ \E r \in MediaRequests : CommitDeletion(r)
    BY DEF MediaNext, mediaVars, Upload, Complete, InsertAsset, DeleteAsset, DeleteDestination, DeleteBlob,
           CollectPendingMediaKeys, CleanupR2, MediaCutOff, Restart, MediaTick
  <2>2. \A u \in Users, name \in FileNames, stored \in BOOLEAN :
          Presign(u, name, stored) => pendingOf' \in [Keys -> Users \union {Nobody}]
    BY <1>2 DEF Presign, MediaTypeOK
  <2>3. \A r \in MediaRequests :
          CommitDeletion(r) \/ (\E deleted \in BOOLEAN : Unpend(r, deleted))
          => pendingOf' \in [Keys -> Users \union {Nobody}]
    BY DEF CommitDeletion, Unpend, MediaTypeOK
  <2> QED BY <2>1, <2>2, <2>3 DEF MediaTypeOK
<1>4. urls' \subseteq Users \X Keys /\ shared' \subseteq Keys
  <2>1. \/ UNCHANGED <<urls, shared>>
        \/ \E u \in Users, name \in FileNames, stored \in BOOLEAN : Presign(u, name, stored)
    BY DEF MediaNext, mediaVars, Upload, Complete, Unpend, InsertAsset, DeleteAsset, DeleteDestination, DeleteBlob,
           CollectPendingMediaKeys, CommitDeletion, CleanupR2, MediaCutOff, Restart, MediaTick
  <2>2. ASSUME NEW u \in Users, NEW name \in FileNames, NEW stored \in BOOLEAN, Presign(u, name, stored)
        PROVE  urls' \subseteq Users \X Keys /\ shared' \subseteq Keys
    <3> DEFINE k == <<clock, name>>
    <3>1. k \in Keys
      BY <1>2
    <3>2. urls' = urls \union {<<u, k>>} /\ shared' \subseteq shared \union {k}
      BY <2>2 DEF Presign
    <3> HIDE DEF k
    <3> QED BY <3>1, <3>2 DEF MediaTypeOK
  <2> QED BY <2>1, <2>2 DEF MediaTypeOK
<1>5. objects' \in [Keys -> Users \union {Nobody}]
  <2>1. \/ UNCHANGED objects
        \/ \E u \in Users, k \in Keys : Upload(u, k)
        \/ \E r \in MediaRequests, deleted \in BOOLEAN : DeleteBlob(r, deleted)
        \/ \E k \in Keys, deleted \in BOOLEAN : CleanupR2(k, deleted)
    BY DEF MediaNext, mediaVars, Presign, Complete, Unpend, InsertAsset, DeleteAsset, DeleteDestination,
           CollectPendingMediaKeys, CommitDeletion, MediaCutOff, Restart, MediaTick
  <2> QED BY <2>1 DEF Upload, DeleteBlob, CleanupR2, MediaTypeOK
<1>6. assets' \in Seq(Asset) /\ Len(assets') <= MaxAssets
  <2>1. \A r \in MediaRequests : InsertAsset(r) => assets' \in Seq(Asset) /\ Len(assets') <= MaxAssets
    BY AssetInserted
  <2>2. \A linked : DeleteDestination(linked) => assets' \in Seq(Asset) /\ Len(assets') <= MaxAssets
    BY AssetsUnlisted
  <2> QED BY <2>1, <2>2, AssetDeleted, AssetsElsewhere DEF MediaTypeOK
<1>7. mediaRequest' \in [MediaRequests -> MediaLocals]
  BY MediaRequestsKept
<1>8. ASSUME NEW r \in MediaRequests
      PROVE  mediaRequest[r].keys \subseteq Keys
  BY DEF MediaLocals
<1>9. cleaning' \subseteq Keys
  <2>1. \/ cleaning' \subseteq cleaning
        \/ \E r \in MediaRequests : CommitDeletion(r)
    BY DEF MediaNext, mediaVars, Presign, Upload, Complete, Unpend, InsertAsset, DeleteAsset, DeleteDestination, DeleteBlob,
           CollectPendingMediaKeys, CleanupR2, MediaCutOff, Restart, MediaTick
  <2> QED BY <1>8, <2>1 DEF CommitDeletion, MediaTypeOK
<1>10. uploaded' \subseteq Keys
  <2>1. \/ UNCHANGED uploaded
        \/ \E u \in Users, k \in Keys : Upload(u, k)
    BY DEF MediaNext, mediaVars, Presign, Complete, Unpend, InsertAsset, DeleteAsset, DeleteDestination, DeleteBlob,
           CollectPendingMediaKeys, CommitDeletion, CleanupR2, MediaCutOff, Restart, MediaTick
  <2>2. \A u \in Users, k \in Keys : Upload(u, k) => uploaded' \subseteq Keys
    BY DEF Upload, MediaTypeOK
  <2> QED BY <2>1, <2>2 DEF MediaTypeOK
<1>11. raced' \subseteq Keys
  <2>1. \/ UNCHANGED raced
        \/ \E r \in MediaRequests, u \in Users, k \in Keys : Complete(r, u, k)
        \/ \E r \in MediaRequests, deleted \in BOOLEAN : Unpend(r, deleted)
        \/ \E r \in MediaRequests, u \in Users : CollectPendingMediaKeys(r, u)
    BY DEF MediaNext, mediaVars, Presign, Upload, InsertAsset, DeleteAsset, DeleteDestination, DeleteBlob,
           CommitDeletion, CleanupR2, MediaCutOff, Restart, MediaTick
  <2>2. \A r \in MediaRequests, u \in Users : CollectPendingMediaKeys(r, u) => raced' \subseteq Keys
    BY DEF CollectPendingMediaKeys, MediaTypeOK
  <2>3. \A r \in MediaRequests, u \in Users, k \in Keys : Complete(r, u, k) => raced' \subseteq Keys
    BY DEF Complete, MediaTypeOK
  <2>4. \A r \in MediaRequests, deleted \in BOOLEAN : Unpend(r, deleted) => raced' \subseteq Keys
    BY <1>8 DEF Unpend, MediaTypeOK
  <2> QED BY <2>1, <2>2, <2>3, <2>4 DEF MediaTypeOK
<1>12. leaked' \subseteq Keys
  <2>1. \/ UNCHANGED leaked
        \/ \E k \in Keys : leaked' \subseteq leaked \union {k}
        \/ \E r \in MediaRequests : leaked' \subseteq leaked \union mediaRequest[r].keys
        \/ \E r \in MediaRequests : CommitDeletion(r)
        \/ \E linked : DeleteDestination(linked)
        \/ Restart
    BY DEF MediaNext, mediaVars, Presign, Upload, Complete, Unpend, InsertAsset, DeleteAsset, DeleteBlob,
           CollectPendingMediaKeys, CleanupR2, MediaCutOff, MediaTick
  <2>2. \A r \in MediaRequests : CommitDeletion(r) => leaked' \subseteq Keys
    BY DEF CommitDeletion, MediaTypeOK
  <2>3. Restart => leaked' \subseteq Keys
    BY <1>8 DEF Restart, MediaTypeOK
  <2>4. leaked \subseteq Keys
    BY DEF MediaTypeOK
  <2>5. \A linked : DeleteDestination(linked) => leaked' \subseteq Keys
    BY <2>4 DEF DeleteDestination, Asset
  <2> QED BY <1>8, <2>1, <2>2, <2>3, <2>4, <2>5
<1> QED BY <1>1, <1>3, <1>4, <1>5, <1>6, <1>7, <1>9, <1>10, <1>11, <1>12 DEF MediaTypeOK, MediaLocals

-----------------------------------------------------------------------------
(* Whose keys are whose.                                                   *)

\* URLs are never taken back, and a second one for a key makes the key shared.
LEMMA UrlsKept ==
  ASSUME [MediaNext]_mediaVars
  PROVE  /\ urls \subseteq urls' /\ shared \subseteq shared'
         /\ raced \subseteq raced'
BY DEF MediaNext, mediaVars, Presign, Upload, Complete, Unpend, InsertAsset, DeleteAsset, DeleteDestination, DeleteBlob,
       CollectPendingMediaKeys, CommitDeletion, CleanupR2, MediaCutOff, Restart, MediaTick

LEMMA UrlsUnique ==
  ASSUME UrlInv, [MediaNext]_mediaVars
  PROVE  \A x, y \in urls' : x[2] = y[2] /\ x[2] \notin shared' => x = y
<1>1. ASSUME NEW u \in Users, NEW name \in FileNames, NEW stored \in BOOLEAN, Presign(u, name, stored)
      PROVE  \A x, y \in urls' : x[2] = y[2] /\ x[2] \notin shared' => x = y
  <2> DEFINE k == <<clock, name>>
             new == <<u, k>>
  <2>1. /\ urls' = urls \union {new} /\ shared' = IF \E x \in urls : x[2] = k THEN shared \union {k} ELSE shared
        /\ new[2] = k
    BY <1>1 DEF Presign
  <2> HIDE DEF k, new
  <2> QED BY <2>1 DEF UrlInv
<1>2. \/ UNCHANGED <<urls, shared>>
      \/ \E u \in Users, name \in FileNames, stored \in BOOLEAN : Presign(u, name, stored)
  BY DEF MediaNext, mediaVars, Upload, Complete, Unpend, InsertAsset, DeleteAsset, DeleteDestination, DeleteBlob,
         CollectPendingMediaKeys, CommitDeletion, CleanupR2, MediaCutOff, Restart, MediaTick
<1> QED BY <1>1, <1>2 DEF UrlInv

LEMMA PendingHasUrl ==
  ASSUME MediaTypeOK, UrlInv, [MediaNext]_mediaVars
  PROVE  \A k \in Keys : pendingOf'[k] # Nobody => <<pendingOf'[k], k>> \in urls'
<1>1. \/ UNCHANGED pendingOf
      \/ \E u \in Users, name \in FileNames, stored \in BOOLEAN : Presign(u, name, stored)
      \/ \E r \in MediaRequests, deleted \in BOOLEAN : Unpend(r, deleted)
      \/ \E r \in MediaRequests : CommitDeletion(r)
  BY DEF MediaNext, mediaVars, Upload, Complete, InsertAsset, DeleteAsset, DeleteDestination, DeleteBlob,
         CollectPendingMediaKeys, CleanupR2, MediaCutOff, Restart, MediaTick
<1>2. ASSUME NEW u \in Users, NEW name \in FileNames, NEW stored \in BOOLEAN, Presign(u, name, stored),
             NEW k \in Keys
      PROVE  pendingOf'[k] = pendingOf[k] \/ <<pendingOf'[k], k>> \in urls'
  BY <1>2 DEF Presign, MediaTypeOK
<1>3. ASSUME NEW r \in MediaRequests, CommitDeletion(r) \/ (\E deleted \in BOOLEAN : Unpend(r, deleted)),
             NEW k \in Keys
      PROVE  pendingOf'[k] = pendingOf[k] \/ pendingOf'[k] = Nobody
  BY <1>3 DEF CommitDeletion, Unpend
<1>4. ASSUME NEW k \in Keys
      PROVE  pendingOf'[k] \in {pendingOf[k], Nobody} \/ <<pendingOf'[k], k>> \in urls'
  BY <1>1, <1>2, <1>3
<1> QED BY <1>4, UrlsKept DEF UrlInv

LEMMA ObjectHasUrl ==
  ASSUME MediaTypeOK, UrlInv, [MediaNext]_mediaVars
  PROVE  \A k \in Keys : objects'[k] # Nobody => <<objects'[k], k>> \in urls'
<1>1. \/ UNCHANGED objects
      \/ \E u \in Users, k \in Keys : Upload(u, k)
      \/ \E r \in MediaRequests, deleted \in BOOLEAN : DeleteBlob(r, deleted)
      \/ \E k \in Keys, deleted \in BOOLEAN : CleanupR2(k, deleted)
  BY DEF MediaNext, mediaVars, Presign, Complete, Unpend, InsertAsset, DeleteAsset, DeleteDestination,
         CollectPendingMediaKeys, CommitDeletion, MediaCutOff, Restart, MediaTick
<1>2. ASSUME NEW u \in Users, NEW d \in Keys, Upload(u, d), NEW k \in Keys
      PROVE  objects'[k] = objects[k] \/ <<objects'[k], k>> \in urls
  BY <1>2 DEF Upload, MediaTypeOK
<1>3. ASSUME NEW r \in MediaRequests, NEW deleted \in BOOLEAN, DeleteBlob(r, deleted), NEW k \in Keys
      PROVE  objects'[k] = objects[k] \/ objects'[k] = Nobody
  BY <1>3 DEF DeleteBlob
<1>4. ASSUME NEW d \in Keys, NEW deleted \in BOOLEAN, CleanupR2(d, deleted), NEW k \in Keys
      PROVE  objects'[k] = objects[k] \/ objects'[k] = Nobody
  BY <1>4 DEF CleanupR2, MediaTypeOK
<1> QED BY <1>1, <1>2, <1>3, <1>4, UrlsKept DEF UrlInv

LEMMA RequestHasUrl ==
  ASSUME MediaTypeOK, MediaRequestInv, UrlInv, [MediaNext]_mediaVars,
         NEW q \in MediaRequests, mediaRequest'[q].at \in {"unpend", "insert", "erase"},
         NEW k \in mediaRequest'[q].keys
  PROVE  <<mediaRequest'[q].user, k>> \in urls'
<1> USE MediaRows
<1> DEFINE Goal == <<mediaRequest'[q].user, k>> \in urls'
<1>1. ASSUME mediaRequest'[q] = mediaRequest[q]
      PROVE  Goal
  BY <1>1, UrlsKept DEF UrlInv
<1>2. ASSUME NEW r \in MediaRequests, NEW u \in Users, NEW d \in Keys, Complete(r, u, d)
      PROVE  Goal
  <2>1. mediaRequest'[q] = IF q = r THEN [at |-> "unpend", user |-> u, keys |-> {d}] ELSE mediaRequest[q]
    BY <1>2 DEF Complete, Set
  <2>2. pendingOf[d] = u /\ u # Nobody
    BY <1>2, AccountAssumption DEF Complete
  <2>3. <<u, d>> \in urls'
    BY <2>2, UrlsKept DEF UrlInv
  <2>4. CASE q = r
    <3>1. k = d /\ mediaRequest'[q].user = u
      BY <2>1, <2>4
    <3> QED BY <2>3, <3>1
  <2> QED BY <1>1, <2>1, <2>4
<1>3. ASSUME NEW r \in MediaRequests, NEW deleted \in BOOLEAN, Unpend(r, deleted)
      PROVE  Goal
  <2>1. /\ mediaRequest'[q].user = mediaRequest[q].user /\ mediaRequest'[q].keys = mediaRequest[q].keys
        /\ q = r => mediaRequest[q].at = "unpend"
        /\ q # r => mediaRequest'[q] = mediaRequest[q]
    BY <1>3 DEF Unpend, Set
  <2> QED BY <2>1, UrlsKept DEF UrlInv
<1>4. ASSUME NEW r \in MediaRequests, NEW u \in Users, CollectPendingMediaKeys(r, u)
      PROVE  Goal
  <2>1. mediaRequest'[q] = IF q = r THEN [at |-> "erase", user |-> u, keys |-> {d \in Keys : pendingOf[d] = u}]
                           ELSE mediaRequest[q]
    BY <1>4 DEF CollectPendingMediaKeys, Set
  <2>2. CASE q = r
    <3>1. k \in Keys /\ pendingOf[k] = u /\ mediaRequest'[q].user = u
      BY <2>1, <2>2
    <3>2. <<u, k>> \in urls
      BY <3>1, AccountAssumption DEF UrlInv
    <3> QED BY <3>1, <3>2, UrlsKept
  <2> QED BY <1>1, <2>1, <2>2
<1>5. \/ mediaRequest'[q] = mediaRequest[q]
      \/ \E r \in MediaRequests, u \in Users, d \in Keys : Complete(r, u, d)
      \/ \E r \in MediaRequests, deleted \in BOOLEAN : Unpend(r, deleted)
      \/ \E r \in MediaRequests, u \in Users : CollectPendingMediaKeys(r, u)
      \/ \E r \in MediaRequests, a \in 1..MaxAssets : DeleteAsset(r, a)
      \/ \E r \in MediaRequests : Done(r)
      \/ Restart
  BY DEF MediaNext, mediaVars, Presign, Upload, InsertAsset, DeleteDestination, DeleteBlob,
         CommitDeletion, CleanupR2, MediaCutOff, MediaTick
<1>6. ASSUME NEW r \in MediaRequests, NEW a \in 1..MaxAssets, DeleteAsset(r, a)
      PROVE  Goal
  <2>1. mediaRequest'[q] = IF q = r THEN [at |-> "blob", user |-> Nobody, keys |-> {assets[a].key}]
                           ELSE mediaRequest[q]
    BY <1>6 DEF DeleteAsset, Set
  <2> QED BY <1>1, <2>1
<1>7. ASSUME NEW r \in MediaRequests, Done(r)
      PROVE  Goal
  <2>1. mediaRequest'[q] = IF q = r THEN NoMediaRequest ELSE mediaRequest[q]
    BY <1>7 DEF Done
  <2> QED BY <1>1, <2>1 DEF NoMediaRequest
<1>8. ASSUME Restart
      PROVE  Goal
  BY <1>8 DEF Restart, NoMediaRequest
<1> QED BY <1>1, <1>2, <1>3, <1>4, <1>5, <1>6, <1>7, <1>8

LEMMA UrlInductive ==
  ASSUME MediaTypeOK, MediaRequestInv, UrlInv, [MediaNext]_mediaVars
  PROVE  UrlInv'
<1> USE MediaRows, UrlsKept
<1>1. ASSUME NEW k \in Keys, k \in cleaning' \union uploaded'
      PROVE  \E x \in urls' : x[2] = k
  <2>1. \/ k \in cleaning \union uploaded
        \/ \E u \in Users : Upload(u, k)
        \/ \E r \in MediaRequests : CommitDeletion(r) /\ k \in mediaRequest[r].keys
    <3>1. ASSUME NEW u \in Users, NEW d \in Keys, Upload(u, d)
          PROVE  k \in cleaning \union uploaded \/ Upload(u, k)
      BY <1>1, <3>1 DEF Upload
    <3>2. ASSUME NEW r \in MediaRequests, CommitDeletion(r)
          PROVE  k \in cleaning \union uploaded \/ k \in mediaRequest[r].keys
      BY <1>1, <3>2 DEF CommitDeletion
    <3>3. \/ cleaning' \subseteq cleaning /\ uploaded' = uploaded
          \/ \E u \in Users, d \in Keys : Upload(u, d)
          \/ \E r \in MediaRequests : CommitDeletion(r)
      BY DEF MediaNext, mediaVars, Presign, Complete, Unpend, InsertAsset, DeleteAsset, DeleteDestination, DeleteBlob,
             CollectPendingMediaKeys, CleanupR2, MediaCutOff, Restart, MediaTick
    <3> QED BY <1>1, <3>1, <3>2, <3>3
  <2>2. ASSUME NEW u \in Users, Upload(u, k)
        PROVE  \E x \in urls' : x[2] = k
    BY <2>2 DEF Upload
  <2>3. ASSUME NEW r \in MediaRequests, CommitDeletion(r), k \in mediaRequest[r].keys
        PROVE  \E x \in urls' : x[2] = k
    <3>1. <<mediaRequest[r].user, k>> \in urls
      BY <2>3 DEF CommitDeletion, UrlInv
    <3> QED BY <3>1
  <2> QED BY <2>1, <2>2, <2>3 DEF UrlInv
<1>2. ASSUME NEW a \in DOMAIN assets'
      PROVE  <<assets'[a].by, assets'[a].key>> \in urls'
  <2>1. ASSUME NEW r \in MediaRequests, InsertAsset(r)
        PROVE  <<assets'[a].by, assets'[a].key>> \in urls
    <3>1. CASE a \in DOMAIN assets
      BY <2>1, <3>1, AssetInserted DEF UrlInv
    <3>2. CASE a \notin DOMAIN assets
      <4>1. PICK d \in Keys : /\ mediaRequest[r].keys = {d}
                              /\ assets'[a] = [key |-> d, by |-> mediaRequest[r].user, present |-> TRUE]
        BY <2>1, <3>2, AssetInserted
      <4> QED BY <2>1, <4>1 DEF InsertAsset, UrlInv
    <3> QED BY <3>1, <3>2
  <2>2. ASSUME NEW r \in MediaRequests, NEW d \in DOMAIN assets, DeleteAsset(r, d)
        PROVE  <<assets'[a].by, assets'[a].key>> \in urls
    BY <2>2, AssetDeleted DEF UrlInv
  <2>3. ASSUME NEW linked, DeleteDestination(linked)
        PROVE  <<assets'[a].by, assets'[a].key>> \in urls
    BY <2>3, AssetsUnlisted DEF UrlInv
  <2> QED BY <2>1, <2>2, <2>3, AssetsElsewhere DEF UrlInv
<1> QED BY <1>1, <1>2, UrlsUnique, PendingHasUrl, ObjectHasUrl, RequestHasUrl DEF UrlInv

-----------------------------------------------------------------------------
(* One use at a time.                                                      *)

\* A key that is not shared has one owner.
LEMMA OneOwner ==
  ASSUME UrlInv, NEW k, k \notin shared, NEW u, NEW v, <<u, k>> \in urls, <<v, k>> \in urls
  PROVE  u = v
<1>1. <<u, k>>[2] = k /\ <<v, k>>[2] = k
  OBVIOUS
<1>2. <<u, k>> = <<v, k>>
  BY <1>1 DEF UrlInv
<1> QED BY <1>2

\* What requests are doing with k when r goes on with local variables s.
LEMMA KeyMoves ==
  ASSUME MediaTypeOK, NEW r \in MediaRequests, NEW s, mediaRequest' = [mediaRequest EXCEPT ![r] = s], NEW k
  PROVE  /\ \A q \in MediaRequests \ {r} :
              /\ q \in Completing(k)' <=> q \in Completing(k)
              /\ q \in Inserting(k)' <=> q \in Inserting(k)
              /\ q \in Deleting(k)' <=> q \in Deleting(k)
              /\ q \in Collected(k)' <=> q \in Collected(k)
         /\ r \in Completing(k)' <=> s.at \in {"unpend", "insert"} /\ k \in s.keys
         /\ r \in Inserting(k)' <=> s.at = "insert" /\ k \in s.keys
         /\ r \in Deleting(k)' <=> s.at = "blob" /\ k \in s.keys
         /\ r \in Collected(k)' <=> s.at = "erase" /\ k \in s.keys
         /\ Completing(k)' \subseteq MediaRequests /\ Inserting(k)' \subseteq MediaRequests
         /\ Deleting(k)' \subseteq MediaRequests /\ Collected(k)' \subseteq MediaRequests
<1>1. \A q \in MediaRequests : mediaRequest'[q] = IF q = r THEN s ELSE mediaRequest[q]
  BY MediaRows
<1> QED BY <1>1 DEF Completing, Inserting, Deleting, Collected

LEMMA KeySets ==
  /\ \A k : /\ Completing(k) \subseteq MediaRequests /\ Inserting(k) \subseteq Completing(k)
            /\ Deleting(k) \subseteq MediaRequests /\ Collected(k) \subseteq MediaRequests
  /\ \A k, r : Unused(r) => /\ r \notin Completing(k) /\ r \notin Inserting(k)
                            /\ r \notin Deleting(k) /\ r \notin Collected(k)
BY DEF Completing, Inserting, Deleting, Collected, Unused

\* A step that only ends uses of k leaves it used by one at a time.
LEMMA UsedLess ==
  ASSUME NEW k, UsedOnce(k),
         Completing(k)' \subseteq Completing(k), Inserting(k)' \subseteq Inserting(k),
         Deleting(k)' \subseteq Deleting(k), Erased(k)' => Erased(k), k \in cleaning' => pendingOf'[k] = Nobody,
         AssetsOf(k)' = AssetsOf(k),
         \A a \in AssetsOf(k) : assets'[a].present => assets[a].present,
         pendingOf'[k] \in {pendingOf[k], Nobody}
  PROVE  UsedOnce(k)'
<1> USE DEF UsedOnce
<1>1. \A q, r \in Completing(k)' : q = r
  OBVIOUS
<1>2. \A a, b \in AssetsOf(k)' : a = b
  OBVIOUS
<1>3. Completing(k)' # {} => ~Erased(k)' /\ AssetsOf(k)' = {}
  OBVIOUS
<1>4. AssetsOf(k)' # {} => ~Erased(k)'
  OBVIOUS
<1>5. AssetsOf(k)' # {} \/ Inserting(k)' # {} \/ k \in cleaning' => pendingOf'[k] = Nobody
  OBVIOUS
<1>6. Deleting(k)' # {} => \E a \in AssetsOf(k)' : ~assets'[a].present
  OBVIOUS
<1> QED BY <1>1, <1>2, <1>3, <1>4, <1>5, <1>6

\* Whether the assets of k are what they were.
LEMMA SameAssets ==
  ASSUME MediaTypeOK, NEW k,
         \/ UNCHANGED assets
         \/ \E r \in MediaRequests : \E d \in DOMAIN assets : DeleteAsset(r, d)
         \/ \E linked : DeleteDestination(linked)
  PROVE  /\ AssetsOf(k)' = AssetsOf(k)
         /\ \A a \in AssetsOf(k) : assets'[a].present => assets[a].present
<1>1. CASE UNCHANGED assets
  BY <1>1 DEF AssetsOf
<1>2. ASSUME NEW r \in MediaRequests, NEW d \in DOMAIN assets, DeleteAsset(r, d)
      PROVE  /\ AssetsOf(k)' = AssetsOf(k)
             /\ \A a \in AssetsOf(k) : assets'[a].present => assets[a].present
  <2>1. AssetsOf(k)' = AssetsOf(k)
    BY <1>2, AssetDeleted DEF AssetsOf
  <2>2. assets'[d].present => assets[d].present
    BY <1>2, AssetDeleted
  <2> QED BY <1>2, <2>1, <2>2, AssetDeleted DEF AssetsOf
<1>3. ASSUME NEW linked, DeleteDestination(linked)
      PROVE  /\ AssetsOf(k)' = AssetsOf(k)
             /\ \A a \in AssetsOf(k) : assets'[a].present => assets[a].present
  BY <1>3, AssetsUnlisted DEF AssetsOf
<1> QED BY <1>1, <1>2, <1>3

LEMMA UsedOnceKept ==
  ASSUME MediaTypeOK, MediaRequestInv, UrlInv, OneUse, [MediaNext]_mediaVars,
         NEW k \in Keys \ (shared' \union raced')
  PROVE  UsedOnce(k)'
<1> USE MediaRows
<1>1. k \notin shared /\ k \notin raced /\ UsedOnce(k)
  BY UrlsKept DEF OneUse
\* The requests that have to do with k, when no request takes a step.
<1>2. UNCHANGED mediaRequest =>
        /\ Completing(k)' = Completing(k) /\ Inserting(k)' = Inserting(k)
        /\ Deleting(k)' = Deleting(k) /\ Collected(k)' = Collected(k)
  BY DEF Completing, Inserting, Deleting, Collected
<1>3. ASSUME NEW u \in Users, NEW name \in FileNames, NEW stored \in BOOLEAN, Presign(u, name, stored)
      PROVE  UsedOnce(k)'
  <2> DEFINE new == <<clock, name>>
  <2>1. /\ new \in Keys /\ UNCHANGED <<mediaRequest, assets, cleaning>>
        /\ new \in shared' \/ \A x \in urls : x[2] # new
        /\ pendingOf'[k] # pendingOf[k] => k = new
    BY <1>3 DEF Presign, MediaTypeOK, Keys
  <2>2. CASE k = new
    <3>1. \A x \in urls : x[2] # k
      BY <2>1, <2>2
    <3>2. \A v : <<v, k>> \notin urls
      BY <3>1
    <3>3. Completing(k) = {} /\ Collected(k) = {}
      BY <3>2 DEF UrlInv, Completing, Collected
    <3>4. AssetsOf(k) = {} /\ k \notin cleaning
      BY <3>1, <3>2 DEF UrlInv, AssetsOf
    <3>5. /\ Completing(k)' = {} /\ Inserting(k)' = {} /\ Deleting(k)' = Deleting(k)
          /\ AssetsOf(k)' = {} /\ k \notin cleaning'
      BY <1>2, <2>1, <3>3, <3>4, KeySets, SameAssets
    <3>6. Deleting(k) = {}
      BY <1>1, <3>4 DEF UsedOnce
    <3> QED BY <3>5, <3>6 DEF UsedOnce
  <2>3. CASE k # new
    <3>1. pendingOf'[k] = pendingOf[k] /\ (k \in cleaning' => pendingOf'[k] = Nobody)
      BY <1>1, <2>1, <2>3 DEF UsedOnce
    <3>2. Erased(k)' => Erased(k)
      BY <1>2, <2>1 DEF Erased
    <3> QED BY <1>1, <1>2, <2>1, <3>1, <3>2, SameAssets, UsedLess
  <2> QED BY <2>2, <2>3
\* From being pending to being completed.
<1>4. ASSUME NEW r \in MediaRequests, NEW u \in Users, NEW d \in Keys, Complete(r, u, d)
      PROVE  UsedOnce(k)'
  <2> DEFINE s == [at |-> "unpend", user |-> u, keys |-> {d}]
  <2>1. mediaRequest' = [mediaRequest EXCEPT ![r] = s] /\ s.at = "unpend" /\ s.keys = {d}
    BY <1>4 DEF Complete, Set
  <2>2. /\ UNCHANGED <<assets, cleaning, pendingOf>> /\ Unused(r) /\ pendingOf[d] = u
        /\ k = d => Completing(k) = {} /\ Collected(k) = {}
    BY <1>1, <1>4 DEF Complete
  <2> HIDE DEF s
  <2>3. /\ Inserting(k)' \subseteq Inserting(k) /\ Deleting(k)' \subseteq Deleting(k)
        /\ Collected(k)' \subseteq Collected(k)
        /\ Completing(k)' \subseteq Completing(k) \union {r}
        /\ r \in Completing(k)' => k = d
    BY <2>1, KeyMoves
  <2>4. Erased(k)' => Erased(k)
    BY <2>2, <2>3 DEF Erased
  <2>5. CASE k = d
    <3>1. pendingOf[k] # Nobody
      BY <2>2, <2>5, AccountAssumption
    <3>2. AssetsOf(k) = {} /\ k \notin cleaning /\ Inserting(k) = {} /\ Deleting(k) = {}
      BY <1>1, <3>1 DEF UsedOnce
    <3>3. /\ AssetsOf(k)' = {} /\ k \notin cleaning' /\ Inserting(k)' = {} /\ Deleting(k)' = {}
          /\ Collected(k)' = {} /\ Completing(k)' \subseteq {r}
      BY <2>2, <2>3, <2>5, <3>2, SameAssets
    <3> QED BY <3>3 DEF UsedOnce, Erased
  <2>6. CASE k # d
    <3>1. Completing(k)' \subseteq Completing(k) /\ (k \in cleaning' => pendingOf'[k] = Nobody)
      BY <1>1, <2>2, <2>3, <2>6 DEF UsedOnce
    <3> QED BY <1>1, <2>2, <2>3, <2>4, <3>1, SameAssets, UsedLess
  <2> QED BY <2>5, <2>6
<1>5. ASSUME NEW r \in MediaRequests, NEW deleted \in BOOLEAN, Unpend(r, deleted)
      PROVE  UsedOnce(k)'
  <2> DEFINE s == [at |-> "insert", user |-> mediaRequest[r].user, keys |-> mediaRequest[r].keys]
  <2>1. /\ mediaRequest' = [mediaRequest EXCEPT ![r] = s] /\ s.at = "insert"
        /\ s.keys = mediaRequest[r].keys
    BY <1>5 DEF Unpend, Set
  <2>2. /\ UNCHANGED <<assets, cleaning>> /\ mediaRequest[r].at = "unpend"
        /\ pendingOf'[k] \in {pendingOf[k], Nobody}
    BY <1>5 DEF Unpend
  <2> HIDE DEF s
  <2>3. /\ Deleting(k)' \subseteq Deleting(k) /\ Collected(k)' \subseteq Collected(k)
        /\ Completing(k)' \subseteq Completing(k)
        /\ Inserting(k)' \subseteq Inserting(k) \union {r}
        /\ r \in Inserting(k)' => k \in mediaRequest[r].keys
    <3>1. k \in mediaRequest[r].keys => r \in Completing(k)
      BY <2>2 DEF Completing
    <3> QED BY <2>1, <3>1, KeyMoves
  <2>4. Erased(k)' => Erased(k)
    BY <2>2, <2>3 DEF Erased
  <2>5. k \in cleaning' => pendingOf'[k] = Nobody
    BY <1>1, <2>2 DEF UsedOnce
  <2>6. CASE k \in mediaRequest[r].keys
    <3>1. pendingOf'[k] = Nobody
      <4>1. deleted
        BY <1>5, <2>6 DEF Unpend
      <4>2. <<mediaRequest[r].user, k>> \in urls
        BY <2>2, <2>6 DEF UrlInv
      <4>3. pendingOf[k] = Nobody \/ pendingOf[k] = mediaRequest[r].user
        <5>1. CASE pendingOf[k] # Nobody
          <6>1. <<pendingOf[k], k>> \in urls
            BY <5>1 DEF UrlInv
          <6> QED BY <1>1, <4>2, <6>1, OneOwner
        <5> QED BY <5>1
      <4> QED BY <1>5, <2>6, <4>1, <4>3 DEF Unpend
    <3>2. Completing(k) # {}
      BY <2>2, <2>6 DEF Completing
    <3>3. AssetsOf(k) = {} /\ ~Erased(k) /\ Deleting(k) = {}
      BY <1>1, <3>2 DEF UsedOnce
    <3>4. AssetsOf(k)' = {} /\ ~Erased(k)' /\ Deleting(k)' = {}
      BY <2>2, <2>3, <2>4, <3>3, SameAssets
    <3>5. \A q, p \in Completing(k)' : q = p
      BY <1>1, <2>3 DEF UsedOnce
    <3> QED BY <3>1, <3>4, <3>5 DEF UsedOnce
  <2>7. CASE k \notin mediaRequest[r].keys
    <3>1. Inserting(k)' \subseteq Inserting(k)
      BY <2>3, <2>7
    <3> QED BY <1>1, <2>2, <2>3, <2>4, <2>5, <3>1, SameAssets, UsedLess
  <2> QED BY <2>6, <2>7
\* From being completed to being the only asset.
<1>6. ASSUME NEW r \in MediaRequests, InsertAsset(r)
      PROVE  UsedOnce(k)'
  <2>1. mediaRequest' = [mediaRequest EXCEPT ![r] = NoMediaRequest] /\ NoMediaRequest.keys = {}
    BY <1>6 DEF InsertAsset, Done, NoMediaRequest
  <2>2. /\ Completing(k)' \subseteq Completing(k) \ {r} /\ Inserting(k)' \subseteq Inserting(k)
        /\ Deleting(k)' \subseteq Deleting(k) /\ Collected(k)' \subseteq Collected(k)
    BY <2>1, KeyMoves
  <2>3. UNCHANGED <<pendingOf, cleaning>> /\ mediaRequest[r].at = "insert"
    BY <1>6 DEF InsertAsset
  <2>4. Erased(k)' => Erased(k)
    BY <2>2, <2>3 DEF Erased
  <2> DEFINE n == Len(assets) + 1
  <2>5. PICK d \in Keys :
          /\ mediaRequest[r].keys = {d}
          /\ DOMAIN assets' = DOMAIN assets \union {n} /\ n \notin DOMAIN assets
          /\ assets'[n] = [key |-> d, by |-> mediaRequest[r].user, present |-> TRUE]
          /\ \A a \in DOMAIN assets : assets'[a] = assets[a]
    BY <1>6, AssetInserted
  <2> HIDE DEF n
  <2>6. CASE k = d
    <3>1. r \in Inserting(k) /\ r \in Completing(k)
      BY <2>3, <2>5, <2>6 DEF Inserting, Completing
    <3>2. Completing(k) \ {r} = {} /\ AssetsOf(k) = {} /\ ~Erased(k) /\ pendingOf[k] = Nobody /\ Deleting(k) = {}
      BY <1>1, <3>1 DEF UsedOnce
    <3>3. AssetsOf(k)' = {n}
      BY <2>5, <2>6, <3>2 DEF AssetsOf
    <3>4. Completing(k)' = {} /\ ~Erased(k)' /\ pendingOf'[k] = Nobody /\ Deleting(k)' = {}
      BY <2>2, <2>3, <2>4, <3>2
    <3> QED BY <3>3, <3>4 DEF UsedOnce
  <2>7. CASE k # d
    <3>1. AssetsOf(k)' = AssetsOf(k) /\ \A a \in AssetsOf(k) : assets'[a].present => assets[a].present
      BY <2>5, <2>7 DEF AssetsOf
    <3>2. pendingOf'[k] = pendingOf[k] /\ (k \in cleaning' => pendingOf'[k] = Nobody)
      BY <1>1, <2>3 DEF UsedOnce
    <3> QED BY <1>1, <2>2, <2>4, <3>1, <3>2, UsedLess
  <2> QED BY <2>6, <2>7
<1>7. ASSUME NEW r \in MediaRequests, NEW d \in DOMAIN assets, DeleteAsset(r, d)
      PROVE  UsedOnce(k)'
  <2> DEFINE s == [at |-> "blob", user |-> Nobody, keys |-> {assets[d].key}]
  <2>1. mediaRequest' = [mediaRequest EXCEPT ![r] = s] /\ s.at = "blob" /\ s.keys = {assets[d].key}
    BY <1>7 DEF DeleteAsset, Set
  <2> HIDE DEF s
  <2>2. /\ Completing(k)' \subseteq Completing(k) /\ Inserting(k)' \subseteq Inserting(k)
        /\ Deleting(k)' \subseteq Deleting(k) \union {r} /\ Collected(k)' \subseteq Collected(k)
        /\ r \in Deleting(k)' => d \in AssetsOf(k)
    BY <2>1, KeyMoves DEF AssetsOf
  <2>3. UNCHANGED <<pendingOf, cleaning>> /\ ~assets'[d].present
    BY <1>7, AssetDeleted DEF DeleteAsset
  <2>4. Erased(k)' => Erased(k)
    BY <2>2, <2>3 DEF Erased
  <2>5. /\ AssetsOf(k)' = AssetsOf(k)
        /\ \A a \in AssetsOf(k) : assets'[a].present => assets[a].present
    BY <1>7, SameAssets
  <2>6. Deleting(k)' # {} => \E a \in AssetsOf(k)' : ~assets'[a].present
    BY <1>1, <2>2, <2>3, <2>5 DEF UsedOnce
  <2> QED BY <1>1, <2>2, <2>3, <2>4, <2>5, <2>6 DEF UsedOnce
<1>8. ASSUME NEW r \in MediaRequests, NEW u \in Users, CollectPendingMediaKeys(r, u)
      PROVE  UsedOnce(k)'
  <2> DEFINE s == [at |-> "erase", user |-> u, keys |-> {d \in Keys : pendingOf[d] = u}]
  <2>1. /\ mediaRequest' = [mediaRequest EXCEPT ![r] = s] /\ s.at = "erase"
        /\ k \in s.keys => pendingOf[k] = u
    BY <1>8 DEF CollectPendingMediaKeys, Set
  <2> HIDE DEF s
  <2>2. /\ Completing(k)' \subseteq Completing(k) /\ Inserting(k)' \subseteq Inserting(k)
        /\ Deleting(k)' \subseteq Deleting(k) /\ Collected(k)' \subseteq Collected(k) \union {r}
        /\ r \in Collected(k)' => pendingOf[k] = u
    BY <2>1, KeyMoves
  <2>3. /\ UNCHANGED <<pendingOf, cleaning, assets>>
        /\ pendingOf[k] = u => Completing(k) = {}
    BY <1>1, <1>8 DEF CollectPendingMediaKeys
  <2>4. CASE pendingOf[k] = u
    <3>1. Completing(k)' = {} /\ Inserting(k)' = {}
      BY <2>2, <2>3, <2>4, KeySets
    <3>2. AssetsOf(k) = {} /\ k \notin cleaning /\ Deleting(k) = {}
      BY <1>1, <2>4, AccountAssumption DEF UsedOnce
    <3>3. AssetsOf(k)' = {} /\ k \notin cleaning' /\ Deleting(k)' = {}
      BY <2>2, <2>3, <3>2, SameAssets
    <3> QED BY <3>1, <3>3 DEF UsedOnce
  <2>5. CASE pendingOf[k] # u
    <3>1. Erased(k)' => Erased(k)
      BY <2>2, <2>3, <2>5 DEF Erased
    <3>2. k \in cleaning' => pendingOf'[k] = Nobody
      BY <1>1, <2>3 DEF UsedOnce
    <3> QED BY <1>1, <2>2, <2>3, <3>1, <3>2, SameAssets, UsedLess
  <2> QED BY <2>4, <2>5
\* From being collected to being cleaned up.
<1>9. ASSUME NEW r \in MediaRequests, CommitDeletion(r)
      PROVE  UsedOnce(k)'
  <2>1. mediaRequest' = [mediaRequest EXCEPT ![r] = NoMediaRequest] /\ NoMediaRequest.keys = {}
    BY <1>9 DEF CommitDeletion, Done, NoMediaRequest
  <2>2. /\ Completing(k)' \subseteq Completing(k) /\ Inserting(k)' \subseteq Inserting(k)
        /\ Deleting(k)' \subseteq Deleting(k) /\ Collected(k)' \subseteq Collected(k)
    BY <2>1, KeyMoves
  <2>3. /\ UNCHANGED assets /\ mediaRequest[r].at = "erase"
        /\ cleaning' = cleaning \union mediaRequest[r].keys
        /\ pendingOf'[k] = IF pendingOf[k] = mediaRequest[r].user THEN Nobody ELSE pendingOf[k]
    BY <1>9 DEF CommitDeletion
  <2>4. k \in mediaRequest[r].keys => r \in Collected(k)
    BY <2>3 DEF Collected
  <2>5. Erased(k)' => Erased(k)
    BY <2>2, <2>3, <2>4 DEF Erased
  <2>6. ASSUME k \in mediaRequest[r].keys, pendingOf[k] # Nobody
        PROVE  pendingOf[k] = mediaRequest[r].user
    <3>1. <<pendingOf[k], k>> \in urls /\ <<mediaRequest[r].user, k>> \in urls
      BY <2>3, <2>6 DEF UrlInv
    <3> QED BY <1>1, <3>1, OneOwner
  <2>7. k \in cleaning' => pendingOf'[k] = Nobody
    BY <1>1, <2>3, <2>6 DEF UsedOnce
  <2>8. pendingOf'[k] \in {pendingOf[k], Nobody}
    BY <2>3
  <2> QED BY <1>1, <2>2, <2>3, <2>5, <2>7, <2>8, SameAssets, UsedLess
\* The other steps only end uses.
<1>10. ASSUME UNCHANGED <<pendingOf, assets>>, cleaning' \subseteq cleaning,
              Completing(k)' \subseteq Completing(k), Inserting(k)' \subseteq Inserting(k),
              Deleting(k)' \subseteq Deleting(k), Collected(k)' \subseteq Collected(k)
       PROVE  UsedOnce(k)'
  <2>1. Erased(k)' => Erased(k)
    BY <1>10 DEF Erased
  <2>2. k \in cleaning' => pendingOf'[k] = Nobody
    BY <1>1, <1>10 DEF UsedOnce
  <2> QED BY <1>1, <1>10, <2>1, <2>2, SameAssets, UsedLess
<1>11. ASSUME NEW r \in MediaRequests, MediaCutOff(r) \/ \E deleted \in BOOLEAN : DeleteBlob(r, deleted)
       PROVE  UsedOnce(k)'
  <2>1. mediaRequest' = [mediaRequest EXCEPT ![r] = NoMediaRequest] /\ NoMediaRequest.keys = {}
    BY <1>11 DEF MediaCutOff, DeleteBlob, Done, NoMediaRequest
  <2>2. /\ Completing(k)' \subseteq Completing(k) /\ Inserting(k)' \subseteq Inserting(k)
        /\ Deleting(k)' \subseteq Deleting(k) /\ Collected(k)' \subseteq Collected(k)
    BY <2>1, KeyMoves
  <2>3. UNCHANGED <<pendingOf, assets, cleaning>>
    BY <1>11 DEF MediaCutOff, DeleteBlob
  <2> QED BY <1>10, <2>2, <2>3
<1>12. ASSUME Restart
       PROVE  UsedOnce(k)'
  <2>1. Completing(k)' = {} /\ Inserting(k)' = {} /\ Deleting(k)' = {} /\ Collected(k)' = {}
    BY <1>12 DEF Restart, NoMediaRequest, Completing, Inserting, Deleting, Collected
  <2>2. UNCHANGED <<pendingOf, assets>> /\ cleaning' = {}
    BY <1>12 DEF Restart
  <2> QED BY <1>10, <2>1, <2>2
<1>13. /\ \A u \in Users, d \in Keys : Upload(u, d) => UNCHANGED <<pendingOf, assets, cleaning, mediaRequest>>
       /\ \A d \in Keys, deleted \in BOOLEAN :
            CleanupR2(d, deleted) => UNCHANGED <<pendingOf, assets, mediaRequest>> /\ cleaning' \subseteq cleaning
       /\ MediaTick \/ UNCHANGED mediaVars => UNCHANGED <<pendingOf, assets, cleaning, mediaRequest>>
  BY DEF Upload, CleanupR2, MediaTick, mediaVars
<1>14. ASSUME UNCHANGED <<pendingOf, assets, mediaRequest>>, cleaning' \subseteq cleaning
       PROVE  UsedOnce(k)'
  BY <1>2, <1>10, <1>14
<1>15. ASSUME NEW r \in MediaRequests, NEW a \in 1..MaxAssets, DeleteAsset(r, a)
       PROVE  UsedOnce(k)'
  BY <1>7, <1>15 DEF DeleteAsset
<1>16. ASSUME NEW linked, DeleteDestination(linked)
       PROVE  UsedOnce(k)'
  <2>1. UNCHANGED <<pendingOf, mediaRequest, cleaning>>
    BY <1>16 DEF DeleteDestination
  <2>2. /\ AssetsOf(k)' = AssetsOf(k)
        /\ \A a \in AssetsOf(k) : assets'[a].present => assets[a].present
    BY <1>16, SameAssets
  <2>3. Erased(k)' = Erased(k)
    BY <1>2, <2>1 DEF Erased
  <2> QED BY <1>1, <1>2, <2>1, <2>2, <2>3 DEF UsedOnce
<1> QED BY <1>3, <1>4, <1>5, <1>6, <1>8, <1>9, <1>11, <1>12, <1>13, <1>14, <1>15, <1>16 DEF MediaNext

LEMMA OneUseInductive ==
  ASSUME MediaTypeOK, MediaRequestInv, UrlInv, OneUse, [MediaNext]_mediaVars
  PROVE  OneUse'
<1>1. \A k \in Keys \ (shared' \union raced') : UsedOnce(k)'
  BY UsedOnceKept
<1> QED BY <1>1 DEF OneUse, UsedOnce, Completing, Inserting, Deleting, Collected, AssetsOf, Erased

-----------------------------------------------------------------------------
(* The object of a key in use.                                             *)

LEMMA ObjectInductive ==
  ASSUME MediaTypeOK, MediaRequestInv, UrlInv, OneUse, ObjectInv, [MediaNext]_mediaVars
  PROVE  ObjectInv'
<1> SUFFICES ASSUME NEW k \in uploaded' \ (shared' \union raced'), InUse(k)'
             PROVE  objects'[k] # Nobody
  BY DEF ObjectInv, InUse, Completing, AssetsOf
<1> USE MediaRows
<1>1. k \in Keys /\ k \notin shared /\ k \notin raced /\ UsedOnce(k)
  BY UrlsKept, MediaTypeInductive DEF OneUse, MediaTypeOK
<1>2. ASSUME k \in uploaded, InUse(k), objects'[k] = objects[k]
      PROVE  objects'[k] # Nobody
  BY <1>1, <1>2 DEF ObjectInv
<1>3. UNCHANGED mediaRequest => Completing(k)' = Completing(k)
  BY DEF Completing
\* Steps that end uses of k at most.
<1>4. ASSUME pendingOf'[k] # Nobody => pendingOf[k] # Nobody,
             Completing(k)' \subseteq Completing(k),
             \/ UNCHANGED assets
             \/ \E r \in MediaRequests : \E d \in DOMAIN assets : DeleteAsset(r, d)
             \/ \E linked : DeleteDestination(linked)
      PROVE  InUse(k)
  <2>1. (\E a \in AssetsOf(k)' : assets'[a].present) => \E a \in AssetsOf(k) : assets[a].present
    BY <1>4, SameAssets
  <2> QED BY <1>4, <2>1 DEF InUse
<1>5. ASSUME NEW u \in Users, NEW name \in FileNames, NEW stored \in BOOLEAN, Presign(u, name, stored)
      PROVE  objects'[k] # Nobody
  <2> DEFINE new == <<clock, name>>
  <2>1. /\ UNCHANGED <<mediaRequest, assets, objects, uploaded>>
        /\ new \in shared' \/ \A x \in urls : x[2] # new
        /\ pendingOf'[k] # pendingOf[k] => k = new
    BY <1>5 DEF Presign, MediaTypeOK, Keys
  <2>2. \E x \in urls : x[2] = k
    BY <1>1, <2>1 DEF UrlInv
  <2>3. k # new
    BY <2>1, <2>2
  <2>4. InUse(k)
    BY <1>3, <1>4, <2>1, <2>3
  <2> QED BY <1>2, <2>1, <2>4
<1>6. ASSUME NEW u \in Users, NEW d \in Keys, Upload(u, d)
      PROVE  objects'[k] # Nobody
  <2>1. CASE k = d
    BY <1>1, <1>6, <2>1, AccountAssumption DEF Upload, MediaTypeOK
  <2>2. CASE k # d
    <3>1. InUse(k)
      BY <1>3, <1>4, <1>6 DEF Upload
    <3>2. k \in uploaded /\ objects'[k] = objects[k]
      BY <1>1, <1>6, <2>2 DEF Upload, MediaTypeOK
    <3> QED BY <1>2, <3>1, <3>2
  <2> QED BY <2>1, <2>2
<1>7. ASSUME NEW r \in MediaRequests, NEW u \in Users, NEW d \in Keys, Complete(r, u, d)
      PROVE  objects'[k] # Nobody
  <2> DEFINE s == [at |-> "unpend", user |-> u, keys |-> {d}]
  <2>1. mediaRequest' = [mediaRequest EXCEPT ![r] = s] /\ s.keys = {d}
    BY <1>7 DEF Complete, Set
  <2> HIDE DEF s
  <2>2. Completing(k)' \subseteq Completing(k) \union {r} /\ (r \in Completing(k)' => k = d)
    BY <2>1, KeyMoves
  <2>3. UNCHANGED <<pendingOf, assets, objects, uploaded>> /\ pendingOf[d] = u
    BY <1>7 DEF Complete
  <2>4. CASE k = d
    BY <1>2, <2>3, <2>4, AccountAssumption DEF InUse
  <2>5. CASE k # d
    BY <1>2, <1>4, <2>2, <2>3, <2>5
  <2> QED BY <2>4, <2>5
<1>8. ASSUME NEW r \in MediaRequests, NEW deleted \in BOOLEAN, Unpend(r, deleted)
      PROVE  objects'[k] # Nobody
  <2> DEFINE s == [at |-> "insert", user |-> mediaRequest[r].user, keys |-> mediaRequest[r].keys]
  <2>1. mediaRequest' = [mediaRequest EXCEPT ![r] = s] /\ s.keys = mediaRequest[r].keys
    BY <1>8 DEF Unpend, Set
  <2> HIDE DEF s
  <2>2. k \in mediaRequest[r].keys => r \in Completing(k)
    BY <1>8 DEF Unpend, Completing
  <2>3. Completing(k)' \subseteq Completing(k)
    BY <2>1, <2>2, KeyMoves
  <2>4. UNCHANGED <<assets, objects, uploaded>> /\ (pendingOf'[k] # Nobody => pendingOf[k] # Nobody)
    BY <1>1, <1>8 DEF Unpend
  <2> QED BY <1>2, <1>4, <2>3, <2>4
<1>9. ASSUME NEW r \in MediaRequests, InsertAsset(r)
      PROVE  objects'[k] # Nobody
  <2>1. mediaRequest' = [mediaRequest EXCEPT ![r] = NoMediaRequest] /\ NoMediaRequest.keys = {}
    BY <1>9 DEF InsertAsset, Done, NoMediaRequest
  <2>2. Completing(k)' \subseteq Completing(k)
    BY <2>1, KeyMoves
  <2>3. UNCHANGED <<pendingOf, objects, uploaded>> /\ mediaRequest[r].at = "insert"
    BY <1>9 DEF InsertAsset
  <2>4. (\E a \in AssetsOf(k)' : assets'[a].present)
        => (\E a \in AssetsOf(k) : assets[a].present) \/ k \in mediaRequest[r].keys
    <3>1. PICK d \in Keys :
            /\ mediaRequest[r].keys = {d}
            /\ DOMAIN assets' = DOMAIN assets \union {Len(assets) + 1}
            /\ assets'[Len(assets) + 1] = [key |-> d, by |-> mediaRequest[r].user, present |-> TRUE]
            /\ \A a \in DOMAIN assets : assets'[a] = assets[a]
      BY <1>9, AssetInserted
    <3> QED BY <3>1 DEF AssetsOf
  <2>5. InUse(k)
    BY <2>2, <2>3, <2>4 DEF InUse, Completing
  <2> QED BY <1>2, <2>3, <2>5
<1>10. ASSUME NEW r \in MediaRequests, NEW d \in DOMAIN assets, DeleteAsset(r, d)
       PROVE  objects'[k] # Nobody
  <2> DEFINE s == [at |-> "blob", user |-> Nobody, keys |-> {assets[d].key}]
  <2>1. mediaRequest' = [mediaRequest EXCEPT ![r] = s] /\ s.at = "blob"
    BY <1>10 DEF DeleteAsset, Set
  <2> HIDE DEF s
  <2>2. Completing(k)' \subseteq Completing(k)
    BY <2>1, KeyMoves
  <2>3. UNCHANGED <<pendingOf, objects, uploaded>>
    BY <1>10 DEF DeleteAsset
  <2> QED BY <1>2, <1>4, <1>10, <2>2, <2>3
\* A deleted object's key is out of use ..
<1>11. ASSUME NEW r \in MediaRequests, NEW deleted \in BOOLEAN, DeleteBlob(r, deleted)
       PROVE  objects'[k] # Nobody
  <2>1. mediaRequest' = [mediaRequest EXCEPT ![r] = NoMediaRequest] /\ NoMediaRequest.keys = {}
    BY <1>11 DEF DeleteBlob, Done, NoMediaRequest
  <2>2. Completing(k)' \subseteq Completing(k)
    BY <2>1, KeyMoves
  <2>3. UNCHANGED <<pendingOf, assets, uploaded>> /\ mediaRequest[r].at = "blob"
    BY <1>11 DEF DeleteBlob
  <2>4. InUse(k)
    BY <1>4, <2>2, <2>3
  <2>5. k \notin mediaRequest[r].keys
    <3>1. SUFFICES ASSUME k \in mediaRequest[r].keys
                   PROVE  FALSE
      OBVIOUS
    <3>2. Deleting(k) # {}
      BY <2>3, <3>1 DEF Deleting
    <3>3. PICK a \in AssetsOf(k) : ~assets[a].present
      BY <1>1, <3>2 DEF UsedOnce
    <3> QED BY <1>1, <2>4, <3>3 DEF UsedOnce, InUse
  <2>6. objects'[k] = objects[k]
    BY <1>1, <1>11, <2>5 DEF DeleteBlob
  <2> QED BY <1>2, <2>3, <2>4, <2>6
<1>12. ASSUME NEW r \in MediaRequests, NEW u \in Users, CollectPendingMediaKeys(r, u)
       PROVE  objects'[k] # Nobody
  <2> DEFINE s == [at |-> "erase", user |-> u, keys |-> {d \in Keys : pendingOf[d] = u}]
  <2>1. mediaRequest' = [mediaRequest EXCEPT ![r] = s] /\ s.at = "erase"
    BY <1>12 DEF CollectPendingMediaKeys, Set
  <2> HIDE DEF s
  <2>2. Completing(k)' \subseteq Completing(k)
    BY <2>1, KeyMoves
  <2>3. UNCHANGED <<pendingOf, assets, objects, uploaded>>
    BY <1>12 DEF CollectPendingMediaKeys
  <2> QED BY <1>2, <1>4, <2>2, <2>3
<1>13. ASSUME NEW r \in MediaRequests, CommitDeletion(r)
       PROVE  objects'[k] # Nobody
  <2>1. mediaRequest' = [mediaRequest EXCEPT ![r] = NoMediaRequest] /\ NoMediaRequest.keys = {}
    BY <1>13 DEF CommitDeletion, Done, NoMediaRequest
  <2>2. Completing(k)' \subseteq Completing(k)
    BY <2>1, KeyMoves
  <2>3. UNCHANGED <<assets, objects, uploaded>> /\ (pendingOf'[k] # Nobody => pendingOf[k] # Nobody)
    BY <1>1, <1>13 DEF CommitDeletion
  <2> QED BY <1>2, <1>4, <2>2, <2>3
\* .. and so is a cleaned-up one's.
<1>14. ASSUME NEW d \in Keys, NEW deleted \in BOOLEAN, CleanupR2(d, deleted)
       PROVE  objects'[k] # Nobody
  <2>1. UNCHANGED <<pendingOf, assets, mediaRequest, uploaded>> /\ d \in cleaning
    BY <1>14 DEF CleanupR2
  <2>2. InUse(k)
    BY <1>3, <1>4, <2>1
  <2>3. k # d
    BY <1>1, <2>1, <2>2 DEF UsedOnce, InUse, Erased
  <2>4. objects'[k] = objects[k]
    BY <1>1, <1>14, <2>3 DEF CleanupR2, MediaTypeOK
  <2> QED BY <1>2, <2>1, <2>2, <2>4
<1>15. ASSUME NEW r \in MediaRequests, MediaCutOff(r)
       PROVE  objects'[k] # Nobody
  <2>1. mediaRequest' = [mediaRequest EXCEPT ![r] = NoMediaRequest] /\ NoMediaRequest.keys = {}
    BY <1>15 DEF MediaCutOff, Done, NoMediaRequest
  <2>2. Completing(k)' \subseteq Completing(k)
    BY <2>1, KeyMoves
  <2>3. UNCHANGED <<pendingOf, assets, objects, uploaded>>
    BY <1>15 DEF MediaCutOff
  <2> QED BY <1>2, <1>4, <2>2, <2>3
<1>16. ASSUME Restart
       PROVE  objects'[k] # Nobody
  <2>1. Completing(k)' = {}
    BY <1>16 DEF Restart, NoMediaRequest, Completing
  <2>2. UNCHANGED <<pendingOf, assets, objects, uploaded>>
    BY <1>16 DEF Restart
  <2> QED BY <1>2, <1>4, <2>1, <2>2
<1>17. ASSUME UNCHANGED <<pendingOf, assets, objects, uploaded, mediaRequest>>
       PROVE  objects'[k] # Nobody
  BY <1>2, <1>3, <1>4, <1>17
<1>18. MediaTick \/ UNCHANGED mediaVars => UNCHANGED <<pendingOf, assets, objects, uploaded, mediaRequest>>
  BY DEF MediaTick, mediaVars
<1>19. ASSUME NEW r \in MediaRequests, NEW a \in 1..MaxAssets, DeleteAsset(r, a)
       PROVE  objects'[k] # Nobody
  BY <1>10, <1>19 DEF DeleteAsset
<1>20. ASSUME NEW linked, DeleteDestination(linked)
       PROVE  objects'[k] # Nobody
  <2>1. UNCHANGED <<pendingOf, objects, uploaded, mediaRequest>>
    BY <1>20 DEF DeleteDestination
  <2> QED BY <1>2, <1>3, <1>4, <1>20, <2>1
<1> QED BY <1>5, <1>6, <1>7, <1>8, <1>9, <1>11, <1>12, <1>13, <1>14, <1>15, <1>16, <1>17, <1>18, <1>19,
           <1>20
        DEF MediaNext

-----------------------------------------------------------------------------
(* Objects nobody knows of.                                                *)

\* Object k is pending, about to be deleted, named by a row, or a request is on
\* to it.
Known(k) ==
  \/ pendingOf[k] # Nobody
  \/ k \in cleaning
  \/ \E a \in DOMAIN assets : assets[a].present /\ assets[a].key = k
  \/ Inserting(k) # {} \/ Deleting(k) # {}

LEMMA KnownInductive ==
  ASSUME MediaTypeOK, MediaRequestInv, ObjectIsKnown, [MediaNext]_mediaVars
  PROVE  ObjectIsKnown'
<1> SUFFICES ASSUME NEW k \in Keys, k \notin leaked', objects'[k] # Nobody
             PROVE  Known(k)'
  BY DEF ObjectIsKnown, Known, Inserting, Deleting
<1> USE MediaRows
<1>1. k \notin leaked
  BY DEF MediaNext, mediaVars, Presign, Upload, Complete, Unpend, InsertAsset, DeleteAsset, DeleteDestination, DeleteBlob,
         CollectPendingMediaKeys, CommitDeletion, CleanupR2, MediaCutOff, Restart, MediaTick
<1>2. objects[k] # Nobody => Known(k)
  BY <1>1 DEF ObjectIsKnown, Known, Inserting, Deleting
<1>3. UNCHANGED mediaRequest => Inserting(k)' = Inserting(k) /\ Deleting(k)' = Deleting(k)
  BY DEF Inserting, Deleting
<1>4. ASSUME NEW u \in Users, NEW name \in FileNames, NEW stored \in BOOLEAN, Presign(u, name, stored)
      PROVE  Known(k)'
  <2>1. pendingOf[k] # Nobody => pendingOf'[k] = pendingOf[k]
    BY <1>4 DEF Presign, MediaTypeOK
  <2>2. UNCHANGED <<cleaning, assets, mediaRequest, objects>>
    BY <1>4 DEF Presign
  <2> QED BY <1>2, <1>3, <2>1, <2>2 DEF Known
<1>5. ASSUME NEW u \in Users, NEW d \in Keys, Upload(u, d)
      PROVE  Known(k)'
  <2>1. UNCHANGED <<pendingOf, cleaning, assets, mediaRequest>>
    BY <1>5 DEF Upload
  <2>2. pendingOf[k] # Nobody \/ objects'[k] = objects[k]
    BY <1>5 DEF Upload, MediaTypeOK
  <2> QED BY <1>2, <1>3, <2>1, <2>2 DEF Known
\* A request that starts, or is not on to an object.
<1>6. ASSUME NEW r \in MediaRequests, NEW s, mediaRequest' = [mediaRequest EXCEPT ![r] = s],
             UNCHANGED <<pendingOf, cleaning, assets, objects>>,
             r \notin Inserting(k) /\ r \notin Deleting(k)
      PROVE  Known(k)'
  <2>1. Inserting(k) \subseteq Inserting(k)' /\ Deleting(k) \subseteq Deleting(k)'
    BY <1>6, KeyMoves DEF Inserting, Deleting
  <2> QED BY <1>2, <1>6, <2>1 DEF Known
<1>7. ASSUME NEW r \in MediaRequests, NEW u \in Users,
             CollectPendingMediaKeys(r, u) \/ \E d \in Keys : Complete(r, u, d)
      PROVE  Known(k)'
  <2>1. UNCHANGED <<pendingOf, cleaning, assets, objects>> /\ Unused(r)
    BY <1>7 DEF CollectPendingMediaKeys, Complete
  <2>2. \E s : mediaRequest' = [mediaRequest EXCEPT ![r] = s]
    BY <1>7 DEF CollectPendingMediaKeys, Complete, Set
  <2> QED BY <1>6, <2>1, <2>2, KeySets
<1>8. ASSUME NEW r \in MediaRequests, NEW deleted \in BOOLEAN, Unpend(r, deleted)
      PROVE  Known(k)'
  <2> DEFINE s == [at |-> "insert", user |-> mediaRequest[r].user, keys |-> mediaRequest[r].keys]
  <2>1. mediaRequest' = [mediaRequest EXCEPT ![r] = s] /\ s.at = "insert" /\ s.keys = mediaRequest[r].keys
    BY <1>8 DEF Unpend, Set
  <2> HIDE DEF s
  <2>2. r \notin Inserting(k) /\ r \notin Deleting(k)
    BY <1>8 DEF Unpend, Inserting, Deleting
  <2>3. Inserting(k) \subseteq Inserting(k)' /\ Deleting(k) \subseteq Deleting(k)'
        /\ (k \in mediaRequest[r].keys => Inserting(k)' # {})
    BY <2>1, <2>2, KeyMoves DEF Inserting, Deleting
  <2>4. UNCHANGED <<cleaning, assets, objects>> /\ (k \notin mediaRequest[r].keys => pendingOf'[k] = pendingOf[k])
    BY <1>8 DEF Unpend
  <2> QED BY <1>2, <2>3, <2>4 DEF Known
<1>9. ASSUME NEW r \in MediaRequests, InsertAsset(r)
      PROVE  Known(k)'
  <2>1. mediaRequest' = [mediaRequest EXCEPT ![r] = NoMediaRequest]
    BY <1>9 DEF InsertAsset, Done
  <2>2. UNCHANGED <<pendingOf, cleaning, objects>> /\ r \notin Deleting(k)
    BY <1>9 DEF InsertAsset, Deleting
  <2>3. Inserting(k) \subseteq Inserting(k)' \union {r} /\ Deleting(k) \subseteq Deleting(k)'
    BY <2>1, <2>2, KeyMoves DEF Inserting, Deleting
  <2>4. PICK d \in Keys :
          /\ mediaRequest[r].keys = {d}
          /\ DOMAIN assets' = DOMAIN assets \union {Len(assets) + 1}
          /\ Len(assets) + 1 \notin DOMAIN assets
          /\ assets'[Len(assets) + 1] = [key |-> d, by |-> mediaRequest[r].user, present |-> TRUE]
          /\ \A a \in DOMAIN assets : assets'[a] = assets[a]
    BY <1>9, AssetInserted
  <2>5. CASE k = d
    <3>1. assets'[Len(assets) + 1].present /\ assets'[Len(assets) + 1].key = k
      BY <2>4, <2>5
    <3> QED BY <2>4, <3>1 DEF Known
  <2>6. CASE k # d
    <3>1. r \notin Inserting(k)
      BY <2>4, <2>6 DEF Inserting
    <3> QED BY <1>2, <2>2, <2>3, <2>4, <3>1 DEF Known
  <2> QED BY <2>5, <2>6
<1>10. ASSUME NEW r \in MediaRequests, NEW d \in DOMAIN assets, DeleteAsset(r, d)
       PROVE  Known(k)'
  <2> DEFINE s == [at |-> "blob", user |-> Nobody, keys |-> {assets[d].key}]
  <2>1. mediaRequest' = [mediaRequest EXCEPT ![r] = s] /\ s.at = "blob" /\ s.keys = {assets[d].key}
    BY <1>10 DEF DeleteAsset, Set
  <2> HIDE DEF s
  <2>2. UNCHANGED <<pendingOf, cleaning, objects>> /\ Unused(r)
    BY <1>10 DEF DeleteAsset
  <2>3. /\ Inserting(k) \subseteq Inserting(k)' /\ Deleting(k) \subseteq Deleting(k)'
        /\ assets[d].key = k => Deleting(k)' # {}
    <3>1. r \notin Inserting(k) /\ r \notin Deleting(k)
      BY <2>2, KeySets
    <3> QED BY <2>1, <3>1, KeyMoves DEF Inserting, Deleting
  <2>4. \A a \in DOMAIN assets \ {d} : a \in DOMAIN assets' /\ assets'[a] = assets[a]
    BY <1>10, AssetDeleted
  <2> QED BY <1>2, <2>2, <2>3, <2>4 DEF Known
<1>11. ASSUME NEW r \in MediaRequests, NEW deleted \in BOOLEAN, DeleteBlob(r, deleted)
       PROVE  Known(k)'
  <2>1. k \notin mediaRequest[r].keys /\ objects'[k] = objects[k] /\ UNCHANGED <<pendingOf, cleaning, assets>>
    BY <1>11 DEF DeleteBlob
  <2>2. mediaRequest' = [mediaRequest EXCEPT ![r] = NoMediaRequest]
    BY <1>11 DEF DeleteBlob, Done
  <2>3. r \notin Inserting(k) /\ r \notin Deleting(k)
    BY <2>1 DEF Inserting, Deleting
  <2>4. Inserting(k) \subseteq Inserting(k)' /\ Deleting(k) \subseteq Deleting(k)'
    BY <2>2, <2>3, KeyMoves DEF Inserting, Deleting
  <2> QED BY <1>2, <2>1, <2>4 DEF Known
<1>12. ASSUME NEW r \in MediaRequests, CommitDeletion(r)
       PROVE  Known(k)'
  <2>1. /\ pendingOf'[k] = pendingOf[k] \/ k \in cleaning'
        /\ UNCHANGED <<assets, objects>> /\ cleaning \subseteq cleaning'
    BY <1>12 DEF CommitDeletion
  <2>2. mediaRequest' = [mediaRequest EXCEPT ![r] = NoMediaRequest] /\ r \notin Inserting(k) /\ r \notin Deleting(k)
    BY <1>12 DEF CommitDeletion, Done, Inserting, Deleting
  <2>3. Inserting(k) \subseteq Inserting(k)' /\ Deleting(k) \subseteq Deleting(k)'
    BY <2>2, KeyMoves DEF Inserting, Deleting
  <2> QED BY <1>2, <2>1, <2>3 DEF Known
<1>13. ASSUME NEW d \in Keys, NEW deleted \in BOOLEAN, CleanupR2(d, deleted)
       PROVE  Known(k)'
  <2>1. k # d /\ objects'[k] = objects[k]
    BY <1>13 DEF CleanupR2, MediaTypeOK
  <2>2. UNCHANGED <<pendingOf, assets, mediaRequest>> /\ (k \in cleaning => k \in cleaning')
    BY <1>13, <2>1 DEF CleanupR2
  <2> QED BY <1>2, <1>3, <2>1, <2>2 DEF Known
<1>14. ASSUME NEW r \in MediaRequests, MediaCutOff(r)
       PROVE  Known(k)'
  <2>1. r \notin Inserting(k) /\ r \notin Deleting(k)
    BY <1>14 DEF MediaCutOff, Inserting, Deleting
  <2>2. UNCHANGED <<pendingOf, cleaning, assets, objects>> /\ mediaRequest' = [mediaRequest EXCEPT ![r] = NoMediaRequest]
    BY <1>14 DEF MediaCutOff, Done
  <2> QED BY <1>6, <2>1, <2>2
<1>15. ASSUME Restart
       PROVE  Known(k)'
  <2>1. k \notin cleaning /\ Inserting(k) = {} /\ Deleting(k) = {} /\ UNCHANGED <<pendingOf, assets, objects>>
    BY <1>15 DEF Restart, Inserting, Deleting
  <2> QED BY <1>2, <2>1 DEF Known
<1>16. ASSUME MediaTick \/ UNCHANGED mediaVars
       PROVE  Known(k)'
  <2>1. UNCHANGED <<pendingOf, cleaning, assets, objects, mediaRequest>>
    BY <1>16 DEF MediaTick, mediaVars
  <2> QED BY <1>2, <1>3, <2>1 DEF Known
<1>17. ASSUME NEW r \in MediaRequests, NEW a \in 1..MaxAssets, DeleteAsset(r, a)
       PROVE  Known(k)'
  BY <1>10, <1>17 DEF DeleteAsset
\* The rows of k, if it is not leaked, do not go with the destination.
<1>18. ASSUME NEW linked, DeleteDestination(linked)
       PROVE  Known(k)'
  <2>1. UNCHANGED <<pendingOf, cleaning, objects, mediaRequest>>
    BY <1>18 DEF DeleteDestination
  <2>2. \A a \in DOMAIN assets : assets[a].key = k => a \in DOMAIN assets' /\ assets'[a] = assets[a]
    BY <1>18, AssetsUnlisted
  <2> QED BY <1>2, <1>3, <2>1, <2>2 DEF Known
<1> QED BY <1>4, <1>5, <1>7, <1>8, <1>9, <1>11, <1>12, <1>13, <1>14, <1>15, <1>16, <1>17, <1>18
        DEF MediaNext

-----------------------------------------------------------------------------
(* The theorems.                                                           *)

LEMMA MediaInvariant == MediaSpec => [](MediaTypeOK /\ LibraryInv /\ ObjectIsKnown)
<1>1. MediaInit => MediaTypeOK /\ LibraryInv /\ ObjectIsKnown
  <2> SUFFICES ASSUME MediaInit
               PROVE  MediaTypeOK /\ LibraryInv /\ ObjectIsKnown
    OBVIOUS
  <2> USE DEF MediaInit
  <2>1. MediaTypeOK
    BY EmptySeq, MediaAssumption DEF MediaTypeOK, Ticks, NoMediaRequest
  <2>2. MediaRequestInv /\ UrlInv /\ ObjectInv /\ ObjectIsKnown
    BY DEF MediaRequestInv, UrlInv, ObjectInv, ObjectIsKnown, NoMediaRequest, Unused
  <2>3. OneUse
    BY DEF OneUse, UsedOnce, Completing, Inserting, Deleting, Collected, AssetsOf, Erased, NoMediaRequest
  <2> QED BY <2>1, <2>2, <2>3 DEF LibraryInv
<1>2. MediaTypeOK /\ LibraryInv /\ ObjectIsKnown /\ [MediaNext]_mediaVars
      => MediaTypeOK' /\ LibraryInv' /\ ObjectIsKnown'
  BY MediaTypeInductive, MediaRequestsKept, UrlInductive, OneUseInductive, ObjectInductive, KnownInductive
     DEF LibraryInv
<1> QED BY <1>1, <1>2, PTL DEF MediaSpec

\* The tables, the object store and the requests stay within their types.
THEOREM MediaTypeCorrect == MediaSpec => []MediaTypeOK
BY MediaInvariant, PTL

\* A media row's object is there and its uploader's own: neither the deletion of
\* another row nor an account deletion takes it away.
THEOREM AssetsServed == MediaSpec => []AssetHasObject
<1>1. MediaTypeOK /\ LibraryInv => AssetHasObject
  <2> SUFFICES ASSUME MediaTypeOK, LibraryInv, NEW a \in DOMAIN assets, assets[a].present,
                      assets[a].key \in uploaded \ (shared \union raced)
               PROVE  objects[assets[a].key] = assets[a].by
    BY DEF AssetHasObject
  <2> DEFINE k == assets[a].key
  <2>1. InUse(k) /\ k \in Keys
    BY MediaRows DEF InUse, AssetsOf, Asset
  <2>2. objects[k] # Nobody
    BY <2>1 DEF LibraryInv, ObjectInv
  <2>3. <<objects[k], k>> \in urls /\ <<assets[a].by, k>> \in urls
    BY <2>1, <2>2 DEF LibraryInv, UrlInv
  <2> QED BY <2>3, OneOwner DEF LibraryInv
<1> QED BY <1>1, MediaInvariant, PTL

\* No object is left in the store that no row, clean-up or request knows of, but
\* after a failure.
THEOREM NoObjectForgotten == MediaSpec => []ObjectIsKnown
BY MediaInvariant, PTL
=============================================================================
