---------------------------- MODULE MediaLibrary ----------------------------
(***************************************************************************)
(* Media: a presigned upload, its completion into a row of media_assets,   *)
(* deletion by administrators, and what account deletion does to uploads   *)
(* that were never completed.                                              *)
(*                                                                         *)
(* A step is one SQL statement or one call of the object store.  The store *)
(* and the table are kept in step by nobody but these handlers.            *)
(***************************************************************************)
EXTENDS Accounts, Naturals, Sequences, FiniteSets

CONSTANTS
  FileNames,
  MediaRequests,  \* concurrent Complete, Delete and account deletion requests
  Lifetime,       \* ticks a pending row and an upload URL are good for (5 minutes)
  LastTick,       \* bound: the clock
  MaxAssets       \* bound: rows of media_assets ever inserted

ASSUME MediaAssumption ==
  /\ Lifetime \in Nat
  /\ LastTick \in Nat \ {0}
  /\ MaxAssets \in Nat

VARIABLES
  clock,
  pendingOf,      \* table pending_media_uploads: the user a key is pending for
  urls,           \* upload URLs handed out: pairs <<user, key>>
  objects,        \* who uploaded the object of a key last
  assets,         \* table media_assets, in the order of insertion
  mediaRequest,
  cleaning,       \* keys the goroutines of cleanupR2 still have to delete
  \* History, read by the properties only.
  uploaded,       \* keys somebody has uploaded an object for
  shared,         \* keys presigned twice
  raced,          \* keys completed, or collected for deletion, while another
                  \* request was completing them, or whose pending row was not deleted
  leaked          \* keys whose object nobody will delete any more

mediaVars == <<clock, pendingOf, urls, objects, assets, mediaRequest, cleaning,
               uploaded, shared, raced, leaked>>

-----------------------------------------------------------------------------
Ticks == 1..LastTick

\* "media/<second>/<file name>".
Keys == Ticks \X FileNames

Asset == [key : Keys, by : Users, present : BOOLEAN]

\* The keys a request is about to complete, to delete or has collected.
NoMediaRequest == [at |-> "idle", user |-> Nobody, keys |-> {}]

MediaTypeOK ==
  /\ clock \in Ticks
  /\ pendingOf \in [Keys -> Users \union {Nobody}]
  /\ urls \subseteq Users \X Keys
  /\ objects \in [Keys -> Users \union {Nobody}]
  /\ assets \in Seq(Asset) /\ Len(assets) <= MaxAssets
  /\ mediaRequest \in [MediaRequests ->
       [at : {"idle", "unpend", "insert", "blob", "erase"}, user : Users \union {Nobody},
        keys : SUBSET Keys]]
  /\ cleaning \subseteq Keys
  /\ uploaded \subseteq Keys /\ shared \subseteq Keys /\ raced \subseteq Keys /\ leaked \subseteq Keys

MediaInit ==
  /\ clock = 1
  /\ pendingOf = [k \in Keys |-> Nobody]
  /\ urls = {}
  /\ objects = [k \in Keys |-> Nobody]
  /\ assets = <<>>
  /\ mediaRequest = [r \in MediaRequests |-> NoMediaRequest]
  /\ cleaning = {}
  /\ uploaded = {} /\ shared = {} /\ raced = {} /\ leaked = {}

Unused(r) == mediaRequest[r].at = "idle"

Set(r, step, u, keys) ==
  mediaRequest' = [mediaRequest EXCEPT ![r] = [at |-> step, user |-> u, keys |-> keys]]

Done(r) == mediaRequest' = [mediaRequest EXCEPT ![r] = NoMediaRequest]

\* expires_at > now(), both for rows and for URLs.
Fresh(k) == clock < k[1] + Lifetime

\* Requests that have checked k's pending row and will insert an asset for it.
Completing(k) == {q \in MediaRequests :
                    mediaRequest[q].at \in {"unpend", "insert"} /\ k \in mediaRequest[q].keys}

\* Account deletions that have collected k.
Collected(k) == {q \in MediaRequests : mediaRequest[q].at = "erase" /\ k \in mediaRequest[q].keys}

-----------------------------------------------------------------------------
(* Upload.                                                                 *)

\* INSERT .. ON CONFLICT DO NOTHING: a key that is pending already stays the
\* first user's.  The URL is handed out then, and also if the INSERT failed.
Presign(u, name, stored) ==
  LET k == <<clock, name>> IN
  /\ pendingOf' = IF stored /\ pendingOf[k] = Nobody THEN [pendingOf EXCEPT ![k] = u] ELSE pendingOf
  /\ urls' = urls \union {<<u, k>>}
  /\ shared' = IF \E x \in urls : x[2] = k THEN shared \union {k} ELSE shared
  /\ UNCHANGED <<clock, objects, assets, mediaRequest, cleaning, uploaded, raced, leaked>>

\* The client's PUT to the object store, with a URL that is still good.  Nothing
\* revokes the URL of a completed, deleted or cleaned-up upload.
Upload(u, k) ==
  /\ <<u, k>> \in urls
  /\ Fresh(k)
  /\ objects' = [objects EXCEPT ![k] = u]
  /\ uploaded' = uploaded \union {k}
  /\ leaked' = IF pendingOf[k] = Nobody THEN leaked \union {k} ELSE leaked
  /\ UNCHANGED <<clock, pendingOf, urls, assets, mediaRequest, cleaning, shared, raced>>

\* Complete's SELECT COUNT(*) ..
Complete(r, u, k) ==
  /\ Unused(r)
  /\ pendingOf[k] = u /\ Fresh(k)
  /\ Set(r, "unpend", u, {k})
  /\ raced' = IF Completing(k) \union Collected(k) # {} THEN raced \union {k} ELSE raced
  /\ UNCHANGED <<clock, pendingOf, urls, objects, assets, cleaning, uploaded, shared, leaked>>

\* Mutant: the pending row is left where it is.
KeepPending(r, deleted) ==
  /\ mediaRequest[r].at = "unpend"
  /\ pendingOf' = pendingOf
  /\ Set(r, "insert", mediaRequest[r].user, mediaRequest[r].keys)
  /\ UNCHANGED <<clock, urls, objects, assets, cleaning, uploaded, shared, raced, leaked>>

\* .. its DELETE, whose failure is not looked at ..
Unpend(r, deleted) ==
  /\ mediaRequest[r].at = "unpend"
  /\ pendingOf' = [k \in Keys |-> IF /\ deleted
                                     /\ k \in mediaRequest[r].keys
                                     /\ pendingOf[k] = mediaRequest[r].user
                                  THEN Nobody ELSE pendingOf[k]]
  /\ Set(r, "insert", mediaRequest[r].user, mediaRequest[r].keys)
  /\ raced' = IF deleted THEN raced ELSE raced \union mediaRequest[r].keys
  /\ UNCHANGED <<clock, urls, objects, assets, cleaning, uploaded, shared, leaked>>

\* .. and its INSERT.  Whether the object is there is not looked at.
InsertAsset(r) ==
  /\ mediaRequest[r].at = "insert"
  /\ Len(assets) < MaxAssets
  /\ \E k \in mediaRequest[r].keys :
       assets' = Append(assets, [key |-> k, by |-> mediaRequest[r].user, present |-> TRUE])
  /\ Done(r)
  /\ UNCHANGED <<clock, pendingOf, urls, objects, cleaning, uploaded, shared, raced, leaked>>

-----------------------------------------------------------------------------
(* Deletion.                                                               *)

\* MediaHandler.Delete: DELETE .. RETURNING object_key ..
DeleteAsset(r, a) ==
  /\ Unused(r)
  /\ a \in DOMAIN assets
  /\ assets[a].present
  /\ assets' = [assets EXCEPT ![a] = [assets[a] EXCEPT !.present = FALSE]]
  /\ Set(r, "blob", Nobody, {assets[a].key})
  /\ UNCHANGED <<clock, pendingOf, urls, objects, cleaning, uploaded, shared, raced, leaked>>

\* .. then the object, whose deletion may fail: only logged.
DeleteBlob(r, deleted) ==
  /\ mediaRequest[r].at = "blob"
  /\ objects' = [k \in Keys |-> IF deleted /\ k \in mediaRequest[r].keys THEN Nobody ELSE objects[k]]
  /\ leaked' = IF deleted THEN leaked ELSE leaked \union mediaRequest[r].keys
  /\ Done(r)
  /\ UNCHANGED <<clock, pendingOf, urls, assets, cleaning, uploaded, shared, raced>>

\* DestinationsHandler.Delete: the rows of the media linked to the destination,
\* which administrators may link any to, go with it.  Their objects stay.
DeleteDestination(linked) ==
  /\ linked # {}
  /\ linked \subseteq {a \in DOMAIN assets : assets[a].present}
  /\ assets' = [a \in DOMAIN assets |-> IF a \in linked THEN [assets[a] EXCEPT !.present = FALSE]
                                        ELSE assets[a]]
  /\ leaked' = leaked \union {assets[a].key : a \in linked}
  /\ UNCHANGED <<clock, pendingOf, urls, objects, mediaRequest, cleaning, uploaded, shared, raced>>

\* Account deletion reads the user's pending keys first ..
CollectPendingMediaKeys(r, u) ==
  LET keys == {k \in Keys : pendingOf[k] = u} IN
  /\ Unused(r)
  /\ Set(r, "erase", u, keys)
  /\ raced' = raced \union {k \in keys : Completing(k) # {}}
  /\ UNCHANGED <<clock, pendingOf, urls, objects, assets, cleaning, uploaded, shared, leaked>>

\* Mutant: the goroutine is started before the keys are known.
EraseOnly(r) ==
  /\ mediaRequest[r].at = "erase"
  /\ pendingOf' = [k \in Keys |-> IF pendingOf[k] = mediaRequest[r].user THEN Nobody ELSE pendingOf[k]]
  /\ leaked' = leaked \union {k \in Keys \ mediaRequest[r].keys : pendingOf[k] = mediaRequest[r].user}
  /\ cleaning' = cleaning
  /\ Done(r)
  /\ UNCHANGED <<clock, urls, objects, assets, uploaded, shared, raced>>

\* .. deletes the rows there are by then, those of later presigns too, commits
\* and starts the goroutine.
CommitDeletion(r) ==
  /\ mediaRequest[r].at = "erase"
  /\ pendingOf' = [k \in Keys |-> IF pendingOf[k] = mediaRequest[r].user THEN Nobody ELSE pendingOf[k]]
  /\ leaked' = leaked \union {k \in Keys \ mediaRequest[r].keys : pendingOf[k] = mediaRequest[r].user}
  /\ cleaning' = cleaning \union mediaRequest[r].keys
  /\ Done(r)
  /\ UNCHANGED <<clock, urls, objects, assets, uploaded, shared, raced>>

\* cleanupR2, key by key; a failure is only logged.
CleanupR2(k, deleted) ==
  /\ k \in cleaning
  /\ cleaning' = cleaning \ {k}
  /\ objects' = IF deleted THEN [objects EXCEPT ![k] = Nobody] ELSE objects
  /\ leaked' = IF deleted THEN leaked ELSE leaked \union {k}
  /\ UNCHANGED <<clock, pendingOf, urls, assets, mediaRequest, uploaded, shared, raced>>

-----------------------------------------------------------------------------
(* Faults and time.                                                        *)

\* Time limit or client gone: what was done stays done.  A deletion's
\* transaction is rolled back.
MediaCutOff(r) ==
  /\ ~Unused(r)
  /\ leaked' = IF mediaRequest[r].at \in {"insert", "blob"}
               THEN leaked \union mediaRequest[r].keys ELSE leaked
  /\ Done(r)
  /\ UNCHANGED <<clock, pendingOf, urls, objects, assets, cleaning, uploaded, shared, raced>>

\* The process restarts: goroutines are forgotten, and requests cut off.
Restart ==
  /\ cleaning' = {}
  /\ leaked' = leaked \union cleaning \union
       UNION {mediaRequest[r].keys : r \in {q \in MediaRequests :
                                              mediaRequest[q].at \in {"insert", "blob"}}}
  /\ mediaRequest' = [r \in MediaRequests |-> NoMediaRequest]
  /\ UNCHANGED <<clock, pendingOf, urls, objects, assets, uploaded, shared, raced>>

MediaTick ==
  /\ clock < LastTick
  /\ clock' = clock + 1
  /\ UNCHANGED <<pendingOf, urls, objects, assets, mediaRequest, cleaning, uploaded, shared,
                 raced, leaked>>

-----------------------------------------------------------------------------
MediaNext ==
  \/ \E u \in Users, name \in FileNames, stored \in BOOLEAN : Presign(u, name, stored)
  \/ \E u \in Users, k \in Keys : Upload(u, k)
  \/ \E r \in MediaRequests :
       \/ \E u \in Users, k \in Keys : Complete(r, u, k)
       \/ \E deleted \in BOOLEAN : Unpend(r, deleted)
       \/ InsertAsset(r)
       \/ \E a \in 1..MaxAssets : DeleteAsset(r, a)
       \/ \E deleted \in BOOLEAN : DeleteBlob(r, deleted)
       \/ \E u \in Users : CollectPendingMediaKeys(r, u)
       \/ CommitDeletion(r)
       \/ MediaCutOff(r)
  \/ \E linked \in SUBSET (1..MaxAssets) : DeleteDestination(linked)
  \/ \E k \in Keys, deleted \in BOOLEAN : CleanupR2(k, deleted)
  \/ Restart
  \/ MediaTick

MediaSpec == MediaInit /\ [][MediaNext]_mediaVars

-----------------------------------------------------------------------------
(* Properties.                                                             *)

\* A media row's object is there and is its uploader's own, if it was ever
\* uploaded: neither account deletion nor the deletion of another row takes it
\* away, unless two presigns of one second shared the key, or the row was
\* completed twice at once or while the account was being deleted, or its pending
\* row could not be deleted (media.go:78, :120, account.go:78).
AssetHasObject ==
  \A a \in DOMAIN assets :
    assets[a].present /\ assets[a].key \in uploaded \ (shared \union raced)
    => objects[assets[a].key] = assets[a].by

\* An object in the store is known: it is pending, or the clean-up is about to
\* delete it, or a row names it or did until the request that deletes both, or a
\* request is about to insert the row; unless a deletion failed, a restart or a
\* cut-off request forgot it, it was uploaded after its row was gone, or its row
\* went with the destination it was linked to (destinations.go:440).  Two
\* requests for one key do not lose it (account.go:105, media.go:127).
ObjectIsKnown ==
  \A k \in Keys \ leaked :
    objects[k] # Nobody =>
      \/ pendingOf[k] # Nobody
      \/ k \in cleaning
      \/ \E a \in DOMAIN assets : assets[a].present /\ assets[a].key = k
      \/ \E r \in MediaRequests : /\ mediaRequest[r].at \in {"insert", "blob"}
                                  /\ k \in mediaRequest[r].keys

-----------------------------------------------------------------------------
(* The inductive invariants behind the properties.                         *)

\* A request that completes or deletes has one key; one that completes, or
\* erases an account, has a user.
MediaRequestInv ==
  \A r \in MediaRequests :
    /\ mediaRequest[r].at \in {"unpend", "insert", "blob"} => \E k \in Keys : mediaRequest[r].keys = {k}
    /\ mediaRequest[r].at \in {"unpend", "insert", "erase"} => mediaRequest[r].user \in Users
    /\ Unused(r) => mediaRequest[r].keys = {}

\* Whoever has to do with a key was handed a URL for it; nobody else was,
\* unless it is shared.
UrlInv ==
  /\ \A x, y \in urls : x[2] = y[2] /\ x[2] \notin shared => x = y
  /\ \A k \in Keys : /\ pendingOf[k] # Nobody => <<pendingOf[k], k>> \in urls
                     /\ objects[k] # Nobody => <<objects[k], k>> \in urls
                     /\ k \in cleaning \union uploaded => \E x \in urls : x[2] = k
  /\ \A r \in MediaRequests : mediaRequest[r].at \in {"unpend", "insert", "erase"}
       => \A k \in mediaRequest[r].keys : <<mediaRequest[r].user, k>> \in urls
  /\ \A a \in DOMAIN assets : <<assets[a].by, assets[a].key>> \in urls

\* Requests that will insert an asset for k next, or delete its object.
Inserting(k) == {q \in MediaRequests : mediaRequest[q].at = "insert" /\ k \in mediaRequest[q].keys}
Deleting(k) == {q \in MediaRequests : mediaRequest[q].at = "blob" /\ k \in mediaRequest[q].keys}

Erased(k) == k \in cleaning \/ Collected(k) # {}

AssetsOf(k) == {a \in DOMAIN assets : assets[a].key = k}

\* A key that is neither shared nor raced is used by one at a time: its row is
\* pending, then completed by one request, then the only asset; or it is erased.
UsedOnce(k) ==
  /\ \A q, r \in Completing(k) : q = r
  /\ \A a, b \in AssetsOf(k) : a = b
  /\ Completing(k) # {} => ~Erased(k) /\ AssetsOf(k) = {}
  /\ AssetsOf(k) # {} => ~Erased(k)
  /\ AssetsOf(k) # {} \/ Inserting(k) # {} \/ k \in cleaning => pendingOf[k] = Nobody
  /\ Deleting(k) # {} => \E a \in AssetsOf(k) : ~assets[a].present

OneUse == \A k \in Keys \ (shared \union raced) : UsedOnce(k)

\* The object of a key that is in use is there, if it was ever uploaded.
InUse(k) ==
  \/ pendingOf[k] # Nobody
  \/ Completing(k) # {}
  \/ \E a \in AssetsOf(k) : assets[a].present

ObjectInv ==
  \A k \in uploaded \ (shared \union raced) : InUse(k) => objects[k] # Nobody

LibraryInv == MediaRequestInv /\ UrlInv /\ OneUse /\ ObjectInv
=============================================================================
