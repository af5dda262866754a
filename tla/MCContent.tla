------------------------------ MODULE MCContent ------------------------------
(***************************************************************************)
(* What users publish, model-checked.  The four modules share no state: a  *)
(* behaviour picks a scenario and stays with it, and a scenario leaves out *)
(* what its question does not need.                                        *)
(***************************************************************************)
EXTENDS StoryFeed, CommentThread, MediaLibrary, StoryPages, TLC

CONSTANTS Author, Reader

VARIABLE scenario

\* In scenarios of one user nothing is done by the other.
AuthorOnly(requests) == \A r \in DOMAIN requests : requests[r].user # Reader

OneAtATime(requests) ==
  \A q, r \in DOMAIN requests : q # r => "idle" \in {requests[q].at, requests[r].at}

Init ==
  /\ scenario \in {"media", "toggles", "threads", "likes", "uploads", "expiry", "pages"}
  /\ StoryInit
  /\ CommentInit
  /\ scenario # "likes" => \A s \in Stories : creatorOf[s] = Author
  /\ MediaInit
  /\ PageInit

\* Concurrency: two submissions, against administrators who link and delete media.
SubmissionsNext == StoryNext /\ toggles' = toggles

\* Concurrency: two toggles of one user, of stories without media.
TogglesNext == StoryNext /\ linkedTo' = linkedTo /\ AuthorOnly(storyRequest')

\* Depth: three comments below each other.
ThreadsNext ==
  /\ CommentNext
  /\ likeCalls' = likeCalls
  /\ AuthorOnly(commentRequest') /\ OneAtATime(commentRequest')
  /\ \A c \in DOMAIN comments' : comments'[c].author # Reader

\* Concurrency: two requests of two users about one comment.
LikesNext == CommentNext /\ Len(comments') <= 1

\* Concurrency: two requests of two users, all in one second.
UploadsNext == MediaNext /\ clock' = clock

\* Expiry: a pending row and a URL are good for one of two ticks.
ExpiryNext ==
  /\ MediaNext
  /\ urls' \subseteq {Author} \X Keys
  /\ AuthorOnly(mediaRequest') /\ OneAtATime(mediaRequest')

Next ==
  /\ UNCHANGED scenario
  /\ CASE scenario = "media" -> SubmissionsNext
       [] scenario = "toggles" -> TogglesNext
       [] OTHER -> UNCHANGED storyVars
  /\ CASE scenario = "threads" -> ThreadsNext
       [] scenario = "likes" -> LikesNext
       [] OTHER -> UNCHANGED commentVars
  /\ CASE scenario = "uploads" -> UploadsNext
       [] scenario = "expiry" -> ExpiryNext
       [] OTHER -> UNCHANGED mediaVars
  /\ IF scenario = "pages" THEN PageNext ELSE UNCHANGED pageVars

vars == <<scenario, storyVars, commentVars, mediaVars, pageVars>>

Spec == Init /\ [][Next]_vars

Interchangeable == Permutations(StoryRequests) \union Permutations(MediaIds)

-----------------------------------------------------------------------------
\* Every variable has the type its module gives it.
TypeOK == StoryTypeOK /\ CommentTypeOK /\ MediaTypeOK /\ PageTypeOK
=============================================================================
