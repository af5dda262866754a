--------------------------- MODULE CommentThread ---------------------------
(***************************************************************************)
(* Comments on stories: replies, edits, deletion by author, story creator  *)
(* or moderator, likes with a counter kept beside them, and the list the   *)
(* app shows.  A step is one SQL statement.                                *)
(***************************************************************************)
EXTENDS Accounts, Naturals, Sequences, FiniteSets

CONSTANTS
  Stories,
  CommentRequests,
  MaxComments,     \* bound: rows of story_comments
  MaxLikes         \* bound: ToggleLike requests

ASSUME CommentAssumption ==
  /\ IsFiniteSet(Users)
  /\ MaxComments \in Nat
  /\ MaxLikes \in Nat

VARIABLES
  creatorOf,       \* stories.creator_id
  comments,        \* table story_comments, in the order of created_at
  likes,           \* table comment_interactions
  commentRequest,
  \* History, read by the properties and the bounds only.
  miscounted,      \* comments whose counter was last stored late, wrongly or not at all
  editedLate,      \* comments edited after their deletion
  likeCalls

commentVars == <<creatorOf, comments, likes, commentRequest, miscounted, editedLate, likeCalls>>

-----------------------------------------------------------------------------
Comment == [story : Stories, author : Users \union {Nobody}, parent : 0..MaxComments,
            body : {"text", "[deleted]"}, status : {"published", "deleted"}, likeCount : 0..Cardinality(Users)]

NoCommentRequest ==
  [at |-> "idle", user |-> Nobody, comment |-> 0, count |-> 0, late |-> FALSE]

CommentTypeOK ==
  /\ creatorOf \in [Stories -> Users \union {Nobody}]
  /\ comments \in Seq(Comment) /\ Len(comments) <= MaxComments
  /\ likes \subseteq Users \X DOMAIN comments
  /\ commentRequest \in [CommentRequests ->
       [at : {"idle", "edit", "story", "delete", "note", "count", "store"},
        user : Users \union {Nobody},   \* read at "story" only
        comment : 0..MaxComments, count : 0..Cardinality(Users), late : BOOLEAN]]
  /\ miscounted \subseteq DOMAIN comments
  /\ editedLate \subseteq DOMAIN comments
  /\ likeCalls \in 0..MaxLikes

CommentInit ==
  /\ creatorOf \in [Stories -> Users]
  /\ comments = <<>>
  /\ likes = {}
  /\ commentRequest = [r \in CommentRequests |-> NoCommentRequest]
  /\ miscounted = {}
  /\ editedLate = {}
  /\ likeCalls = 0

Free(r) == commentRequest[r].at = "idle"

Begin(r, u, c, step) ==
  commentRequest' = [commentRequest EXCEPT ![r] =
    [NoCommentRequest EXCEPT !.at = step, !.user = u, !.comment = c]]

Reply(r) == commentRequest' = [commentRequest EXCEPT ![r] = NoCommentRequest]

-----------------------------------------------------------------------------
(* Writing and editing.                                                    *)

Insert(u, s, p) ==
  comments' = Append(comments, [story |-> s, author |-> u, parent |-> p, body |-> "text",
                                status |-> "published", likeCount |-> 0])

CreateComment(u, s) ==
  /\ Len(comments) < MaxComments
  /\ Insert(u, s, 0)
  /\ UNCHANGED <<creatorOf, likes, commentRequest, miscounted, editedLate, likeCalls>>

\* Mutant: replies to replies.
CreateAnyReply(u, s, p) ==
  /\ Len(comments) < MaxComments
  /\ p \in DOMAIN comments
  /\ Insert(u, s, p)
  /\ UNCHANGED <<creatorOf, likes, commentRequest, miscounted, editedLate, likeCalls>>

\* The parent is read by a statement of its own, but no statement changes a
\* parent_id or removes a comment.  The story is the path's, not the parent's.
CreateReply(u, s, p) ==
  /\ Len(comments) < MaxComments
  /\ p \in DOMAIN comments
  /\ comments[p].parent = 0
  /\ Insert(u, s, p)
  /\ UNCHANGED <<creatorOf, likes, commentRequest, miscounted, editedLate, likeCalls>>

\* UpdateComment: GetCommentByID and the author ..
CheckAuthor(r, u, c) ==
  /\ Free(r)
  /\ c \in DOMAIN comments
  /\ comments[c].author = u
  /\ Begin(r, Nobody, c, "edit")
  /\ UNCHANGED <<creatorOf, comments, likes, miscounted, editedLate, likeCalls>>

\* .. then UpdateCommentBody, whatever the status is.
UpdateCommentBody(r) ==
  LET c == commentRequest[r].comment IN
  /\ commentRequest[r].at = "edit"
  /\ comments' = [comments EXCEPT ![c] = [comments[c] EXCEPT !.body = "text"]]
  /\ editedLate' = IF comments[c].status = "deleted" THEN editedLate \union {c} ELSE editedLate
  /\ Reply(r)
  /\ UNCHANGED <<creatorOf, likes, miscounted, likeCalls>>

-----------------------------------------------------------------------------
(* Deletion.                                                               *)

Redacted(c) == [comments EXCEPT ![c] =
                  [comments[c] EXCEPT !.status = "deleted", !.body = "[deleted]"]]

\* DeleteComment: the comment is read; the author may delete it, for others the
\* story is read next.
DeleteComment(r, u, c) ==
  /\ Free(r)
  /\ c \in DOMAIN comments
  /\ IF comments[c].author = u THEN Begin(r, Nobody, c, "delete") ELSE Begin(r, u, c, "story")
  /\ UNCHANGED <<creatorOf, comments, likes, miscounted, editedLate, likeCalls>>

\* The story's creator may delete it too.
CheckStory(r) ==
  LET q == commentRequest[r] IN
  /\ q.at = "story"
  /\ IF creatorOf[comments[q.comment].story] = q.user
     THEN Begin(r, Nobody, q.comment, "delete") ELSE Reply(r)
  /\ UNCHANGED <<creatorOf, comments, likes, miscounted, editedLate, likeCalls>>

SoftDeleteComment(r) ==
  LET c == commentRequest[r].comment IN
  /\ commentRequest[r].at = "delete"
  /\ comments' = Redacted(c)
  /\ editedLate' = editedLate \ {c}
  /\ Reply(r)
  /\ UNCHANGED <<creatorOf, likes, miscounted, likeCalls>>

\* Moderate: the deletion, then the note in a second statement.  The note is
\* left out; nothing in the repository reads it.
ModerateComment(r, c) ==
  /\ Free(r)
  /\ c \in DOMAIN comments
  /\ comments' = Redacted(c)
  /\ editedLate' = editedLate \ {c}
  /\ Begin(r, Nobody, c, "note")
  /\ UNCHANGED <<creatorOf, likes, miscounted, likeCalls>>

RecordNote(r) ==
  /\ commentRequest[r].at = "note"
  /\ Reply(r)
  /\ UNCHANGED <<creatorOf, comments, likes, miscounted, editedLate, likeCalls>>

-----------------------------------------------------------------------------
(* Likes.                                                                  *)

LikesOf(c) == {x \in likes : x[2] = c}

\* Other requests that counted c's likes and have not stored the number.
Counted(r, c) == {q \in CommentRequests \ {r} :
                    commentRequest[q].at = "store" /\ commentRequest[q].comment = c}

\* ToggleCommentInteraction, one statement: delete, insert if nothing was there.
ToggleLike(r, u, c) ==
  /\ Free(r)
  /\ likeCalls < MaxLikes
  /\ likeCalls' = likeCalls + 1
  /\ c \in DOMAIN comments
  /\ likes' = IF <<u, c>> \in likes THEN likes \ {<<u, c>>} ELSE likes \union {<<u, c>>}
  /\ commentRequest' = [q \in CommentRequests |->
       IF q = r THEN [NoCommentRequest EXCEPT !.at = "count", !.comment = c]
       ELSE IF q \in Counted(r, c) THEN [commentRequest[q] EXCEPT !.late = TRUE]
       ELSE commentRequest[q]]
  /\ UNCHANGED <<creatorOf, comments, miscounted, editedLate>>

\* SELECT COUNT(*): zero if it fails, which is not looked at.
CountLikes(r, read) ==
  /\ commentRequest[r].at = "count"
  /\ commentRequest' = [commentRequest EXCEPT ![r] =
       [commentRequest[r] EXCEPT
          !.at = "store", !.late = ~read,
          !.count = IF read THEN Cardinality(LikesOf(commentRequest[r].comment)) ELSE 0]]
  /\ UNCHANGED <<creatorOf, comments, likes, miscounted, editedLate, likeCalls>>

\* Mutant: the counter goes up with every toggle.
StoreOneMore(r) ==
  LET q == commentRequest[r] IN
  /\ q.at = "store"
  /\ comments' = [comments EXCEPT ![q.comment] =
                    [comments[q.comment] EXCEPT !.likeCount = comments[q.comment].likeCount + 1]]
  /\ miscounted' = IF q.late THEN miscounted \union {q.comment} ELSE miscounted \ {q.comment}
  /\ Reply(r)
  /\ UNCHANGED <<creatorOf, likes, editedLate, likeCalls>>

StoreCount(r) ==
  LET q == commentRequest[r] IN
  /\ q.at = "store"
  /\ comments' = [comments EXCEPT ![q.comment] = [comments[q.comment] EXCEPT !.likeCount = q.count]]
  /\ miscounted' = IF q.late THEN miscounted \union {q.comment} ELSE miscounted \ {q.comment}
  /\ Reply(r)
  /\ UNCHANGED <<creatorOf, likes, editedLate, likeCalls>>

-----------------------------------------------------------------------------
(* Faults and account deletion.                                            *)

CommentCutOff(r) ==
  /\ ~Free(r)
  /\ Reply(r)
  /\ miscounted' = IF commentRequest[r].at \in {"count", "store"}
                   THEN miscounted \union {commentRequest[r].comment} ELSE miscounted
  /\ UNCHANGED <<creatorOf, comments, likes, editedLate, likeCalls>>

\* Comments and stories are anonymised, likes deleted, counters left as they are.
CommentAccountDeleted(u) ==
  LET liked == {c \in DOMAIN comments : <<u, c>> \in likes} IN
  /\ creatorOf' = [s \in Stories |-> IF creatorOf[s] = u THEN Nobody ELSE creatorOf[s]]
  /\ comments' = [c \in DOMAIN comments |->
       IF comments[c].author = u THEN [comments[c] EXCEPT !.author = Nobody] ELSE comments[c]]
  /\ likes' = {x \in likes : x[1] # u}
  /\ miscounted' = miscounted \union liked
  /\ commentRequest' = [q \in CommentRequests |->
       IF commentRequest[q].at = "store" /\ commentRequest[q].comment \in liked
       THEN [commentRequest[q] EXCEPT !.late = TRUE] ELSE commentRequest[q]]
  /\ UNCHANGED <<editedLate, likeCalls>>

-----------------------------------------------------------------------------
CommentNext ==
  \/ \E u \in Users, s \in Stories :
       CreateComment(u, s) \/ \E p \in 1..MaxComments : CreateReply(u, s, p)
  \/ \E r \in CommentRequests, u \in Users, c \in 1..MaxComments :
       CheckAuthor(r, u, c) \/ DeleteComment(r, u, c) \/ ToggleLike(r, u, c)
  \/ \E r \in CommentRequests :
       \/ \E c \in 1..MaxComments : ModerateComment(r, c)
       \/ UpdateCommentBody(r)
       \/ CheckStory(r)
       \/ SoftDeleteComment(r)
       \/ RecordNote(r)
       \/ \E read \in BOOLEAN : CountLikes(r, read)
       \/ StoreCount(r)
       \/ CommentCutOff(r)
  \/ \E u \in Users : CommentAccountDeleted(u)

CommentSpec == CommentInit /\ [][CommentNext]_commentVars

-----------------------------------------------------------------------------
(* The list under a story.                                                 *)

\* ListTopLevelComments, all pages of it, deleted ones included.
TopLevel(s) == {c \in DOMAIN comments : comments[c].story = s /\ comments[c].parent = 0}

\* GetReplies asks by parent alone.
RepliesOf(top) == {c \in DOMAIN comments : comments[c].parent \in top}

ListComments(s) == TopLevel(s) \union RepliesOf(TopLevel(s))

-----------------------------------------------------------------------------
(* Properties.                                                             *)

\* The list is complete and redacted: every comment is listed under exactly one
\* story, although the list goes down one level only and a reply's own story_id
\* may be another story's (comments.go:257, :83); and a deleted one without its
\* text, unless its author edited it after the deletion (comments.go:323).
CommentsListed ==
  \A c \in DOMAIN comments :
    /\ \E s \in Stories : \A t \in Stories : c \in ListComments(t) <=> t = s
    /\ comments[c].status = "deleted" /\ c \notin editedLate => comments[c].body = "[deleted]"

\* like_count is the number of likes, or a request is about to store it, unless
\* it was last written with a number counted before another like or not counted,
\* or not written at all; the next toggle that is not overtaken puts it right (comments.go:411).
LikeCountRight ==
  \A c \in DOMAIN comments \ miscounted :
    \/ comments[c].likeCount = Cardinality(LikesOf(c))
    \/ \E r \in CommentRequests :
         commentRequest[r].at \in {"count", "store"} /\ commentRequest[r].comment = c

-----------------------------------------------------------------------------
(* The inductive invariants behind the properties.                         *)

CommentRequestInv ==
  \A r \in CommentRequests : ~Free(r) => commentRequest[r].comment \in DOMAIN comments

\* Threads are one level deep.
ParentInv ==
  \A c \in DOMAIN comments :
    comments[c].parent # 0 =>
      comments[c].parent \in DOMAIN comments /\ comments[comments[c].parent].parent = 0

RedactedInv ==
  \A c \in DOMAIN comments \ editedLate :
    comments[c].status = "deleted" => comments[c].body = "[deleted]"

\* A number that was not overtaken is the number of likes until it is stored.
CountInv ==
  \A r \in CommentRequests :
    commentRequest[r].at = "store" /\ ~commentRequest[r].late
    => commentRequest[r].count = Cardinality(LikesOf(commentRequest[r].comment))

CommentInv == CommentRequestInv /\ ParentInv /\ RedactedInv /\ CountInv /\ LikeCountRight
=============================================================================
