----------------------------- MODULE StoryPages -----------------------------
(***************************************************************************)
(* The administrators' list of approved stories, read page by page with a  *)
(* cursor, while stories are submitted and moderated.                      *)
(*                                                                         *)
(* created_at is kept to the microsecond.  The cursor holds the last row's *)
(* created_at as the list formats it, to the second (stories.go:66), and   *)
(* its id.                                                                 *)
(***************************************************************************)
EXTENDS Naturals, Sequences, FiniteSets

CONSTANTS
  PerSecond,     \* instants of a second
  PageLimit,
  LastInstant,   \* bound: the clock
  MaxPosts       \* bound: rows; their ids are 1..MaxPosts

\* A limit that is not positive is the default one (cursor.go:45).
ASSUME PageAssumption ==
  /\ PerSecond \in Nat \ {0}
  /\ PageLimit \in Nat \ {0}
  /\ LastInstant \in Nat
  /\ MaxPosts \in Nat

VARIABLES
  instant,
  posts,         \* table stories: created_at, id, whether it is approved
  cursor,        \* the reader's next request
  seen,          \* stories the reader was given
  \* History, read by the property only.
  repeated,      \* some story was given twice
  throughout,    \* stories that were approved all the time since the first page
  cutSeconds     \* seconds a page ended in

pageVars == <<instant, posts, cursor, seen, repeated, throughout, cutSeconds>>

-----------------------------------------------------------------------------
Instants == 0..LastInstant

Post == [time : Instants, id : 1..MaxPosts, approved : BOOLEAN]

First == [at |-> "first", time |-> 0, id |-> 0]
End == [at |-> "end", time |-> 0, id |-> 0]

PageTypeOK ==
  /\ instant \in Instants
  /\ posts \in Seq(Post) /\ Len(posts) <= MaxPosts
  /\ cursor \in [at : {"first", "after", "end"}, time : Instants, id : 0..MaxPosts]
  /\ seen \subseteq DOMAIN posts
  /\ repeated \in BOOLEAN
  /\ throughout \subseteq DOMAIN posts
  /\ cutSeconds \subseteq Instants

PageInit ==
  /\ instant = 0
  /\ posts = <<>>
  /\ cursor = First
  /\ seen = {}
  /\ repeated = FALSE
  /\ throughout = {}
  /\ cutSeconds = {}

Second(t) == t \div PerSecond

Approved == {i \in DOMAIN posts : posts[i].approved}

\* ORDER BY created_at DESC, id DESC.
Before(i, j) == \/ posts[i].time > posts[j].time
                \/ posts[i].time = posts[j].time /\ posts[i].id > posts[j].id

Limit(set, n) == {i \in set : Cardinality({j \in set : Before(j, i)}) < n}

LastOf(page) == CHOOSE i \in page : \A j \in page : ~Before(i, j)

\* created_at < $1 OR (created_at = $1 AND id < $2).
Past(i, c) == \/ posts[i].time < c.time
              \/ posts[i].time = c.time /\ posts[i].id < c.id

\* What the first page, or the page after cursor c, is taken from.
After(c) == {i \in Approved : c.at = "first" \/ Past(i, c)}

\* EncodeCursor(s.CreatedAt, s.ID).
CursorOf(i) == [at |-> "after", time |-> Second(posts[i].time) * PerSecond, id |-> posts[i].id]

-----------------------------------------------------------------------------
PostStory(id) ==
  /\ Len(posts) < MaxPosts
  /\ \A i \in DOMAIN posts : posts[i].id # id
  /\ posts' = Append(posts, [time |-> instant, id |-> id, approved |-> FALSE])
  /\ UNCHANGED <<instant, cursor, seen, repeated, throughout, cutSeconds>>

SetApproved(i, approved) ==
  /\ i \in DOMAIN posts
  /\ posts' = [posts EXCEPT ![i] = [posts[i] EXCEPT !.approved = approved]]
  /\ throughout' = IF approved THEN throughout ELSE throughout \ {i}
  /\ UNCHANGED <<instant, cursor, seen, repeated, cutSeconds>>

Pass ==
  /\ instant < LastInstant
  /\ instant' = instant + 1
  /\ UNCHANGED <<posts, cursor, seen, repeated, throughout, cutSeconds>>

\* What every page does with the rows it read.
Give(page) ==
  /\ seen' = seen \union page
  /\ repeated' = (repeated \/ page \cap seen # {})
  /\ throughout' = IF cursor.at = "first" THEN Approved ELSE throughout

\* Mutant: the cursor is taken from the extra row that tells that there is more.
ListPageSkipping ==
  LET rows == Limit(After(cursor), PageLimit + 1)
      page == Limit(rows, PageLimit) IN
  /\ cursor.at # "end"
  /\ Give(page)
  /\ cursor' = IF rows = page THEN End ELSE CursorOf(LastOf(rows))
  /\ cutSeconds' = IF rows = page THEN cutSeconds ELSE cutSeconds \union {Second(posts[LastOf(page)].time)}
  /\ UNCHANGED <<instant, posts>>

\* WritePage: one row more than the limit is read; if it is there, the answer
\* has a cursor, and the reader asks again.
ListPage ==
  LET rows == Limit(After(cursor), PageLimit + 1)
      page == Limit(rows, PageLimit) IN
  /\ cursor.at # "end"
  /\ Give(page)
  /\ cursor' = IF rows = page THEN End ELSE CursorOf(LastOf(page))
  /\ cutSeconds' = IF rows = page THEN cutSeconds ELSE cutSeconds \union {Second(posts[LastOf(page)].time)}
  /\ UNCHANGED <<instant, posts>>

PageNext ==
  \/ \E id \in 1..MaxPosts : PostStory(id)
  \/ \E i \in 1..MaxPosts, approved \in BOOLEAN : SetApproved(i, approved)
  \/ Pass
  \/ ListPage

PageSpec == PageInit /\ [][PageNext]_pageVars

-----------------------------------------------------------------------------
\* A reader who follows the cursors to the end is given no story twice, and
\* every story that was approved all the time, except stories of a second in
\* which a page ended: the truncated cursor passes over those (stories.go:116).
PagesMissOnlySameSecond ==
  /\ ~repeated
  /\ cursor.at = "end" =>
       \A i \in throughout \ seen : Second(posts[i].time) \in cutSeconds

-----------------------------------------------------------------------------
(* The inductive invariant behind the property.                            *)

IdsInv == \A i, j \in DOMAIN posts : posts[i].id = posts[j].id => i = j

\* What was given lies before the cursor, what is still to be given behind it.
CursorInv ==
  /\ throughout \subseteq Approved
  /\ cursor.at = "first" => seen = {} /\ throughout = {}
  /\ cursor.at = "after" =>
       /\ \A i \in seen : ~Past(i, cursor)
       /\ \A i \in throughout \ seen : Past(i, cursor) \/ Second(posts[i].time) \in cutSeconds

PagesInv == IdsInv /\ CursorInv
=============================================================================
