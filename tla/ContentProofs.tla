---------------------------- MODULE ContentProofs -----------------------------
(***************************************************************************)
(* Theorems about the list that is read page by page, for any page size,   *)
(* any number of rows and any number of instants in a second; and, with    *)
(* those of StoryProofs and MediaProofs, about the model that is checked.  *)
(***************************************************************************)
EXTENDS MCContent, StoryProofs, MediaProofs, WellFoundedInduction

-----------------------------------------------------------------------------
(* Seconds.                                                                *)

LEMMA Seconds ==
  ASSUME NEW t \in Nat
  PROVE  /\ Second(t) \in Nat /\ Second(t) <= t
         /\ Second(t) * PerSecond \in Nat /\ Second(t) * PerSecond <= t
         /\ t < (Second(t) + 1) * PerSecond
<1>1. t \div PerSecond \in Nat /\ (t \div PerSecond) * PerSecond <= t /\ t < (t \div PerSecond + 1) * PerSecond
  BY PageAssumption
<1>2. t \div PerSecond <= t /\ (t \div PerSecond) * PerSecond \in Nat
  BY <1>1, PageAssumption
<1> QED BY <1>1, <1>2 DEF Second

\* An earlier second ends before a later one begins.
LEMMA EarlierSecond ==
  ASSUME NEW s \in Nat, NEW t \in Nat, s <= t, Second(s) # Second(t)
  PROVE  s < Second(t) * PerSecond
<1> DEFINE a == Second(s)
           b == Second(t)
<1>1. /\ a \in Nat /\ b \in Nat /\ s < (a + 1) * PerSecond
      /\ a * PerSecond <= s /\ t < (b + 1) * PerSecond /\ b * PerSecond \in Nat
  BY Seconds
<1>2. a # b
  OBVIOUS
<1> HIDE DEF a, b
<1>3. a < b
  <2>1. SUFFICES ASSUME b < a
                 PROVE  FALSE
    BY <1>1, <1>2
  <2>2. (b + 1) * PerSecond <= a * PerSecond
    BY <1>1, <2>1, PageAssumption
  <2> QED BY <1>1, <2>2, PageAssumption
<1>4. (a + 1) * PerSecond <= b * PerSecond
  BY <1>1, <1>3, PageAssumption
<1>5. s < b * PerSecond
  BY <1>1, <1>4, PageAssumption
<1> QED BY <1>5 DEF b

-----------------------------------------------------------------------------
(* The order of the list.                                                  *)

LEMMA PostIds ==
  ASSUME PageTypeOK
  PROVE  /\ DOMAIN posts = 1..Len(posts) /\ Len(posts) \in Nat
         /\ posts \in [1..Len(posts) -> Post]
         /\ \A i \in DOMAIN posts : /\ posts[i] \in Post /\ i \in Nat
                                    /\ posts[i].time \in Nat /\ posts[i].id \in Nat
         /\ IsFiniteSet(DOMAIN posts)
<1>1. /\ DOMAIN posts = 1..Len(posts) /\ Len(posts) \in Nat
      /\ posts \in [1..Len(posts) -> Post]
  BY LenProperties DEF PageTypeOK
<1>2. \A i \in DOMAIN posts : posts[i].time \in Nat /\ posts[i].id \in Nat
  BY <1>1, PageAssumption DEF Post, Instants
<1>3. IsFiniteSet(1..Len(posts))
  BY <1>1, FS_Interval
<1> QED BY <1>1, <1>2, <1>3

LEMMA Ordered ==
  ASSUME PageTypeOK, IdsInv
  PROVE  /\ \A i \in DOMAIN posts : ~Before(i, i)
         /\ \A i, j \in DOMAIN posts : i # j => Before(i, j) \/ Before(j, i)
         /\ \A i, j \in DOMAIN posts : ~(Before(i, j) /\ Before(j, i))
         /\ \A i, j, k \in DOMAIN posts : Before(i, j) /\ Before(j, k) => Before(i, k)
BY PostIds DEF Before, IdsInv

Ahead(S, i) == {j \in S : Before(j, i)}
Behind(S, i) == {j \in S : Before(i, j)}

LEMMA Ranks ==
  ASSUME PageTypeOK, IdsInv, NEW S \in SUBSET DOMAIN posts, NEW i \in DOMAIN posts
  PROVE  /\ IsFiniteSet(S)
         /\ IsFiniteSet(Ahead(S, i)) /\ Cardinality(Ahead(S, i)) \in Nat
         /\ IsFiniteSet(Behind(S, i)) /\ Cardinality(Behind(S, i)) \in Nat
         /\ \A j \in S : Before(j, i) => Cardinality(Ahead(S, j)) < Cardinality(Ahead(S, i))
         /\ \A j \in S : Before(i, j) => Cardinality(Behind(S, j)) < Cardinality(Behind(S, i))
<1>1. IsFiniteSet(S)
  BY PostIds, FS_Subset
<1>2. ASSUME NEW k \in DOMAIN posts
      PROVE  /\ IsFiniteSet(Ahead(S, k)) /\ Cardinality(Ahead(S, k)) \in Nat
             /\ IsFiniteSet(Behind(S, k)) /\ Cardinality(Behind(S, k)) \in Nat
  <2>1. Ahead(S, k) \in SUBSET S /\ Behind(S, k) \in SUBSET S
    BY DEF Ahead, Behind
  <2> QED BY <1>1, <2>1, FS_Subset, FS_CardinalityType
<1>3. ASSUME NEW j \in S, Before(j, i)
      PROVE  Cardinality(Ahead(S, j)) < Cardinality(Ahead(S, i))
  <2>1. Ahead(S, j) \in SUBSET Ahead(S, i) /\ j \in Ahead(S, i) /\ j \notin Ahead(S, j)
    BY <1>3, Ordered DEF Ahead
  <2>2. /\ Cardinality(Ahead(S, j)) <= Cardinality(Ahead(S, i))
        /\ Cardinality(Ahead(S, j)) # Cardinality(Ahead(S, i))
    BY <1>2, <2>1, FS_Subset
  <2> QED BY <1>2, <2>2
<1>4. ASSUME NEW j \in S, Before(i, j)
      PROVE  Cardinality(Behind(S, j)) < Cardinality(Behind(S, i))
  <2>1. Behind(S, j) \in SUBSET Behind(S, i) /\ j \in Behind(S, i) /\ j \notin Behind(S, j)
    BY <1>4, Ordered DEF Behind
  <2>2. /\ Cardinality(Behind(S, j)) <= Cardinality(Behind(S, i))
        /\ Cardinality(Behind(S, j)) # Cardinality(Behind(S, i))
    BY <1>2, <2>1, FS_Subset
  <2> QED BY <1>2, <2>2
<1> QED BY <1>1, <1>2, <1>3, <1>4

\* A set of numbers that is not empty has a least one.
LEMMA Least ==
  ASSUME NEW T \in SUBSET Nat, T # {}
  PROVE  \E x \in T : \A y \in T : x <= y
<1>1. PICK x \in T : \A y \in Nat : <<y, x>> \in OpToRel(<, Nat) => y \notin T
  BY NatLessThanWellFounded, WFMin
<1>2. ASSUME NEW y \in T
      PROVE  x <= y
  <2>1. ~ (y < x)
    BY <1>1 DEF OpToRel
  <2> QED BY <2>1
<1> QED BY <1>2

\* A set of rows that is not empty has a first and a last one.
LEMMA FirstRow ==
  ASSUME PageTypeOK, IdsInv, NEW T \in SUBSET DOMAIN posts, T # {}
  PROVE  \E x \in T : \A y \in T : ~Before(y, x)
<1> DEFINE R == {Cardinality(Ahead(T, i)) : i \in T}
<1>1. R \in SUBSET Nat /\ R # {}
  BY Ranks
<1>2. PICK n \in R : \A m \in R : n <= m
  BY <1>1, Least
<1>3. PICK x \in T : n = Cardinality(Ahead(T, x))
  BY <1>2
<1>4. ASSUME NEW y \in T, Before(y, x)
      PROVE  FALSE
  <2>1. Cardinality(Ahead(T, y)) < Cardinality(Ahead(T, x)) /\ Cardinality(Ahead(T, y)) \in Nat
        /\ Cardinality(Ahead(T, x)) \in Nat
    BY <1>4, Ranks
  <2>2. Cardinality(Ahead(T, x)) <= Cardinality(Ahead(T, y))
    BY <1>2, <1>3
  <2> QED BY <2>1, <2>2
<1> QED BY <1>4

LEMMA LastRow ==
  ASSUME PageTypeOK, IdsInv, NEW T \in SUBSET DOMAIN posts, T # {}
  PROVE  \E x \in T : \A y \in T : ~Before(x, y)
<1> DEFINE R == {Cardinality(Behind(T, i)) : i \in T}
<1>1. R \in SUBSET Nat /\ R # {}
  BY Ranks
<1>2. PICK n \in R : \A m \in R : n <= m
  BY <1>1, Least
<1>3. PICK x \in T : n = Cardinality(Behind(T, x))
  BY <1>2
<1>4. ASSUME NEW y \in T, Before(x, y)
      PROVE  FALSE
  <2>1. Cardinality(Behind(T, y)) < Cardinality(Behind(T, x)) /\ Cardinality(Behind(T, y)) \in Nat
        /\ Cardinality(Behind(T, x)) \in Nat
    BY <1>4, Ranks
  <2>2. Cardinality(Behind(T, x)) <= Cardinality(Behind(T, y))
    BY <1>2, <1>3
  <2> QED BY <2>1, <2>2
<1> QED BY <1>4

-----------------------------------------------------------------------------
(* LIMIT.                                                                  *)

LEMMA LimitRank ==
  ASSUME NEW S, NEW n
  PROVE  Limit(S, n) = {i \in S : Cardinality(Ahead(S, i)) < n}
BY DEF Limit, Ahead

LEMMA LimitDown ==
  ASSUME PageTypeOK, IdsInv, NEW S \in SUBSET DOMAIN posts, NEW n \in Nat,
         NEW i \in S, NEW j \in Limit(S, n), Before(i, j)
  PROVE  i \in Limit(S, n)
<1>1. j \in S /\ Cardinality(Ahead(S, j)) < n
  BY LimitRank
<1>2. Cardinality(Ahead(S, i)) < Cardinality(Ahead(S, j)) /\ Cardinality(Ahead(S, i)) \in Nat
      /\ Cardinality(Ahead(S, j)) \in Nat
  BY <1>1, Ranks
<1>3. Cardinality(Ahead(S, i)) < n
  BY <1>1, <1>2
<1> QED BY <1>3, LimitRank

\* A page is the same whether or not one more row was read.
LEMMA LimitNested ==
  ASSUME PageTypeOK, IdsInv, NEW S \in SUBSET DOMAIN posts, NEW n \in Nat
  PROVE  Limit(Limit(S, n + 1), n) = Limit(S, n)
<1> DEFINE rows == Limit(S, n + 1)
<1>1. rows \subseteq S
  BY LimitRank
<1>2. ASSUME NEW i \in rows
      PROVE  Ahead(rows, i) = Ahead(S, i)
  BY <1>1, <1>2, LimitDown DEF Ahead
<1>3. ASSUME NEW i \in S, Cardinality(Ahead(S, i)) < n
      PROVE  i \in rows
  <2>1. Cardinality(Ahead(S, i)) \in Nat
    BY Ranks
  <2>2. Cardinality(Ahead(S, i)) < n + 1
    BY <1>3, <2>1
  <2> QED BY <2>2, LimitRank
<1>4. Limit(rows, n) = {i \in rows : Cardinality(Ahead(rows, i)) < n}
  BY LimitRank
<1> HIDE DEF rows
<1>5. Limit(rows, n) = {i \in S : Cardinality(Ahead(S, i)) < n}
  BY <1>1, <1>2, <1>3, <1>4
<1> QED BY <1>5, LimitRank DEF rows

\* If one more row is asked for and none is there, there are no more.
LEMMA LimitAll ==
  ASSUME PageTypeOK, IdsInv, NEW S \in SUBSET DOMAIN posts, NEW n \in Nat,
         Limit(S, n + 1) = Limit(S, n)
  PROVE  Limit(S, n) = S
<1> DEFINE T == S \ Limit(S, n)
<1>1. SUFFICES ASSUME T # {}
               PROVE  FALSE
  BY LimitRank
<1>2. PICK x \in T : \A y \in T : ~Before(y, x)
  BY <1>1, FirstRow
<1>3. x \notin Limit(S, n + 1)
  OBVIOUS
<1>4. CASE Ahead(S, x) = {}
  <2>1. Cardinality(Ahead(S, x)) = 0
    BY <1>4, FS_EmptySet
  <2>2. Cardinality(Ahead(S, x)) < n + 1
    BY <2>1
  <2> QED BY <1>2, <1>3, <2>2, LimitRank
<1>5. CASE Ahead(S, x) # {}
  <2>1. Ahead(S, x) \in SUBSET DOMAIN posts
    BY DEF Ahead
  <2>2. PICK z \in Ahead(S, x) : \A y \in Ahead(S, x) : ~Before(z, y)
    BY <1>5, <2>1, LastRow
  <2>3. z \in S /\ Before(z, x) /\ z \notin T
    BY <1>2, <2>2 DEF Ahead
  <2>4. Ahead(S, x) = Ahead(S, z) \union {z}
    BY <1>2, <2>2, <2>3, Ordered DEF Ahead
  <2>5. z \notin Ahead(S, z)
    BY <2>3, Ordered DEF Ahead
  <2>6. Cardinality(Ahead(S, z)) < n
    BY <2>3, LimitRank
  <2>7. IsFiniteSet(Ahead(S, z)) /\ Cardinality(Ahead(S, z)) \in Nat
    BY <2>3, Ranks
  <2>8. Cardinality(Ahead(S, x)) = Cardinality(Ahead(S, z)) + 1
    BY <2>4, <2>5, <2>7, FS_AddElement
  <2>9. Cardinality(Ahead(S, x)) < n + 1
    BY <2>6, <2>7, <2>8
  <2> QED BY <1>2, <1>3, <2>9, LimitRank
<1> QED BY <1>4, <1>5

LEMMA PageNotEmpty ==
  ASSUME PageTypeOK, IdsInv, NEW S \in SUBSET DOMAIN posts, S # {}
  PROVE  /\ Limit(S, PageLimit) # {} /\ Limit(S, PageLimit) \subseteq S
         /\ LastOf(Limit(S, PageLimit)) \in Limit(S, PageLimit)
         /\ \A i \in Limit(S, PageLimit) : ~Before(LastOf(Limit(S, PageLimit)), i)
<1>1. PICK x \in S : \A y \in S : ~Before(y, x)
  BY FirstRow
<1>2. Ahead(S, x) = {}
  BY <1>1 DEF Ahead
<1>3. Cardinality(Ahead(S, x)) < PageLimit
  BY <1>2, FS_EmptySet, PageAssumption
<1>4. Limit(S, PageLimit) # {} /\ Limit(S, PageLimit) \subseteq S
  BY <1>3, LimitRank
<1> HIDE DEF Limit
<1>5. \E i \in Limit(S, PageLimit) : \A j \in Limit(S, PageLimit) : ~Before(i, j)
  BY <1>4, LastRow
<1> QED BY <1>4, <1>5 DEF LastOf

-----------------------------------------------------------------------------
(* The steps.                                                              *)

\* A page and the cursor it ends with.
LEMMA PageGiven ==
  ASSUME PageTypeOK, PagesInv, ListPage
  PROVE  LET S == After(cursor)
             page == Limit(S, PageLimit) IN
         /\ S \in SUBSET Approved /\ Approved \in SUBSET DOMAIN posts /\ page \subseteq S
         /\ S \cap seen = {}
         /\ Give(page) /\ cursor.at # "end" /\ UNCHANGED <<instant, posts>>
         /\ \/ page = S /\ cursor' = End /\ UNCHANGED cutSeconds
            \/ /\ LastOf(page) \in page
               /\ \A i \in page : ~Before(LastOf(page), i)
               /\ \A i \in S \ page : Before(LastOf(page), i)
               /\ cursor' = CursorOf(LastOf(page))
               /\ cutSeconds' = cutSeconds \union {Second(posts[LastOf(page)].time)}
<1> DEFINE S == After(cursor)
           page == Limit(S, PageLimit)
           rows == Limit(S, PageLimit + 1)
<1>1. S \in SUBSET Approved /\ Approved \in SUBSET DOMAIN posts /\ page \subseteq S /\ S \in SUBSET DOMAIN posts
  BY LimitRank DEF After, Approved
<1>2. S \cap seen = {}
  BY DEF PageTypeOK, PagesInv, CursorInv, After, ListPage
<1>3. Limit(rows, PageLimit) = page
  BY <1>1, LimitNested, PageAssumption DEF PagesInv
<1>4. /\ Give(page) /\ cursor.at # "end" /\ UNCHANGED <<instant, posts>>
      /\ cursor' = IF rows = page THEN End ELSE CursorOf(LastOf(page))
      /\ cutSeconds' = IF rows = page THEN cutSeconds
                       ELSE cutSeconds \union {Second(posts[LastOf(page)].time)}
  BY <1>3 DEF ListPage
<1> HIDE DEF S
<1>5. CASE rows = page
  <2>1. page = S
    BY <1>1, <1>5, LimitAll, PageAssumption DEF PagesInv
  <2> QED BY <1>1, <1>2, <1>4, <1>5, <2>1 DEF S
<1>6. CASE rows # page
  <2>1. S # {}
    BY <1>6, LimitRank
  <2>2. /\ LastOf(page) \in page /\ \A i \in page : ~Before(LastOf(page), i)
    BY <1>1, <2>1, PageNotEmpty DEF PagesInv
  <2>3. ASSUME NEW i \in S \ page
        PROVE  Before(LastOf(page), i)
    <3>1. ~Before(i, LastOf(page))
      BY <1>1, <2>2, <2>3, LimitDown, PageAssumption DEF PagesInv
    <3> QED BY <1>1, <2>2, <2>3, <3>1, Ordered DEF PagesInv
  <2> QED BY <1>1, <1>2, <1>4, <1>6, <2>2, <2>3 DEF S
<1> QED BY <1>5, <1>6

\* The rows a step finds are there after it, with their times and ids.
LEMMA RowsStay ==
  ASSUME PageTypeOK, IdsInv, [PageNext]_pageVars
  PROVE  /\ posts' \in Seq(Post) /\ Len(posts') <= MaxPosts
         /\ DOMAIN posts \subseteq DOMAIN posts'
         /\ \A i \in DOMAIN posts : posts'[i].time = posts[i].time /\ posts'[i].id = posts[i].id
         /\ IdsInv'
<1> DEFINE Goal == /\ posts' \in Seq(Post) /\ Len(posts') <= MaxPosts
                   /\ DOMAIN posts \subseteq DOMAIN posts'
                   /\ \A i \in DOMAIN posts : posts'[i].time = posts[i].time /\ posts'[i].id = posts[i].id
                   /\ IdsInv'
<1> USE PostIds
<1>1. ASSUME UNCHANGED posts
      PROVE  Goal
  BY <1>1 DEF PageTypeOK, IdsInv
<1>2. ASSUME NEW id \in 1..MaxPosts, PostStory(id)
      PROVE  Goal
  <2> DEFINE new == [time |-> instant, id |-> id, approved |-> FALSE]
             n == Len(posts) + 1
  <2>1. /\ new \in Post /\ new.id = id /\ posts' = Append(posts, new) /\ Len(posts) < MaxPosts
        /\ \A i \in DOMAIN posts : posts[i].id # id
    BY <1>2 DEF PostStory, Post, PageTypeOK
  <2>2. posts \in Seq(Post)
    BY DEF PageTypeOK
  <2> HIDE DEF new
  <2>3. /\ posts' \in Seq(Post) /\ Len(posts') = n /\ n <= MaxPosts
        /\ DOMAIN posts' = DOMAIN posts \union {n} /\ posts'[n] = new
        /\ \A i \in DOMAIN posts : posts'[i] = posts[i]
    BY <2>1, <2>2, AppendProperties, LenProperties, PageAssumption
  <2> HIDE DEF n
  <2>4. IdsInv'
    BY <2>1, <2>3 DEF IdsInv
  <2> QED BY <2>3, <2>4
<1>3. ASSUME NEW i \in 1..MaxPosts, NEW approved \in BOOLEAN, SetApproved(i, approved)
      PROVE  Goal
  <2>1. posts' \in [1..Len(posts) -> Post]
    BY <1>3 DEF SetApproved, Post
  <2>2. posts' \in Seq(Post) /\ Len(posts') = Len(posts) /\ DOMAIN posts' = DOMAIN posts
    BY <2>1, SeqDef, LenProperties
  <2>3. \A j \in DOMAIN posts : posts'[j].time = posts[j].time /\ posts'[j].id = posts[j].id
    BY <1>3 DEF SetApproved, Post
  <2> QED BY <2>2, <2>3 DEF PageTypeOK, IdsInv
<1>4. Pass \/ ListPage \/ UNCHANGED pageVars => UNCHANGED posts
  BY DEF Pass, ListPage, pageVars
<1> QED BY <1>1, <1>2, <1>3, <1>4 DEF PageNext

LEMMA PageTypeInductive ==
  ASSUME PageTypeOK, PagesInv, [PageNext]_pageVars
  PROVE  PageTypeOK'
<1> USE PostIds
<1>1. posts' \in Seq(Post) /\ Len(posts') <= MaxPosts /\ DOMAIN posts \subseteq DOMAIN posts'
  BY RowsStay DEF PagesInv
<1>2. \A i \in DOMAIN posts : Second(posts[i].time) \in Instants /\ Second(posts[i].time) * PerSecond \in Instants
  <2>1. ASSUME NEW t \in Instants
        PROVE  Second(t) \in Instants /\ Second(t) * PerSecond \in Instants
    <3> DEFINE a == Second(t)
               b == Second(t) * PerSecond
    <3>1. t \in Nat /\ t <= LastInstant
      BY PageAssumption DEF Instants
    <3>2. a \in Nat /\ a <= t /\ b \in Nat /\ b <= t
      BY <3>1, Seconds
    <3> HIDE DEF a, b
    <3>3. a \in Instants /\ b \in Instants
      BY <3>1, <3>2, PageAssumption DEF Instants
    <3> QED BY <3>3 DEF a, b
  <2> QED BY <2>1 DEF Post
<1>3. CASE ListPage
  <2> DEFINE page == Limit(After(cursor), PageLimit)
             last == LastOf(page)
  <2>1. page \subseteq DOMAIN posts /\ Approved \subseteq DOMAIN posts
    BY <1>3, PageGiven
  <2>2. /\ seen' \subseteq DOMAIN posts /\ repeated' \in BOOLEAN /\ throughout' \subseteq DOMAIN posts
    BY <1>3, <2>1, PageGiven DEF Give, PageTypeOK
  <2>3. \/ cursor' = End /\ UNCHANGED cutSeconds
        \/ /\ last \in DOMAIN posts /\ cursor' = CursorOf(last)
           /\ cutSeconds' = cutSeconds \union {Second(posts[last].time)}
    BY <1>3, <2>1, PageGiven
  <2> HIDE DEF last
  <2>4. /\ cursor' \in [at : {"first", "after", "end"}, time : Instants, id : 0..MaxPosts]
        /\ cutSeconds' \subseteq Instants
    <3>1. \A i \in DOMAIN posts : posts[i].id \in 0..MaxPosts
      BY PageAssumption DEF Post
    <3>2. End \in [at : {"first", "after", "end"}, time : Instants, id : 0..MaxPosts]
      BY PageAssumption DEF End, Instants
    <3>3. \A i \in DOMAIN posts : CursorOf(i) \in [at : {"first", "after", "end"}, time : Instants, id : 0..MaxPosts]
      BY <1>2, <3>1 DEF CursorOf
    <3> QED BY <1>2, <2>3, <3>2, <3>3 DEF PageTypeOK
  <2>5. instant' \in Instants
    BY <1>3 DEF ListPage, PageTypeOK
  <2> QED BY <1>1, <2>2, <2>4, <2>5 DEF PageTypeOK
<1>4. ASSUME UNCHANGED <<cursor, seen, repeated, cutSeconds>>, throughout' \subseteq throughout, instant' \in Instants
      PROVE  PageTypeOK'
  BY <1>1, <1>4 DEF PageTypeOK
<1>5. CASE Pass
  <2>1. instant' \in Instants
    BY <1>5, PageAssumption DEF Pass, PageTypeOK, Instants
  <2> QED BY <1>4, <1>5, <2>1 DEF Pass
<1>6. CASE UNCHANGED pageVars
  BY <1>4, <1>6 DEF pageVars, PageTypeOK
<1>7. ASSUME NEW id \in 1..MaxPosts, PostStory(id)
      PROVE  PageTypeOK'
  BY <1>4, <1>7 DEF PostStory, PageTypeOK
<1>8. ASSUME NEW i \in 1..MaxPosts, NEW approved \in BOOLEAN, SetApproved(i, approved)
      PROVE  PageTypeOK'
  BY <1>4, <1>8 DEF SetApproved, PageTypeOK
<1> QED BY <1>3, <1>5, <1>6, <1>7, <1>8 DEF PageNext

\* A row that is given lies before the new cursor.
LEMMA GivenBefore ==
  ASSUME PageTypeOK, PagesInv, ListPage, NEW i \in seen', cursor'.at = "after"
  PROVE  ~Past(i, cursor)'
<1> DEFINE page == Limit(After(cursor), PageLimit)
           last == LastOf(page)
           t == posts[last].time
<1> USE PostIds
<1>1. /\ last \in page /\ last \in After(cursor) /\ last \in DOMAIN posts
      /\ \A j \in page : ~Before(last, j)
      /\ cursor' = CursorOf(last) /\ seen' = seen \union page /\ page \subseteq DOMAIN posts
      /\ cursor.at # "end"
  BY PageGiven DEF Give, End
<1> HIDE DEF last
<1>2. /\ t \in Nat /\ Second(t) * PerSecond \in Nat /\ Second(t) * PerSecond <= t
      /\ cursor'.time = Second(t) * PerSecond /\ cursor'.id = posts[last].id
      /\ UNCHANGED posts
  <2>1. t \in Nat
    BY <1>1
  <2>2. Second(t) * PerSecond \in Nat /\ Second(t) * PerSecond <= t
    BY <2>1, Seconds
  <2> QED BY <1>1, <2>1, <2>2 DEF CursorOf, ListPage
<1> DEFINE c == Second(t) * PerSecond
<1>3. c \in Nat /\ c <= t /\ cursor'.time = c
  BY <1>2
<1> HIDE DEF c
<1>4. CASE i \in page
  <2>1. ~Before(last, i) /\ i \in DOMAIN posts
    BY <1>1, <1>4
  <2>2. \/ posts[i].time > t
        \/ posts[i].time = t /\ posts[i].id >= posts[last].id
    BY <1>1, <2>1 DEF Before
  <2> QED BY <1>1, <1>2, <1>3, <2>1, <2>2 DEF Past
<1>5. CASE i \in seen
  <2>1. cursor.at = "after"
    BY <1>1, <1>5 DEF PagesInv, CursorInv, PageTypeOK
  <2>2. ~Past(i, cursor) /\ Past(last, cursor) /\ i \in DOMAIN posts
    BY <1>1, <1>5, <2>1 DEF PagesInv, CursorInv, After, PageTypeOK
  <2>3. cursor.time \in Nat /\ cursor.id \in Nat
    BY PageAssumption DEF PageTypeOK, Instants
  <2>4. \/ posts[i].time > t
        \/ posts[i].time = t /\ posts[i].id >= posts[last].id
    BY <1>1, <2>2, <2>3 DEF Past
  <2> QED BY <1>1, <1>2, <1>3, <2>2, <2>4 DEF Past
<1> QED BY <1>1, <1>4, <1>5

\* A row that is passed over is of the second the page ended in.
LEMMA PassedOver ==
  ASSUME PageTypeOK, PagesInv, ListPage, NEW i \in throughout' \ seen'
  PROVE  \/ Second(posts[i].time) \in cutSeconds'
         \/ cursor'.at = "after" /\ Past(i, cursor)'
<1> DEFINE S == After(cursor)
           page == Limit(S, PageLimit)
           last == LastOf(page)
<1> USE PostIds
<1>1. /\ S \in SUBSET Approved /\ Approved \in SUBSET DOMAIN posts
      /\ seen' = seen \union page /\ cursor.at # "end" /\ UNCHANGED posts
      /\ throughout' = IF cursor.at = "first" THEN Approved ELSE throughout
      /\ cutSeconds \subseteq cutSeconds'
  BY PageGiven DEF Give
<1>2. i \in DOMAIN posts /\ i \notin page /\ (i \in S \/ Second(posts[i].time) \in cutSeconds)
  BY <1>1 DEF PagesInv, CursorInv, After, PageTypeOK
<1>3. CASE i \in S
  <2>1. /\ last \in page /\ Before(last, i) /\ cursor' = CursorOf(last)
        /\ cutSeconds' = cutSeconds \union {Second(posts[last].time)}
    BY <1>2, <1>3, PageGiven
  <2>2. last \in DOMAIN posts
    BY <1>1, <2>1, PageGiven
  <2> HIDE DEF last
  <2> DEFINE s == posts[i].time
             t == posts[last].time
  <2>3. s \in Nat /\ t \in Nat /\ s <= t
    BY <1>2, <2>1, <2>2 DEF Before
  <2>4. CASE Second(s) = Second(t)
    BY <2>1, <2>4
  <2>5. CASE Second(s) # Second(t)
    <3>1. s < Second(t) * PerSecond
      BY <2>3, <2>5, EarlierSecond
    <3>2. cursor'.at = "after" /\ cursor'.time = Second(t) * PerSecond
      BY <2>1 DEF CursorOf
    <3> QED BY <1>1, <3>1, <3>2 DEF Past
  <2> QED BY <2>4, <2>5
<1> QED BY <1>1, <1>2, <1>3

LEMMA PagesInductive ==
  ASSUME PageTypeOK, PagesInv, PagesMissOnlySameSecond, [PageNext]_pageVars
  PROVE  PagesInv' /\ PagesMissOnlySameSecond'
<1> USE PostIds
<1>1. IdsInv' /\ \A i \in DOMAIN posts : posts'[i].time = posts[i].time /\ posts'[i].id = posts[i].id
  BY RowsStay DEF PagesInv
<1>2. seen \subseteq DOMAIN posts /\ throughout \subseteq DOMAIN posts
  BY DEF PageTypeOK
<1>3. CASE ListPage
  <2>1. /\ Approved' = Approved /\ throughout' \subseteq Approved
        /\ cursor'.at # "first" /\ ~repeated'
    <3> DEFINE page == Limit(After(cursor), PageLimit)
    <3>1. /\ After(cursor) \cap seen = {} /\ page \subseteq After(cursor)
          /\ Give(page) /\ UNCHANGED posts
          /\ cursor' = End \/ cursor' = CursorOf(LastOf(page))
      BY <1>3, PageGiven
    <3> HIDE DEF page
    <3>2. Approved' = Approved /\ throughout' \subseteq Approved
      BY <3>1 DEF Give, Approved, PagesInv, CursorInv
    <3>3. cursor'.at # "first"
      BY <3>1 DEF End, CursorOf
    <3>4. page \cap seen = {} /\ ~repeated
      BY <3>1 DEF PagesMissOnlySameSecond
    <3>5. ~repeated'
      BY <3>1, <3>4 DEF Give
    <3> QED BY <3>2, <3>3, <3>5
  <2>2. UNCHANGED posts
    BY <1>3 DEF ListPage
  <2>3. ASSUME cursor'.at = "after"
        PROVE  /\ \A i \in seen' : ~Past(i, cursor)'
               /\ \A i \in throughout' \ seen' : Past(i, cursor)' \/ Second(posts'[i].time) \in cutSeconds'
    BY <1>3, <2>2, <2>3, GivenBefore, PassedOver
  <2>4. ASSUME cursor'.at = "end"
        PROVE  \A i \in throughout' \ seen' : Second(posts'[i].time) \in cutSeconds'
    BY <1>3, <2>2, <2>4, PassedOver
  <2> QED BY <1>1, <2>1, <2>3, <2>4 DEF PagesInv, CursorInv, PagesMissOnlySameSecond
\* The other steps give no page.
<1>4. ASSUME UNCHANGED <<cursor, seen, repeated, cutSeconds>>, throughout' \subseteq throughout,
             throughout' \subseteq Approved'
      PROVE  PagesInv' /\ PagesMissOnlySameSecond'
  <2>1. \A i \in DOMAIN posts : Past(i, cursor)' <=> Past(i, cursor)
    BY <1>1, <1>4 DEF Past
  <2>2. \A i \in DOMAIN posts : Second(posts'[i].time) = Second(posts[i].time)
    BY <1>1
  <2> QED BY <1>1, <1>2, <1>4, <2>1, <2>2 DEF PagesInv, CursorInv, PagesMissOnlySameSecond
<1>5. CASE Pass \/ UNCHANGED pageVars
  BY <1>4, <1>5 DEF Pass, pageVars, Approved, PagesInv, CursorInv
<1>6. ASSUME NEW id \in 1..MaxPosts, PostStory(id)
      PROVE  PagesInv' /\ PagesMissOnlySameSecond'
  <2>1. UNCHANGED <<cursor, seen, repeated, cutSeconds, throughout>>
    BY <1>6 DEF PostStory
  <2>2. \A i \in DOMAIN posts : i \in DOMAIN posts' /\ posts'[i] = posts[i]
    <3> DEFINE new == [time |-> instant, id |-> id, approved |-> FALSE]
    <3>1. posts' = Append(posts, new) /\ posts \in Seq(Post)
      BY <1>6 DEF PostStory, PageTypeOK
    <3> HIDE DEF new
    <3> QED BY <3>1
  <2>3. Approved \subseteq Approved'
    BY <2>2 DEF Approved
  <2> QED BY <1>4, <2>1, <2>3 DEF PagesInv, CursorInv
<1>7. ASSUME NEW i \in 1..MaxPosts, NEW approved \in BOOLEAN, SetApproved(i, approved)
      PROVE  PagesInv' /\ PagesMissOnlySameSecond'
  <2>1. UNCHANGED <<cursor, seen, repeated, cutSeconds>> /\ throughout' \subseteq throughout
    BY <1>7 DEF SetApproved
  <2>2. throughout' \subseteq Approved'
    <3>1. /\ DOMAIN posts' = DOMAIN posts
          /\ \A j \in DOMAIN posts : posts'[j].approved = IF j = i THEN approved ELSE posts[j].approved
      BY <1>7 DEF SetApproved, Post
    <3> QED BY <1>7, <3>1 DEF SetApproved, Approved, PagesInv, CursorInv
  <2> QED BY <1>4, <2>1, <2>2
<1> QED BY <1>3, <1>5, <1>6, <1>7 DEF PageNext

LEMMA PagesInvariant == PageSpec => [](PageTypeOK /\ PagesInv /\ PagesMissOnlySameSecond)
<1>1. PageInit => PageTypeOK /\ PagesInv /\ PagesMissOnlySameSecond
  <2> SUFFICES ASSUME PageInit
               PROVE  PageTypeOK /\ PagesInv /\ PagesMissOnlySameSecond
    OBVIOUS
  <2> USE DEF PageInit
  <2>1. 0 \in Instants /\ 0 \in 0..MaxPosts /\ posts \in Seq(Post) /\ Len(posts) = 0 /\ DOMAIN posts = {}
    BY EmptySeq, PageAssumption DEF Instants
  <2>2. PageTypeOK
    <3>1. cursor \in [at : {"first", "after", "end"}, time : Instants, id : 0..MaxPosts]
      BY <2>1 DEF First
    <3>2. repeated \in BOOLEAN
      OBVIOUS
    <3>3. Len(posts) <= MaxPosts
      BY <2>1, PageAssumption
    <3>4. instant \in Instants /\ seen \subseteq DOMAIN posts /\ throughout \subseteq DOMAIN posts
          /\ cutSeconds \subseteq Instants
      BY <2>1
    <3> QED BY <2>1, <3>1, <3>2, <3>3, <3>4 DEF PageTypeOK
  <2>3. PagesInv /\ PagesMissOnlySameSecond
    BY <2>1 DEF PagesInv, IdsInv, CursorInv, PagesMissOnlySameSecond, First
  <2> QED BY <2>2, <2>3
<1>2. PageTypeOK /\ PagesInv /\ PagesMissOnlySameSecond /\ [PageNext]_pageVars
      => PageTypeOK' /\ PagesInv' /\ PagesMissOnlySameSecond'
  BY PageTypeInductive, PagesInductive
<1> QED BY <1>1, <1>2, PTL DEF PageSpec

\* The list, the cursor and what the reader was given stay within their types.
THEOREM PageTypeCorrect == PageSpec => []PageTypeOK
BY PagesInvariant, PTL

\* Whatever is submitted and moderated meanwhile, no story is given twice, and
\* the only ones missed are of a second in which a page ended.
THEOREM PagesSound == PageSpec => []PagesMissOnlySameSecond
BY PagesInvariant, PTL

-----------------------------------------------------------------------------
(* The four modules together: a step of a scenario is a step of its module *)
(* or none, so each module's specification holds of every behaviour.       *)

LEMMA StoriesImplied == Spec => StorySpec
<1>1. Init => StoryInit
  BY DEF Init
<1>2. [Next]_vars => [StoryNext]_storyVars
  BY DEF Next, vars, SubmissionsNext, TogglesNext
<1> QED  BY <1>1, <1>2, PTL DEF Spec, StorySpec

LEMMA CommentsImplied == Spec => CommentSpec
<1>1. Init => CommentInit
  BY DEF Init
<1>2. [Next]_vars => [CommentNext]_commentVars
  BY DEF Next, vars, ThreadsNext, LikesNext
<1> QED  BY <1>1, <1>2, PTL DEF Spec, CommentSpec

LEMMA MediaImplied == Spec => MediaSpec
<1>1. Init => MediaInit
  BY DEF Init
<1>2. [Next]_vars => [MediaNext]_mediaVars
  BY DEF Next, vars, UploadsNext, ExpiryNext
<1> QED  BY <1>1, <1>2, PTL DEF Spec, MediaSpec

LEMMA PagesImplied == Spec => PageSpec
<1>1. Init => PageInit
  BY DEF Init
<1>2. [Next]_vars => [PageNext]_pageVars
  BY DEF Next, vars
<1> QED  BY <1>1, <1>2, PTL DEF Spec, PageSpec

\* Stories, comments, media and pages stay within their types together.
THEOREM TypeCorrect == Spec => []TypeOK
  BY StoriesImplied, CommentsImplied, MediaImplied, PagesImplied,
     StoryTypeCorrect, CommentTypeCorrect, MediaTypeCorrect, PageTypeCorrect, PTL DEF TypeOK
=============================================================================
