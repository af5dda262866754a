----------------------------- MODULE StoryProofs -----------------------------
(***************************************************************************)
(* Theorems about stories and the comments on them, for any number of      *)
(* users, media, stories and concurrent requests.                          *)
(***************************************************************************)
EXTENDS StoryFeed, CommentThread, SequenceTheorems, FiniteSetTheorems, TLAPS

-----------------------------------------------------------------------------
(* Stories: types.                                                         *)

LEMMA StoryIds ==
  ASSUME StoryTypeOK
  PROVE  /\ DOMAIN stories = 1..Len(stories) /\ Len(stories) \in Nat
         /\ DOMAIN wanted = DOMAIN stories
         /\ DOMAIN stories \subseteq 1..MaxStories
         /\ \A s \in DOMAIN stories : s \in Nat /\ s # 0 /\ s # Elsewhere /\ stories[s] \in Story
         /\ \A s \in DOMAIN stories : wanted[s] \subseteq MediaIds
<1>1. /\ Len(stories) \in Nat /\ Len(stories) <= MaxStories
      /\ DOMAIN stories = 1..Len(stories)
      /\ stories \in [1..Len(stories) -> Story]
      /\ wanted \in [1..Len(wanted) -> SUBSET MediaIds]
      /\ Len(wanted) = Len(stories)
  BY LenProperties DEF StoryTypeOK
<1>2. DOMAIN stories \subseteq 1..MaxStories
  BY <1>1, StoryAssumption
<1> QED BY <1>1, <1>2, StoryAssumption DEF Elsewhere

\* A new row of stories and what it was submitted with.
LEMMA NewStory ==
  ASSUME StoryTypeOK, NEW r \in StoryRequests, NEW u \in Users, NEW media \in SUBSET MediaIds,
         CreateStory(r, u, media)
  PROVE  LET n == Len(stories) + 1 IN
         /\ stories' \in Seq(Story) /\ Len(stories') = n /\ n <= MaxStories /\ n \in Nat
         /\ wanted' \in Seq(SUBSET MediaIds) /\ Len(wanted') = n
         /\ DOMAIN stories' = DOMAIN stories \union {n}
         /\ n \notin DOMAIN stories
         /\ wanted'[n] = media
         /\ \A s \in DOMAIN stories : wanted'[s] = wanted[s]
<1> DEFINE new == [creator |-> u, status |-> "pending"]
<1>1. /\ new \in Story /\ stories' = Append(stories, new)
      /\ wanted' = Append(wanted, media) /\ Len(stories) < MaxStories
  BY DEF CreateStory, Story
<1>2. stories \in Seq(Story) /\ wanted \in Seq(SUBSET MediaIds) /\ Len(wanted) = Len(stories)
  BY DEF StoryTypeOK
<1> HIDE DEF new
<1> QED BY <1>1, <1>2, StoryIds, AppendProperties, LenProperties, StoryAssumption

LEMMA NoStoryRequestTyped ==
  NoStoryRequest \in [at : {"idle", "link", "insert"}, user : Users \union {Nobody},
                      story : 0..MaxStories, kind : Kinds, media : SUBSET MediaIds]
BY StoryAssumption DEF NoStoryRequest, Kinds

StoryLocals == [at : {"idle", "link", "insert"}, user : Users \union {Nobody},
                story : 0..MaxStories, kind : Kinds, media : SUBSET MediaIds]

\* What StoryRequestInv says of a request with local variables s.
SoundStory(s, rows, submitted) ==
  /\ s \in StoryLocals
  /\ s.at # "idle" => s.user \in Users /\ s.story \in rows
  /\ s.at = "link" => s.media \subseteq submitted[s.story]
  /\ s.at # "link" => s.media = {}

LEMMA StoryRequestsSound ==
  ASSUME StoryTypeOK, StoryRequestInv, NEW r \in StoryRequests
  PROVE  SoundStory(storyRequest[r], DOMAIN stories, wanted)
BY DEF StoryTypeOK, StoryRequestInv, SoundStory, StoryLocals, Idle

\* A step that changes the local variables of at most one request and no row of
\* stories but by adding one.
LEMMA StoryMove ==
  ASSUME StoryTypeOK, StoryRequestInv,
         DOMAIN stories \subseteq DOMAIN stories',
         \A s \in DOMAIN stories : wanted'[s] = wanted[s],
         \/ UNCHANGED storyRequest
         \/ \E r \in StoryRequests : \E s \in StoryLocals :
              /\ storyRequest' = [storyRequest EXCEPT ![r] = s]
              /\ SoundStory(s, DOMAIN stories', wanted')
  PROVE  storyRequest' \in [StoryRequests -> StoryLocals] /\ StoryRequestInv'
<1>1. storyRequest \in [StoryRequests -> StoryLocals]
  BY DEF StoryTypeOK, StoryLocals
<1>2. storyRequest' \in [StoryRequests -> StoryLocals]
  BY <1>1
<1>3. ASSUME NEW q \in StoryRequests
      PROVE  SoundStory(storyRequest'[q], DOMAIN stories', wanted')
  <2>1. SoundStory(storyRequest[q], DOMAIN stories', wanted')
    BY StoryRequestsSound DEF SoundStory
  <2> QED BY <1>1, <2>1
<1> QED BY <1>2, <1>3 DEF StoryRequestInv, SoundStory, Idle

LEMMA StoryTypeInductive ==
  ASSUME StoryTypeOK, StoryRequestInv, [StoryNext]_storyVars
  PROVE  StoryTypeOK' /\ StoryRequestInv'
<1> DEFINE Goal == StoryTypeOK' /\ StoryRequestInv'
<1> USE StoryIds, NoStoryRequestTyped
<1>1. CASE UNCHANGED storyVars
  BY <1>1 DEF storyVars, StoryTypeOK, StoryRequestInv, Idle, Interactions
<1>2. SoundStory(NoStoryRequest, DOMAIN stories', wanted') /\ NoStoryRequest \in StoryLocals
  BY DEF SoundStory, StoryLocals, NoStoryRequest
<1>3. ASSUME NEW r \in StoryRequests, NEW u \in Users, NEW media \in SUBSET MediaIds,
             CreateStory(r, u, media)
      PROVE  Goal
  <2> DEFINE n == Len(stories) + 1
             s == [NoStoryRequest EXCEPT !.at = "link", !.user = u, !.story = n, !.media = media]
  <2>1. /\ stories' \in Seq(Story) /\ Len(stories') = n /\ n <= MaxStories /\ n \in Nat
        /\ wanted' \in Seq(SUBSET MediaIds) /\ Len(wanted') = n
        /\ DOMAIN stories' = DOMAIN stories \union {n}
        /\ wanted'[n] = media
        /\ \A i \in DOMAIN stories : wanted'[i] = wanted[i]
    BY <1>3, NewStory
  <2>2. s \in StoryLocals /\ SoundStory(s, DOMAIN stories', wanted')
    <3>1. n \in 0..MaxStories
      BY <2>1, StoryAssumption
    <3> HIDE DEF n
    <3> QED BY <2>1, <3>1 DEF StoryLocals, SoundStory, NoStoryRequest, Kinds
  <2>3. storyRequest' = [storyRequest EXCEPT ![r] = s]
    BY <1>3 DEF CreateStory
  <2>4. storyRequest' \in [StoryRequests -> StoryLocals] /\ StoryRequestInv'
    BY <2>1, <2>2, <2>3, StoryMove
  <2> QED BY <1>3, <2>1, <2>4 DEF CreateStory, StoryTypeOK, StoryLocals
<1>4. ASSUME NEW r \in StoryRequests, NEW m \in MediaIds, LinkMedia(r, m) \/ LinkFails(r, m)
      PROVE  Goal
  <2> DEFINE s == [storyRequest[r] EXCEPT !.media = storyRequest[r].media \ {m}]
  <2>1. /\ storyRequest[r].at = "link" /\ storyRequest' = [storyRequest EXCEPT ![r] = s]
        /\ UNCHANGED <<stories, wanted>>
    BY <1>4 DEF LinkMedia, LinkFails
  <2>2. s \in StoryLocals /\ SoundStory(s, DOMAIN stories', wanted')
    BY <2>1, StoryRequestsSound DEF SoundStory, StoryLocals
  <2>3. storyRequest' \in [StoryRequests -> StoryLocals] /\ StoryRequestInv'
    BY <2>1, <2>2, StoryMove
  <2>4. storyRequest[r].story \in DOMAIN stories
    BY <2>1 DEF StoryRequestInv, Idle
  <2>5. linkedTo' \in [MediaIds -> 0..Gone] /\ broken' \subseteq DOMAIN stories
    <3>1. storyRequest[r].story \in 0..Gone
      BY <2>4, StoryAssumption DEF Gone
    <3> QED BY <1>4, <2>4, <3>1 DEF LinkMedia, LinkFails, StoryTypeOK
  <2> QED BY <1>4, <2>1, <2>3, <2>5 DEF LinkMedia, LinkFails, StoryTypeOK, StoryLocals
<1>5. ASSUME NEW r \in StoryRequests, StoryCreated(r) \/ ToggleInsert(r) \/ StoryCutOff(r)
      PROVE  Goal
  <2>1. /\ storyRequest[r].at # "idle" /\ storyRequest' = [storyRequest EXCEPT ![r] = NoStoryRequest]
        /\ UNCHANGED <<stories, wanted, linkedTo, moved, toggles>>
    BY <1>5 DEF StoryCreated, ToggleInsert, StoryCutOff, Answer, Idle
  <2>2. storyRequest' \in [StoryRequests -> StoryLocals] /\ StoryRequestInv'
    BY <1>2, <2>1, StoryMove
  <2>3. storyRequest[r].story \in DOMAIN stories /\ storyRequest[r].user \in Users
    BY <2>1 DEF StoryRequestInv, Idle
  <2>4. broken' \subseteq DOMAIN stories
    BY <1>5, <2>3 DEF StoryCreated, ToggleInsert, StoryCutOff, StoryTypeOK
  <2>5. interactions' \subseteq Interactions /\ flips' \in [Interactions -> {0, 1}]
    <3> DEFINE x == <<storyRequest[r].user, storyRequest[r].story, storyRequest[r].kind>>
    <3>1. x \in Interactions
      BY <2>3 DEF Interactions, StoryTypeOK
    <3>2. CASE UNCHANGED <<interactions, flips>>
      BY <3>2 DEF StoryTypeOK
    <3>3. CASE interactions' = interactions \union {x} /\ Flip(x)
      <4> HIDE DEF x
      <4>1. flips[x] \in {0, 1} /\ 1 - flips[x] \in {0, 1}
        BY <3>1 DEF StoryTypeOK
      <4> QED BY <3>1, <3>3, <4>1 DEF Flip, StoryTypeOK
    <3> QED BY <1>5, <3>2, <3>3 DEF StoryCreated, ToggleInsert, StoryCutOff
  <2> QED BY <2>1, <2>2, <2>4, <2>5 DEF StoryTypeOK, StoryLocals
<1>6. ASSUME NEW r \in StoryRequests, NEW u \in Users, NEW i \in 1..MaxStories, NEW kind \in Kinds,
             ToggleDelete(r, u, i, kind)
      PROVE  Goal
  <2> DEFINE x == <<u, i, kind>>
             s == [NoStoryRequest EXCEPT !.at = "insert", !.user = u, !.story = i, !.kind = kind]
  <2>1. i \in DOMAIN stories /\ UNCHANGED <<stories, linkedTo, wanted, broken, moved>>
    BY <1>6 DEF ToggleDelete
  <2>2. s \in StoryLocals /\ SoundStory(s, DOMAIN stories', wanted')
    <3>1. i \in 0..MaxStories
      BY StoryAssumption
    <3> QED BY <2>1, <3>1 DEF StoryLocals, SoundStory, NoStoryRequest
  <2>3. UNCHANGED storyRequest \/ storyRequest' = [storyRequest EXCEPT ![r] = s]
    BY <1>6 DEF ToggleDelete
  <2>4. storyRequest' \in [StoryRequests -> StoryLocals] /\ StoryRequestInv'
    BY <2>1, <2>2, <2>3, StoryMove
  <2>5. interactions' \subseteq Interactions /\ flips' \in [Interactions -> {0, 1}]
    <3>1. x \in Interactions
      BY DEF Interactions
    <3>2. CASE UNCHANGED <<interactions, flips>>
      BY <3>2 DEF StoryTypeOK
    <3>3. CASE interactions' = interactions \ {x} /\ Flip(x)
      <4> HIDE DEF x
      <4>1. flips[x] \in {0, 1} /\ 1 - flips[x] \in {0, 1}
        BY <3>1 DEF StoryTypeOK
      <4> QED BY <3>1, <3>3, <4>1 DEF Flip, StoryTypeOK
    <3> QED BY <1>6, <3>2, <3>3 DEF ToggleDelete
  <2>6. toggles' \in 0..MaxToggles
    BY <1>6, StoryAssumption DEF ToggleDelete, StoryTypeOK
  <2> QED BY <2>1, <2>4, <2>5, <2>6 DEF StoryTypeOK, StoryLocals
<1>7. ASSUME NEW m \in MediaIds, RelinkMedia(m)
      PROVE  Goal
  <2>1. storyRequest' \in [StoryRequests -> StoryLocals] /\ StoryRequestInv'
    BY <1>7, StoryMove DEF RelinkMedia
  <2>2. linkedTo' \in [MediaIds -> 0..Gone]
    BY <1>7, StoryAssumption DEF RelinkMedia, StoryTypeOK, Elsewhere, Gone
  <2> QED BY <1>7, <2>1, <2>2 DEF RelinkMedia, StoryTypeOK, StoryLocals
<1>10. ASSUME NEW m \in MediaIds, DeleteMedia(m)
       PROVE  Goal
  <2>1. storyRequest' \in [StoryRequests -> StoryLocals] /\ StoryRequestInv'
    BY <1>10, StoryMove DEF DeleteMedia
  <2>2. linkedTo' \in [MediaIds -> 0..Gone]
    BY <1>10, StoryAssumption DEF DeleteMedia, StoryTypeOK, Gone
  <2> QED BY <1>10, <2>1, <2>2 DEF DeleteMedia, StoryTypeOK, StoryLocals
<1>11. ASSUME NEW linked \in SUBSET MediaIds, DeleteDestinationMedia(linked)
       PROVE  Goal
  <2>1. storyRequest' \in [StoryRequests -> StoryLocals] /\ StoryRequestInv'
    BY <1>11, StoryMove DEF DeleteDestinationMedia
  <2>2. linkedTo' \in [MediaIds -> 0..Gone]
    BY <1>11, StoryAssumption DEF DeleteDestinationMedia, StoryTypeOK, Gone
  <2> QED BY <1>11, <2>1, <2>2 DEF DeleteDestinationMedia, StoryTypeOK, StoryLocals
<1>8. ASSUME NEW i \in 1..MaxStories, NEW action, Moderate(i, action)
      PROVE  Goal
  <2>1. stories' \in [1..Len(stories) -> Story]
    BY <1>8 DEF Moderate, Story
  <2>2. stories' \in Seq(Story) /\ Len(stories') = Len(stories) /\ DOMAIN stories' = DOMAIN stories
    BY <2>1, SeqDef, LenProperties
  <2>3. storyRequest' \in [StoryRequests -> StoryLocals] /\ StoryRequestInv'
    BY <1>8, <2>2, StoryMove DEF Moderate
  <2> QED BY <1>8, <2>2, <2>3 DEF Moderate, StoryTypeOK, StoryLocals
<1>9. ASSUME NEW u \in Users, StoryAccountDeleted(u)
      PROVE  Goal
  <2>1. stories' \in [1..Len(stories) -> Story]
    BY <1>9 DEF StoryAccountDeleted, Story
  <2>2. stories' \in Seq(Story) /\ Len(stories') = Len(stories) /\ DOMAIN stories' = DOMAIN stories
    BY <2>1, SeqDef, LenProperties
  <2>3. storyRequest' \in [StoryRequests -> StoryLocals] /\ StoryRequestInv'
    BY <1>9, <2>2, StoryMove DEF StoryAccountDeleted
  <2>4. interactions' \subseteq Interactions /\ flips' \in [Interactions -> {0, 1}]
    BY <1>9 DEF StoryAccountDeleted, StoryTypeOK
  <2> QED BY <1>9, <2>2, <2>3, <2>4 DEF StoryAccountDeleted, StoryTypeOK, StoryLocals
<1> QED BY <1>1, <1>3, <1>4, <1>5, <1>6, <1>7, <1>8, <1>9, <1>10, <1>11 DEF StoryNext

-----------------------------------------------------------------------------
(* Likes and saves.                                                        *)

LEMMA ParityInductive ==
  ASSUME StoryTypeOK, StoryRequestInv, ParityInv, [StoryNext]_storyVars
  PROVE  ParityInv'
<1> USE StoryIds
<1>1. ASSUME NEW x \in Interactions, interactions' \in {interactions \union {x}, interactions \ {x}},
             interactions' # interactions, Flip(x)
      PROVE  ParityInv'
  <2>1. flips' = [flips EXCEPT ![x] = 1 - flips[x]] /\ flips \in [Interactions -> {0, 1}]
    BY <1>1 DEF Flip, StoryTypeOK
  <2>2. x \in interactions' <=> x \notin interactions
    BY <1>1
  <2>3. flips[x] \in {0, 1} /\ (1 - flips[x] = 1 <=> flips[x] # 1)
    BY <2>1
  <2>4. \A y \in Interactions \ {x} : /\ y \in interactions' <=> y \in interactions
                                      /\ flips'[y] = flips[y]
    BY <1>1, <2>1
  <2> QED BY <1>1, <2>1, <2>2, <2>3, <2>4 DEF ParityInv, Interactions
<1>2. ASSUME NEW r \in StoryRequests, ToggleInsert(r)
      PROVE  ParityInv'
  <2> DEFINE x == <<storyRequest[r].user, storyRequest[r].story, storyRequest[r].kind>>
  <2>1. x \in Interactions
    BY <1>2 DEF ToggleInsert, Interactions, StoryRequestInv, Idle, StoryTypeOK
  <2>2. CASE x \in interactions
    BY <1>2, <2>2 DEF ToggleInsert, ParityInv, Interactions
  <2>3. CASE x \notin interactions
    <3>1. interactions' = interactions \union {x} /\ Flip(x)
      BY <1>2, <2>3 DEF ToggleInsert
    <3> HIDE DEF x
    <3> QED BY <1>1, <2>1, <2>3, <3>1
  <2> QED BY <2>2, <2>3
<1>3. ASSUME NEW r \in StoryRequests, NEW u \in Users, NEW i \in 1..MaxStories, NEW kind \in Kinds,
             ToggleDelete(r, u, i, kind)
      PROVE  ParityInv'
  <2> DEFINE x == <<u, i, kind>>
  <2>1. x \in Interactions
    BY DEF Interactions
  <2>2. CASE x \notin interactions
    BY <1>3, <2>2 DEF ToggleDelete, ParityInv, Interactions
  <2>3. CASE x \in interactions
    <3>1. interactions' = interactions \ {x} /\ Flip(x)
      BY <1>3, <2>3 DEF ToggleDelete
    <3> HIDE DEF x
    <3> QED BY <1>1, <2>1, <2>3, <3>1
  <2> QED BY <2>2, <2>3
<1>4. ASSUME NEW u \in Users, StoryAccountDeleted(u)
      PROVE  ParityInv'
  <2> SUFFICES ASSUME NEW x \in Interactions
               PROVE  x \in interactions' <=> flips'[x] = 1
    BY DEF ParityInv, Interactions
  <2>1. flips'[x] = IF x[1] = u THEN 0 ELSE flips[x]
    BY <1>4 DEF StoryAccountDeleted
  <2>2. x \in interactions' <=> x \in interactions /\ x[1] # u
    BY <1>4 DEF StoryAccountDeleted
  <2> QED BY <2>1, <2>2 DEF ParityInv
<1>5. \/ UNCHANGED <<interactions, flips>>
      \/ \E r \in StoryRequests : ToggleInsert(r)
      \/ \E r \in StoryRequests, u \in Users, i \in 1..MaxStories, kind \in Kinds : ToggleDelete(r, u, i, kind)
      \/ \E u \in Users : StoryAccountDeleted(u)
  BY DEF StoryNext, storyVars, CreateStory, LinkMedia, LinkFails, StoryCreated, StoryCutOff,
         RelinkMedia, DeleteMedia,
         DeleteDestinationMedia, Moderate
<1>6. UNCHANGED <<interactions, flips>> => ParityInv'
  BY DEF ParityInv, Interactions
<1> QED BY <1>2, <1>3, <1>4, <1>5, <1>6

-----------------------------------------------------------------------------
(* The media of a story.                                                   *)

\* Request state s stands for a request that is going to link m to story i.
Links(s, i, m) == s.at = "link" /\ s.story = i /\ m \in s.media

\* MediaInv for one medium and one story, as an answered or unanswered request
\* leaves it.
LEMMA MediaInductive ==
  ASSUME StoryTypeOK, StoryRequestInv, MediaInv, [StoryNext]_storyVars
  PROVE  MediaInv'
<1> USE StoryIds
<1>1. DOMAIN stories \subseteq DOMAIN stories' /\ \A s \in DOMAIN stories : wanted'[s] = wanted[s]
  <2>1. \/ DOMAIN stories' = DOMAIN stories /\ wanted' = wanted
        \/ \E r \in StoryRequests, u \in Users, media \in SUBSET MediaIds : CreateStory(r, u, media)
    BY DEF StoryNext, storyVars, ToggleDelete, LinkMedia, LinkFails, StoryCreated, ToggleInsert,
           StoryCutOff, RelinkMedia, DeleteMedia,
         DeleteDestinationMedia, Moderate, StoryAccountDeleted
  <2> QED BY <2>1, NewStory
<1>2. moved \subseteq moved' /\ broken \subseteq broken'
  BY DEF StoryNext, storyVars, CreateStory, ToggleDelete, LinkMedia, LinkFails, StoryCreated,
         ToggleInsert, StoryCutOff, RelinkMedia, DeleteMedia,
         DeleteDestinationMedia, Moderate, StoryAccountDeleted
<1>3. SUFFICES ASSUME NEW m \in MediaIds \ moved'
               PROVE  /\ linkedTo'[m] # 0
                         => linkedTo'[m] \in DOMAIN stories' /\ m \in wanted'[linkedTo'[m]]
                      /\ \A s \in DOMAIN stories' \ broken' : m \in wanted'[s] =>
                           \/ linkedTo'[m] # 0
                           \/ \E r \in StoryRequests : Links(storyRequest'[r], s, m)
  BY DEF MediaInv, Links
<1>4. /\ linkedTo[m] # 0 => linkedTo[m] \in DOMAIN stories /\ m \in wanted[linkedTo[m]]
      /\ \A s \in DOMAIN stories \ broken : m \in wanted[s] =>
           linkedTo[m] # 0 \/ \E r \in StoryRequests : Links(storyRequest[r], s, m)
  BY <1>2 DEF MediaInv, Links
<1>5. \/ linkedTo'[m] = linkedTo[m]
      \/ \E r \in StoryRequests : /\ LinkMedia(r, m) /\ linkedTo[m] = 0
                                  /\ linkedTo'[m] = storyRequest[r].story
  BY <1>3 DEF StoryTypeOK, StoryNext, storyVars, CreateStory, ToggleDelete, LinkMedia, LinkFails,
              StoryCreated, ToggleInsert, StoryCutOff, RelinkMedia, DeleteMedia,
         DeleteDestinationMedia, Moderate, StoryAccountDeleted
<1>6. linkedTo'[m] # 0 => linkedTo'[m] \in DOMAIN stories' /\ m \in wanted'[linkedTo'[m]]
  <2>1. ASSUME NEW r \in StoryRequests, LinkMedia(r, m)
        PROVE  storyRequest[r].story \in DOMAIN stories /\ m \in wanted[storyRequest[r].story]
    BY <2>1 DEF LinkMedia, StoryRequestInv, Idle
  <2> QED BY <1>1, <1>4, <1>5, <2>1
<1>7. ASSUME NEW s \in DOMAIN stories' \ broken', m \in wanted'[s], linkedTo'[m] = 0
      PROVE  \E r \in StoryRequests : Links(storyRequest'[r], s, m)
  <2>1. ASSUME s \in DOMAIN stories, NEW q \in StoryRequests, Links(storyRequest[q], s, m)
        PROVE  Links(storyRequest'[q], s, m)
    <3>1. CASE storyRequest'[q] = storyRequest[q]
      BY <2>1, <3>1
    <3>2. ASSUME NEW n \in MediaIds, LinkMedia(q, n) \/ LinkFails(q, n)
          PROVE  Links(storyRequest'[q], s, m)
      <4>1. storyRequest'[q] = [storyRequest[q] EXCEPT !.media = storyRequest[q].media \ {n}]
        BY <3>2 DEF LinkMedia, LinkFails, StoryTypeOK
      <4>2. n # m
        BY <1>7, <2>1, <3>2 DEF LinkMedia, LinkFails, Links, StoryTypeOK, StoryRequestInv, Idle
      <4> QED BY <2>1, <4>1, <4>2 DEF Links, StoryTypeOK
    <3>3. CASE StoryCreated(q) \/ StoryCutOff(q)
      BY <1>7, <2>1, <3>3 DEF StoryCreated, StoryCutOff, Links
    <3>4. \/ storyRequest'[q] = storyRequest[q]
          \/ \E n \in MediaIds : LinkMedia(q, n) \/ LinkFails(q, n)
          \/ StoryCreated(q) \/ StoryCutOff(q)
      BY <2>1 DEF StoryNext, storyVars, CreateStory, ToggleDelete, LinkMedia, LinkFails,
                  StoryCreated, ToggleInsert, StoryCutOff, RelinkMedia, DeleteMedia,
         DeleteDestinationMedia, Moderate,
                  StoryAccountDeleted, Answer, Idle, StoryTypeOK, Links
    <3> QED BY <3>1, <3>2, <3>3, <3>4
  <2>2. CASE s \in DOMAIN stories
    <3>1. linkedTo[m] = 0
      <4>1. ASSUME NEW r \in StoryRequests, LinkMedia(r, m)
            PROVE  storyRequest[r].story # 0
        BY <4>1 DEF LinkMedia, StoryRequestInv, Idle
      <4> QED BY <1>5, <1>7, <4>1
    <3>2. \E r \in StoryRequests : Links(storyRequest[r], s, m)
      BY <1>1, <1>2, <1>4, <1>7, <2>2, <3>1
    <3> QED BY <2>1, <2>2, <3>2
  <2>3. CASE s \notin DOMAIN stories
    <3>1. PICK r \in StoryRequests, u \in Users, media \in SUBSET MediaIds : CreateStory(r, u, media)
      BY <2>3 DEF StoryNext, storyVars, ToggleDelete, LinkMedia, LinkFails, StoryCreated,
                  ToggleInsert, StoryCutOff, RelinkMedia, DeleteMedia,
         DeleteDestinationMedia, Moderate, StoryAccountDeleted
    <3>2. s = Len(stories) + 1 /\ m \in media
      BY <1>7, <2>3, <3>1, NewStory
    <3>3. storyRequest'[r] = [NoStoryRequest EXCEPT !.at = "link", !.user = u,
                                                    !.story = Len(stories) + 1, !.media = media]
      BY <3>1 DEF CreateStory, StoryTypeOK
    <3> QED BY <3>2, <3>3 DEF Links, NoStoryRequest
  <2> QED BY <2>2, <2>3
<1> QED BY <1>6, <1>7

-----------------------------------------------------------------------------
(* Stories: theorems.                                                      *)

LEMMA StoryInitially ==
  ASSUME StoryInit
  PROVE  StoryTypeOK /\ StoryInv
<1>1. /\ stories = <<>> /\ DOMAIN stories = {} /\ stories \in Seq(Story) /\ Len(stories) = 0
      /\ wanted = <<>> /\ wanted \in Seq(SUBSET MediaIds) /\ Len(wanted) = 0
  BY EmptySeq DEF StoryInit
<1>2. StoryTypeOK
  <2>1. linkedTo \in [MediaIds -> 0..Gone] /\ toggles \in 0..MaxToggles
    BY StoryAssumption DEF StoryInit, Gone
  <2> QED BY <1>1, <2>1, NoStoryRequestTyped, StoryAssumption DEF StoryInit, StoryTypeOK
<1>3. StoryInv
  BY <1>1 DEF StoryInit, StoryInv, StoryRequestInv, ParityInv, MediaInv, NoStoryRequest, Idle
<1> QED BY <1>2, <1>3

LEMMA StoryInvariant == StorySpec => [](StoryTypeOK /\ StoryInv)
<1>1. StoryTypeOK /\ StoryInv /\ [StoryNext]_storyVars => (StoryTypeOK /\ StoryInv)'
  BY StoryTypeInductive, ParityInductive, MediaInductive DEF StoryInv
<1> QED BY <1>1, StoryInitially, PTL DEF StorySpec

\* The tables and the requests under way have their types in every reachable state.
THEOREM StoryTypeCorrect == StorySpec => []StoryTypeOK
BY StoryInvariant, PTL

\* What a user is shown to have liked and saved is the parity of the answered
\* toggles, whatever requests of all users overlap and whatever is cut off.
THEOREM ParityKept == StorySpec => []ToggleParity
<1>1. StoryTypeOK /\ StoryInv => ToggleParity
  <2> SUFFICES ASSUME StoryTypeOK, ParityInv, NEW u \in Users, NEW s \in DOMAIN stories
               PROVE  /\ IsLiked(u, s) <=> flips[<<u, s, "like">>] = 1
                      /\ s \in SavedStories(u) <=> flips[<<u, s, "save">>] = 1
    BY DEF StoryInv, ToggleParity
  <2>1. \A kind \in Kinds : <<u, s, kind>> \in Interactions
    BY StoryIds DEF Interactions
  <2> QED BY <2>1 DEF ParityInv, IsLiked, SavedStories, Kinds
<1> QED BY <1>1, StoryInvariant, PTL

\* Concurrent submissions share out the media they name: none is left out, and
\* none moves from one story to another, but for those that administrators link
\* elsewhere or delete meanwhile, alone or with a destination.
THEOREM MediaKept == StorySpec => StoryKeepsMedia
<1>1. StoryTypeOK /\ StoryInv /\ [StoryNext]_storyVars
      => [\A s \in DOMAIN stories : MediaOf(s) \ moved' \subseteq MediaOf(s)']_storyVars
  <2> SUFFICES ASSUME StoryTypeOK, StoryInv, [StoryNext]_storyVars,
                      NEW s \in DOMAIN stories, NEW m \in MediaIds \ moved', linkedTo[m] = s
               PROVE  linkedTo'[m] = s
    BY DEF MediaOf
  <2>1. s # 0
    BY StoryIds
  <2> QED BY <2>1 DEF StoryTypeOK, StoryNext, storyVars, CreateStory, ToggleDelete, LinkMedia,
                      LinkFails, StoryCreated, ToggleInsert, StoryCutOff, RelinkMedia, DeleteMedia,
         DeleteDestinationMedia, Moderate,
                      StoryAccountDeleted
<1>2. StoryTypeOK /\ StoryInv =>
        \A s \in DOMAIN stories \ broken :
          \/ \E r \in StoryRequests : storyRequest[r].at = "link" /\ storyRequest[r].story = s
          \/ \A m \in wanted[s] \ moved :
               \E t \in DOMAIN stories : m \in wanted[t] /\ m \in MediaOf(t)
  BY StoryIds DEF StoryInv, MediaInv, MediaOf
<1> QED BY <1>1, <1>2, StoryInvariant, PTL DEF StorySpec, StoryKeepsMedia

-----------------------------------------------------------------------------
(* Comments: types.                                                        *)

CommentLocals ==
  [at : {"idle", "edit", "story", "delete", "note", "count", "store"}, user : Users \union {Nobody},
   comment : 0..MaxComments, count : 0..Cardinality(Users), late : BOOLEAN]

LEMMA CommentIds ==
  ASSUME CommentTypeOK
  PROVE  /\ DOMAIN comments = 1..Len(comments) /\ Len(comments) \in Nat
         /\ DOMAIN comments \subseteq 1..MaxComments
         /\ \A c \in DOMAIN comments : c \in Nat /\ c # 0 /\ comments[c] \in Comment
<1>1. /\ Len(comments) \in Nat /\ Len(comments) <= MaxComments
      /\ DOMAIN comments = 1..Len(comments)
      /\ comments \in [1..Len(comments) -> Comment]
  BY LenProperties DEF CommentTypeOK
<1>2. DOMAIN comments \subseteq 1..MaxComments
  BY <1>1, CommentAssumption
<1> QED BY <1>1, <1>2

\* A comment has at most one like of each user.
LEMMA LikesBound ==
  ASSUME CommentTypeOK, NEW c
  PROVE  Cardinality(LikesOf(c)) \in 0..Cardinality(Users)
<1> DEFINE f == [x \in LikesOf(c) |-> x[1]]
<1>1. \A x \in LikesOf(c) : x = <<x[1], c>> /\ x[1] \in Users
  BY DEF LikesOf, CommentTypeOK
<1>2. f \in Injection(LikesOf(c), Users)
  BY <1>1 DEF Injection, IsInjective
<1>3. /\ IsFiniteSet(LikesOf(c))
      /\ Cardinality(LikesOf(c)) <= Cardinality(Users)
  BY <1>2, FS_Injection, CommentAssumption
<1> QED BY <1>3, FS_CardinalityType, CommentAssumption

LEMMA NoCommentRequestTyped == NoCommentRequest \in CommentLocals /\ 0 \in 0..Cardinality(Users)
<1>1. Cardinality(Users) \in Nat
  BY FS_CardinalityType, CommentAssumption
<1> QED BY <1>1, CommentAssumption DEF NoCommentRequest, CommentLocals

\* A row that is replaced by another.
LEMMA RowReplaced ==
  ASSUME CommentTypeOK, comments' \in [1..Len(comments) -> Comment]
  PROVE  /\ comments' \in Seq(Comment) /\ Len(comments') = Len(comments)
         /\ Len(comments') <= MaxComments /\ DOMAIN comments' = DOMAIN comments
<1>1. comments' \in Seq(Comment) /\ Len(comments') = Len(comments)
  BY CommentIds, SeqDef, LenProperties
<1> QED BY <1>1, CommentIds DEF CommentTypeOK

\* Rows of comments that a step leaves alone but for what it may write.
LEMMA CommentRows ==
  ASSUME CommentTypeOK, CommentRequestInv, [CommentNext]_commentVars
  PROVE  /\ comments' \in Seq(Comment) /\ Len(comments') <= MaxComments
         /\ DOMAIN comments \subseteq DOMAIN comments'
         /\ \A c \in DOMAIN comments : /\ comments'[c].story = comments[c].story
                                       /\ comments'[c].parent = comments[c].parent
         /\ \A c \in DOMAIN comments' \ DOMAIN comments :
              /\ comments'[c].status = "published" /\ comments'[c].likeCount = 0
              /\ comments'[c].parent # 0 =>
                   /\ comments'[c].parent \in DOMAIN comments
                   /\ comments[comments'[c].parent].parent = 0
<1> DEFINE Goal == /\ comments' \in Seq(Comment) /\ Len(comments') <= MaxComments
                   /\ DOMAIN comments \subseteq DOMAIN comments'
                   /\ \A c \in DOMAIN comments : /\ comments'[c].story = comments[c].story
                                                 /\ comments'[c].parent = comments[c].parent
                   /\ \A c \in DOMAIN comments' \ DOMAIN comments :
                        /\ comments'[c].status = "published" /\ comments'[c].likeCount = 0
                        /\ comments'[c].parent # 0 =>
                             /\ comments'[c].parent \in DOMAIN comments
                             /\ comments[comments'[c].parent].parent = 0
<1> USE CommentIds
<1>1. ASSUME UNCHANGED comments
      PROVE  Goal
  BY <1>1 DEF CommentTypeOK
<1>2. ASSUME NEW u \in Users, NEW s \in Stories, NEW p \in 0..MaxComments, Insert(u, s, p),
             Len(comments) < MaxComments,
             p # 0 => p \in DOMAIN comments /\ comments[p].parent = 0
      PROVE  Goal
  <2> DEFINE new == [story |-> s, author |-> u, parent |-> p, body |-> "text",
                     status |-> "published", likeCount |-> 0]
             n == Len(comments) + 1
  <2>1. new \in Comment /\ comments' = Append(comments, new)
    BY <1>2, NoCommentRequestTyped DEF Insert, Comment
  <2>2. comments \in Seq(Comment)
    BY DEF CommentTypeOK
  <2>3. new.status = "published" /\ new.likeCount = 0 /\ new.parent = p
    OBVIOUS
  <2> HIDE DEF new
  <2>4. /\ comments' \in Seq(Comment) /\ Len(comments') = n /\ n <= MaxComments
        /\ DOMAIN comments' = DOMAIN comments \union {n}
        /\ \A c \in DOMAIN comments : comments'[c] = comments[c]
        /\ comments'[n] = new
    BY <1>2, <2>1, <2>2, AppendProperties, LenProperties, CommentAssumption
  <2> QED BY <1>2, <2>3, <2>4
<1>3. ASSUME NEW c \in DOMAIN comments, NEW row \in Comment,
             row.story = comments[c].story, row.parent = comments[c].parent,
             comments' = [comments EXCEPT ![c] = row]
      PROVE  Goal
  <2>1. comments' \in [1..Len(comments) -> Comment]
    BY <1>3
  <2> QED BY <1>3, <2>1, RowReplaced
<1>4. ASSUME NEW c \in DOMAIN comments, comments' = Redacted(c)
      PROVE  Goal
  <2> DEFINE row == [comments[c] EXCEPT !.status = "deleted", !.body = "[deleted]"]
  <2>1. row \in Comment /\ row.story = comments[c].story /\ row.parent = comments[c].parent
    BY DEF Comment
  <2> HIDE DEF row
  <2>2. comments' = [comments EXCEPT ![c] = row]
    BY <1>4 DEF Redacted, row
  <2> QED BY <1>3, <2>1, <2>2
<1>5. ASSUME NEW u \in Users, CommentAccountDeleted(u)
      PROVE  Goal
  <2>1. comments' \in [1..Len(comments) -> Comment]
    BY <1>5 DEF CommentAccountDeleted, Comment
  <2> QED BY <1>5, <2>1, RowReplaced DEF CommentAccountDeleted, Comment
<1>6. ASSUME NEW r \in CommentRequests, UpdateCommentBody(r)
      PROVE  Goal
  <2> DEFINE c == commentRequest[r].comment
             row == [comments[c] EXCEPT !.body = "text"]
  <2>1. c \in DOMAIN comments
    BY <1>6 DEF UpdateCommentBody, CommentRequestInv, Free
  <2>2. row \in Comment /\ row.story = comments[c].story /\ row.parent = comments[c].parent
    BY <2>1 DEF Comment
  <2>3. comments' = [comments EXCEPT ![c] = row]
    BY <1>6 DEF UpdateCommentBody
  <2> HIDE DEF row, c
  <2> QED BY <1>3, <2>1, <2>2, <2>3
<1>7. ASSUME NEW r \in CommentRequests, StoreCount(r)
      PROVE  Goal
  <2> DEFINE c == commentRequest[r].comment
             row == [comments[c] EXCEPT !.likeCount = commentRequest[r].count]
  <2>1. c \in DOMAIN comments /\ commentRequest[r].count \in 0..Cardinality(Users)
    BY <1>7 DEF StoreCount, CommentRequestInv, Free, CommentTypeOK
  <2>2. row \in Comment /\ row.story = comments[c].story /\ row.parent = comments[c].parent
    BY <2>1 DEF Comment
  <2>3. comments' = [comments EXCEPT ![c] = row]
    BY <1>7 DEF StoreCount
  <2> HIDE DEF row, c
  <2> QED BY <1>3, <2>1, <2>2, <2>3
<1>8. \/ UNCHANGED comments
      \/ \E u \in Users, s \in Stories : CreateComment(u, s)
      \/ \E u \in Users, s \in Stories, p \in 1..MaxComments : CreateReply(u, s, p)
      \/ \E c \in DOMAIN comments : comments' = Redacted(c)
      \/ \E u \in Users : CommentAccountDeleted(u)
      \/ \E r \in CommentRequests : UpdateCommentBody(r) \/ StoreCount(r)
  BY DEF CommentNext, commentVars, CheckAuthor, DeleteComment, CheckStory, SoftDeleteComment,
         ModerateComment, RecordNote, ToggleLike, CountLikes, CommentCutOff, CommentRequestInv, Free
<1>9. 0 \in 0..MaxComments /\ 1..MaxComments \subseteq 0..MaxComments
  BY CommentAssumption
<1> QED BY <1>1, <1>2, <1>4, <1>5, <1>6, <1>7, <1>8, <1>9 DEF CreateComment, CreateReply

SoundComment(s, rows) == s \in CommentLocals /\ (s.at # "idle" => s.comment \in rows)

\* A step that leaves every request as it was or gives it sound local variables.
LEMMA CommentMove ==
  ASSUME CommentTypeOK, CommentRequestInv,
         DOMAIN comments \subseteq DOMAIN comments',
         \/ UNCHANGED commentRequest
         \/ \E r \in CommentRequests : \E s \in CommentLocals :
              /\ commentRequest' = [commentRequest EXCEPT ![r] = s]
              /\ SoundComment(s, DOMAIN comments')
         \/ /\ commentRequest' = [q \in CommentRequests |-> commentRequest'[q]]
            /\ \A q \in CommentRequests : \/ commentRequest'[q] = commentRequest[q]
                                          \/ SoundComment(commentRequest'[q], DOMAIN comments')
  PROVE  commentRequest' \in [CommentRequests -> CommentLocals] /\ CommentRequestInv'
<1>1. commentRequest \in [CommentRequests -> CommentLocals]
  BY DEF CommentTypeOK, CommentLocals
<1>2. commentRequest' \in [CommentRequests -> CommentLocals]
  BY <1>1 DEF SoundComment
<1>3. ASSUME NEW q \in CommentRequests, commentRequest'[q].at # "idle"
      PROVE  commentRequest'[q].comment \in DOMAIN comments'
  BY <1>1, <1>3 DEF SoundComment, CommentRequestInv, Free
<1> QED BY <1>2, <1>3 DEF CommentRequestInv, Free

\* The local variables a step leaves a request with.
LEMMA CommentRequestsKept ==
  ASSUME CommentTypeOK, CommentRequestInv, [CommentNext]_commentVars
  PROVE  commentRequest' \in [CommentRequests -> CommentLocals] /\ CommentRequestInv'
<1> DEFINE Goal == commentRequest' \in [CommentRequests -> CommentLocals] /\ CommentRequestInv'
<1> USE CommentIds, NoCommentRequestTyped
<1>1. DOMAIN comments \subseteq DOMAIN comments'
  BY CommentRows
<1>2. ASSUME UNCHANGED commentRequest
      PROVE  Goal
  BY <1>1, <1>2, CommentMove
<1>3. ASSUME NEW r \in CommentRequests, Reply(r)
      PROVE  Goal
  <2>1. SoundComment(NoCommentRequest, DOMAIN comments')
    BY DEF SoundComment, NoCommentRequest
  <2> QED BY <1>1, <1>3, <2>1, CommentMove DEF Reply
<1>4. ASSUME NEW r \in CommentRequests, NEW u \in Users \union {Nobody}, NEW c \in DOMAIN comments,
             NEW step \in {"edit", "story", "delete", "note"}, Begin(r, u, c, step)
      PROVE  Goal
  <2> DEFINE s == [NoCommentRequest EXCEPT !.at = step, !.user = u, !.comment = c]
  <2>1. c \in 0..MaxComments
    BY CommentAssumption
  <2>2. s \in CommentLocals /\ s.comment = c
    BY <2>1 DEF CommentLocals, NoCommentRequest
  <2>3. commentRequest' = [commentRequest EXCEPT ![r] = s]
    BY <1>4 DEF Begin
  <2> HIDE DEF s
  <2>4. SoundComment(s, DOMAIN comments')
    BY <1>1, <2>2 DEF SoundComment
  <2> QED BY <1>1, <2>2, <2>3, <2>4, CommentMove
<1>5. ASSUME NEW r \in CommentRequests, NEW u \in Users, NEW c \in 1..MaxComments, ToggleLike(r, u, c)
      PROVE  Goal
  <2> DEFINE s == [NoCommentRequest EXCEPT !.at = "count", !.comment = c]
  <2>1. c \in DOMAIN comments /\ c \in 0..MaxComments
    BY <1>5, CommentAssumption DEF ToggleLike
  <2>2. SoundComment(s, DOMAIN comments')
    BY <1>1, <2>1 DEF SoundComment, CommentLocals, NoCommentRequest
  <2>3. ASSUME NEW q \in Counted(r, c)
        PROVE  SoundComment([commentRequest[q] EXCEPT !.late = TRUE], DOMAIN comments')
    BY <1>1, <2>1 DEF Counted, SoundComment, CommentLocals, CommentTypeOK
  <2>4. /\ commentRequest' = [q \in CommentRequests |-> commentRequest'[q]]
        /\ \A q \in CommentRequests :
             commentRequest'[q] = IF q = r THEN s
                                  ELSE IF q \in Counted(r, c) THEN [commentRequest[q] EXCEPT !.late = TRUE]
                                  ELSE commentRequest[q]
    BY <1>5 DEF ToggleLike
  <2> HIDE DEF s
  <2> QED BY <1>1, <2>2, <2>3, <2>4, CommentMove
<1>6. ASSUME NEW r \in CommentRequests, NEW read \in BOOLEAN, CountLikes(r, read)
      PROVE  Goal
  <2> DEFINE n == IF read THEN Cardinality(LikesOf(commentRequest[r].comment)) ELSE 0
             s == [commentRequest[r] EXCEPT !.at = "store", !.late = ~read, !.count = n]
  <2>1. Cardinality(LikesOf(commentRequest[r].comment)) \in 0..Cardinality(Users)
    BY LikesBound
  <2>2. n \in 0..Cardinality(Users)
    BY <2>1
  <2>3. (~read) \in BOOLEAN
    OBVIOUS
  <2>4. commentRequest[r] \in CommentLocals /\ commentRequest[r].comment \in DOMAIN comments
    BY <1>6 DEF CountLikes, CommentTypeOK, CommentLocals, CommentRequestInv, Free
  <2>5. commentRequest' = [commentRequest EXCEPT ![r] = s]
    BY <1>6 DEF CountLikes
  <2> HIDE DEF n
  <2>6. s \in CommentLocals /\ s.comment = commentRequest[r].comment
    BY <2>4, <2>2, <2>3 DEF CommentLocals
  <2> HIDE DEF s
  <2>7. SoundComment(s, DOMAIN comments')
    BY <1>1, <2>4, <2>6 DEF SoundComment
  <2> QED BY <1>1, <2>5, <2>6, <2>7, CommentMove
<1>7. ASSUME NEW u \in Users, CommentAccountDeleted(u)
      PROVE  Goal
  <2> DEFINE liked == {c \in DOMAIN comments : <<u, c>> \in likes}
  <2>1. ASSUME NEW q \in CommentRequests, commentRequest[q].at = "store"
        PROVE  SoundComment([commentRequest[q] EXCEPT !.late = TRUE], DOMAIN comments')
    BY <1>1, <2>1 DEF SoundComment, CommentLocals, CommentTypeOK, CommentRequestInv, Free
  <2>2. /\ commentRequest' = [q \in CommentRequests |-> commentRequest'[q]]
        /\ \A q \in CommentRequests :
             commentRequest'[q] = IF commentRequest[q].at = "store" /\ commentRequest[q].comment \in liked
                                  THEN [commentRequest[q] EXCEPT !.late = TRUE] ELSE commentRequest[q]
    BY <1>7 DEF CommentAccountDeleted
  <2> HIDE DEF liked
  <2> QED BY <1>1, <2>1, <2>2, CommentMove
<1>8. \/ UNCHANGED commentRequest
      \/ \E r \in CommentRequests : Reply(r)
      \/ \E r \in CommentRequests, u \in Users \union {Nobody}, c \in DOMAIN comments,
            step \in {"edit", "story", "delete", "note"} : Begin(r, u, c, step)
      \/ \E r \in CommentRequests, u \in Users, c \in 1..MaxComments : ToggleLike(r, u, c)
      \/ \E r \in CommentRequests, read \in BOOLEAN : CountLikes(r, read)
      \/ \E u \in Users : CommentAccountDeleted(u)
  <2>1. CASE UNCHANGED commentVars
    BY <2>1 DEF commentVars
  <2>2. ASSUME NEW r \in CommentRequests, NEW u \in Users, NEW c \in 1..MaxComments,
               CheckAuthor(r, u, c) \/ DeleteComment(r, u, c)
        PROVE  \E v \in Users \union {Nobody}, d \in DOMAIN comments,
                  step \in {"edit", "story", "delete", "note"} : Begin(r, v, d, step)
    BY <2>2 DEF CheckAuthor, DeleteComment
  <2>3. ASSUME NEW r \in CommentRequests, CheckStory(r)
        PROVE  \/ Reply(r)
               \/ \E v \in Users \union {Nobody}, d \in DOMAIN comments,
                     step \in {"edit", "story", "delete", "note"} : Begin(r, v, d, step)
    BY <2>3 DEF CheckStory, CommentRequestInv, Free
  <2>4. ASSUME NEW r \in CommentRequests, NEW c \in 1..MaxComments, ModerateComment(r, c)
        PROVE  \E v \in Users \union {Nobody}, d \in DOMAIN comments,
                  step \in {"edit", "story", "delete", "note"} : Begin(r, v, d, step)
    BY <2>4 DEF ModerateComment
  <2>5. \A r \in CommentRequests :
          UpdateCommentBody(r) \/ SoftDeleteComment(r) \/ RecordNote(r) \/ StoreCount(r) \/ CommentCutOff(r)
          => Reply(r)
    BY DEF UpdateCommentBody, SoftDeleteComment, RecordNote, StoreCount, CommentCutOff
  <2>6. \A u \in Users, s \in Stories :
          /\ CreateComment(u, s) => UNCHANGED commentRequest
          /\ \A p \in 1..MaxComments : CreateReply(u, s, p) => UNCHANGED commentRequest
    BY DEF CreateComment, CreateReply
  <2> QED BY <2>1, <2>2, <2>3, <2>4, <2>5, <2>6 DEF CommentNext
<1> QED BY <1>2, <1>3, <1>4, <1>5, <1>6, <1>7, <1>8

LEMMA CommentTypeInductive ==
  ASSUME CommentTypeOK, CommentRequestInv, [CommentNext]_commentVars
  PROVE  CommentTypeOK'
<1> USE CommentIds, CommentRows
<1>1. creatorOf' \in [Stories -> Users \union {Nobody}]
  <2>1. \/ UNCHANGED creatorOf
        \/ \E u \in Users : CommentAccountDeleted(u)
    BY DEF CommentNext, commentVars, CreateComment, CreateReply, CheckAuthor,
           UpdateCommentBody, DeleteComment, CheckStory, SoftDeleteComment, ModerateComment,
           RecordNote, ToggleLike, CountLikes, StoreCount, CommentCutOff
  <2>2. \A u \in Users : CommentAccountDeleted(u) => creatorOf' \in [Stories -> Users \union {Nobody}]
    BY DEF CommentTypeOK, CommentAccountDeleted
  <2> QED BY <2>1, <2>2 DEF CommentTypeOK
<1>2. likeCalls' \in 0..MaxLikes
  <2>1. \A r \in CommentRequests, u \in Users, c \in 1..MaxComments :
          ToggleLike(r, u, c) => likeCalls' \in 0..MaxLikes
    BY CommentAssumption DEF CommentTypeOK, ToggleLike
  <2>2. \/ UNCHANGED likeCalls
        \/ \E r \in CommentRequests, u \in Users, c \in 1..MaxComments : ToggleLike(r, u, c)
    BY DEF CommentNext, commentVars, CreateComment, CreateReply, CheckAuthor,
           UpdateCommentBody, DeleteComment, CheckStory, SoftDeleteComment, ModerateComment,
           RecordNote, CountLikes, StoreCount, CommentCutOff, CommentAccountDeleted
  <2> QED BY <2>1, <2>2 DEF CommentTypeOK
<1>3. likes' \subseteq Users \X DOMAIN comments'
  <2>1. \A r \in CommentRequests, u \in Users, c \in 1..MaxComments :
          ToggleLike(r, u, c) => likes' \subseteq Users \X DOMAIN comments
    BY DEF CommentTypeOK, ToggleLike
  <2>2. \/ likes' \subseteq likes
        \/ \E r \in CommentRequests, u \in Users, c \in 1..MaxComments : ToggleLike(r, u, c)
    BY DEF CommentNext, commentVars, CreateComment, CreateReply, CheckAuthor,
           UpdateCommentBody, DeleteComment, CheckStory, SoftDeleteComment, ModerateComment,
           RecordNote, CountLikes, StoreCount, CommentCutOff, CommentAccountDeleted
  <2> QED BY <2>1, <2>2 DEF CommentTypeOK
<1>4. miscounted' \subseteq DOMAIN comments'
  <2>1. \A r \in CommentRequests :
          StoreCount(r) \/ CommentCutOff(r) => miscounted' \subseteq DOMAIN comments
    BY DEF CommentTypeOK, CommentRequestInv, StoreCount, CommentCutOff, Free
  <2>2. \A u \in Users : CommentAccountDeleted(u) => miscounted' \subseteq DOMAIN comments
    BY DEF CommentTypeOK, CommentAccountDeleted
  <2>3. \/ UNCHANGED miscounted
        \/ \E r \in CommentRequests : StoreCount(r) \/ CommentCutOff(r)
        \/ \E u \in Users : CommentAccountDeleted(u)
    BY DEF CommentNext, commentVars, CreateComment, CreateReply, CheckAuthor,
           UpdateCommentBody, DeleteComment, CheckStory, SoftDeleteComment, ModerateComment,
           RecordNote, ToggleLike, CountLikes
  <2> QED BY <2>1, <2>2, <2>3 DEF CommentTypeOK
<1>5. editedLate' \subseteq DOMAIN comments'
  <2>1. \A r \in CommentRequests : UpdateCommentBody(r) => editedLate' \subseteq DOMAIN comments
    BY DEF CommentTypeOK, CommentRequestInv, UpdateCommentBody, Free
  <2>2. \/ editedLate' \subseteq editedLate
        \/ \E r \in CommentRequests : UpdateCommentBody(r)
    BY DEF CommentNext, commentVars, CreateComment, CreateReply, CheckAuthor, StoreCount,
           DeleteComment, CheckStory, SoftDeleteComment, ModerateComment, CommentCutOff,
           RecordNote, ToggleLike, CountLikes, CommentAccountDeleted
  <2> QED BY <2>1, <2>2 DEF CommentTypeOK
<1>6. commentRequest' \in [CommentRequests -> CommentLocals]
  BY CommentRequestsKept
<1> QED BY <1>1, <1>2, <1>3, <1>4, <1>5, <1>6, CommentRows DEF CommentTypeOK, CommentLocals

-----------------------------------------------------------------------------
(* Comments: the list.                                                     *)

LEMMA ParentInductive ==
  ASSUME CommentTypeOK, CommentRequestInv, ParentInv, [CommentNext]_commentVars
  PROVE  ParentInv'
<1> SUFFICES ASSUME NEW c \in DOMAIN comments', comments'[c].parent # 0
             PROVE  /\ comments'[c].parent \in DOMAIN comments'
                    /\ comments'[comments'[c].parent].parent = 0
  BY DEF ParentInv
<1>1. comments'[c].parent \in DOMAIN comments /\ comments[comments'[c].parent].parent = 0
  BY CommentRows DEF ParentInv
<1> QED BY <1>1, CommentRows

LEMMA RedactedInductive ==
  ASSUME CommentTypeOK, CommentRequestInv, RedactedInv, [CommentNext]_commentVars
  PROVE  RedactedInv'
<1> SUFFICES ASSUME NEW c \in DOMAIN comments' \ editedLate', comments'[c].status = "deleted"
             PROVE  comments'[c].body = "[deleted]"
  BY DEF RedactedInv
<1> USE CommentIds
<1>1. c \in DOMAIN comments
  BY CommentRows
<1>2. ASSUME NEW r \in CommentRequests, UpdateCommentBody(r)
      PROVE  comments'[c].body = "[deleted]"
  <2>1. commentRequest[r].comment \in DOMAIN comments
    BY <1>2 DEF UpdateCommentBody, CommentRequestInv, Free
  <2> QED BY <1>1, <1>2, <2>1 DEF UpdateCommentBody, RedactedInv, Comment
<1>3. ASSUME NEW d \in DOMAIN comments, comments' = Redacted(d), editedLate' = editedLate \ {d}
      PROVE  comments'[c].body = "[deleted]"
  <2>1. comments'[d].body = "[deleted]"
    BY <1>3 DEF Redacted, Comment
  <2>2. c # d => comments'[c] = comments[c] /\ c \notin editedLate
    BY <1>1, <1>3 DEF Redacted
  <2> QED BY <1>1, <2>1, <2>2 DEF RedactedInv
<1>4. ASSUME NEW r \in CommentRequests, StoreCount(r)
      PROVE  comments'[c].body = "[deleted]"
  <2>1. comments'[c].status = comments[c].status /\ comments'[c].body = comments[c].body
    BY <1>1, <1>4 DEF StoreCount, Comment
  <2> QED BY <1>1, <1>4, <2>1 DEF StoreCount, RedactedInv
<1>5. ASSUME NEW u \in Users, CommentAccountDeleted(u)
      PROVE  comments'[c].body = "[deleted]"
  <2>1. comments'[c].status = comments[c].status /\ comments'[c].body = comments[c].body
    BY <1>1, <1>5 DEF CommentAccountDeleted, Comment
  <2> QED BY <1>1, <1>5, <2>1 DEF CommentAccountDeleted, RedactedInv
<1>6. ASSUME comments'[c] = comments[c], UNCHANGED editedLate
      PROVE  comments'[c].body = "[deleted]"
  BY <1>1, <1>6 DEF RedactedInv
<1>7. ASSUME NEW u \in Users, NEW s \in Stories, NEW p, Insert(u, s, p), UNCHANGED editedLate
      PROVE  comments'[c].body = "[deleted]"
  <2> DEFINE new == [story |-> s, author |-> u, parent |-> p, body |-> "text",
                     status |-> "published", likeCount |-> 0]
  <2>1. comments' = Append(comments, new)
    BY <1>7 DEF Insert
  <2> HIDE DEF new
  <2>2. comments'[c] = comments[c]
    BY <1>1, <2>1 DEF CommentTypeOK
  <2> QED BY <1>6, <1>7, <2>2
<1>8. \/ UNCHANGED <<comments, editedLate>>
      \/ \E u \in Users, s \in Stories, p \in {0} \union 1..MaxComments : Insert(u, s, p) /\ UNCHANGED editedLate
      \/ \E d \in DOMAIN comments : comments' = Redacted(d) /\ editedLate' = editedLate \ {d}
      \/ \E u \in Users : CommentAccountDeleted(u)
      \/ \E r \in CommentRequests : UpdateCommentBody(r) \/ StoreCount(r)
  BY DEF CommentNext, commentVars, CreateComment, CreateReply, CheckAuthor, DeleteComment,
         CheckStory, SoftDeleteComment, ModerateComment, RecordNote, ToggleLike, CountLikes,
         CommentCutOff, CommentRequestInv, Free
<1> QED BY <1>1, <1>2, <1>3, <1>4, <1>5, <1>6, <1>7, <1>8

-----------------------------------------------------------------------------
(* Comments: the counters.                                                 *)

\* Request q is going to store the number of c's likes.
Counting(q, c) == commentRequest[q].at \in {"count", "store"} /\ commentRequest[q].comment = c

\* LikeCountRight for a comment whose row, likes and counting requests a step
\* leaves alone.
LEMMA CounterUntouched ==
  ASSUME LikeCountRight, NEW c \in DOMAIN comments \ miscounted,
         comments'[c].likeCount = comments[c].likeCount,
         LikesOf(c)' = LikesOf(c),
         \A q \in CommentRequests : Counting(q, c) => Counting(q, c)'
  PROVE  \/ comments'[c].likeCount = Cardinality(LikesOf(c)')
         \/ \E q \in CommentRequests : Counting(q, c)'
BY DEF LikeCountRight, Counting

LEMMA CountInductive ==
  ASSUME CommentTypeOK, CommentRequestInv, CountInv, [CommentNext]_commentVars
  PROVE  CountInv'
<1> SUFFICES ASSUME NEW q \in CommentRequests, NEW d, commentRequest'[q].comment = d,
                    commentRequest'[q].at = "store", ~commentRequest'[q].late
             PROVE  commentRequest'[q].count = Cardinality(LikesOf(d)')
  BY DEF CountInv, LikesOf
<1> DEFINE Goal == commentRequest'[q].count = Cardinality(LikesOf(d)')
<1>1. commentRequest \in [CommentRequests -> CommentLocals]
  BY DEF CommentTypeOK, CommentLocals
<1>2. ASSUME commentRequest'[q] = commentRequest[q],
             LikesOf(d)' = LikesOf(d)
      PROVE  Goal
  <2>1. commentRequest[q].count = Cardinality(LikesOf(d))
    BY <1>2 DEF CountInv
  <2> QED BY <1>2, <2>1
<1>3. ASSUME NEW r \in CommentRequests, NEW read \in BOOLEAN, CountLikes(r, read)
      PROVE  Goal
  <2>1. CASE q = r
    <3>1. read /\ commentRequest'[q].comment = commentRequest[q].comment
      BY <1>1, <1>3, <2>1 DEF CountLikes, CommentLocals
    <3>2. commentRequest'[q].count = Cardinality(LikesOf(d))
      BY <1>1, <1>3, <2>1, <3>1 DEF CountLikes, CommentLocals
    <3> QED BY <1>3, <3>1, <3>2 DEF LikesOf, CountLikes
  <2>2. CASE q # r
    BY <1>1, <1>2, <1>3, <2>2 DEF CountLikes, LikesOf
  <2> QED BY <2>1, <2>2
<1>4. ASSUME NEW r \in CommentRequests, NEW u \in Users, NEW c \in 1..MaxComments, ToggleLike(r, u, c)
      PROVE  Goal
  <2>1. commentRequest'[q] = IF q = r THEN [NoCommentRequest EXCEPT !.at = "count", !.comment = c]
                             ELSE IF q \in Counted(r, c) THEN [commentRequest[q] EXCEPT !.late = TRUE]
                             ELSE commentRequest[q]
    BY <1>4 DEF ToggleLike
  <2>2. q # r
    BY <2>1 DEF NoCommentRequest
  <2>3. q \notin Counted(r, c)
    BY <1>1, <2>1, <2>2 DEF CommentLocals
  <2>4. commentRequest'[q] = commentRequest[q] /\ commentRequest[q].comment # c
    BY <2>1, <2>2, <2>3 DEF Counted
  <2>5. LikesOf(d)' = LikesOf(d)
    BY <1>4, <2>4 DEF ToggleLike, LikesOf
  <2> QED BY <1>2, <2>4, <2>5
<1>5. ASSUME NEW u \in Users, CommentAccountDeleted(u)
      PROVE  Goal
  <2> DEFINE liked == {c \in DOMAIN comments : <<u, c>> \in likes}
  <2>1. commentRequest'[q] = IF commentRequest[q].at = "store" /\ commentRequest[q].comment \in liked
                             THEN [commentRequest[q] EXCEPT !.late = TRUE] ELSE commentRequest[q]
    BY <1>5 DEF CommentAccountDeleted
  <2>2. ~(commentRequest[q].at = "store" /\ commentRequest[q].comment \in liked)
    BY <1>1, <2>1 DEF CommentLocals
  <2>3. commentRequest'[q] = commentRequest[q] /\ d \notin liked /\ d \in DOMAIN comments
    BY <2>1, <2>2 DEF CommentRequestInv, Free
  <2>4. <<u, d>> \notin likes
    BY <2>3
  <2>5. \A x \in likes : x = <<x[1], x[2]>>
    BY DEF CommentTypeOK
  <2>6. \A x \in LikesOf(d) : x[1] # u
    BY <2>4, <2>5 DEF LikesOf
  <2>7. LikesOf(d)' = LikesOf(d)
    BY <1>5, <2>6 DEF CommentAccountDeleted, LikesOf
  <2> QED BY <1>2, <2>3, <2>7
<1>6. ASSUME UNCHANGED likes, commentRequest'[q] = commentRequest[q]
      PROVE  Goal
  BY <1>2, <1>6 DEF LikesOf
<1>7. \/ UNCHANGED likes /\ commentRequest'[q] = commentRequest[q]
      \/ \E r \in CommentRequests, read \in BOOLEAN : CountLikes(r, read)
      \/ \E r \in CommentRequests, u \in Users, c \in 1..MaxComments : ToggleLike(r, u, c)
      \/ \E u \in Users : CommentAccountDeleted(u)
  <2> DEFINE Same == UNCHANGED likes /\ commentRequest'[q] = commentRequest[q]
  <2>1. ASSUME NEW r \in CommentRequests, UNCHANGED likes, Reply(r)
        PROVE  Same
    BY <1>1, <2>1 DEF Reply, NoCommentRequest
  <2>2. ASSUME NEW r \in CommentRequests, NEW u, NEW c, NEW step \in {"edit", "story", "delete", "note"},
               UNCHANGED likes, Begin(r, u, c, step)
        PROVE  Same
    BY <1>1, <2>2 DEF Begin, NoCommentRequest
  <2> HIDE DEF Same
  <2>3. ASSUME NEW r \in CommentRequests, CheckStory(r)
        PROVE  Same
    BY <2>1, <2>2, <2>3 DEF CheckStory
  <2>4. ASSUME NEW r \in CommentRequests,
               \/ UpdateCommentBody(r) \/ SoftDeleteComment(r) \/ RecordNote(r)
               \/ StoreCount(r) \/ CommentCutOff(r)
        PROVE  Same
    <3>1. UNCHANGED likes /\ Reply(r)
      BY <2>4 DEF UpdateCommentBody, SoftDeleteComment, RecordNote, StoreCount, CommentCutOff
    <3> QED BY <2>1, <3>1
  <2>5. ASSUME NEW r \in CommentRequests, NEW u \in Users, NEW c \in 1..MaxComments,
               CheckAuthor(r, u, c) \/ DeleteComment(r, u, c)
        PROVE  Same
    <3>1. /\ UNCHANGED likes
          /\ \E v \in Users \union {Nobody}, step \in {"edit", "story", "delete", "note"} :
               Begin(r, v, c, step)
      BY <2>5 DEF CheckAuthor, DeleteComment
    <3> QED BY <2>2, <3>1
  <2>6. ASSUME NEW r \in CommentRequests, NEW c \in 1..MaxComments, ModerateComment(r, c)
        PROVE  Same
    BY <2>2, <2>6 DEF ModerateComment
  <2>7. ASSUME UNCHANGED <<likes, commentRequest>>
        PROVE  Same
    BY <2>7 DEF Same
  <2>8. \A u \in Users, s \in Stories :
          /\ CreateComment(u, s) => UNCHANGED <<likes, commentRequest>>
          /\ \A p \in 1..MaxComments : CreateReply(u, s, p) => UNCHANGED <<likes, commentRequest>>
    BY DEF CreateComment, CreateReply
  <2>9. UNCHANGED commentVars => UNCHANGED <<likes, commentRequest>>
    BY DEF commentVars
  <2> QED BY <2>3, <2>4, <2>5, <2>6, <2>7, <2>8, <2>9 DEF CommentNext, Same
<1> QED BY <1>3, <1>4, <1>5, <1>6, <1>7

LEMMA LikeCountInductive ==
  ASSUME CommentTypeOK, CommentRequestInv, CountInv, LikeCountRight, [CommentNext]_commentVars
  PROVE  LikeCountRight'
<1> SUFFICES ASSUME NEW c \in DOMAIN comments' \ miscounted'
             PROVE  \/ comments'[c].likeCount = Cardinality(LikesOf(c)')
                    \/ \E q \in CommentRequests : Counting(q, c)'
  BY DEF LikeCountRight, LikesOf, Counting
<1> DEFINE Goal == \/ comments'[c].likeCount = Cardinality(LikesOf(c)')
                   \/ \E q \in CommentRequests : Counting(q, c)'
<1> USE CommentIds
<1>1. commentRequest \in [CommentRequests -> CommentLocals]
  BY DEF CommentTypeOK, CommentLocals
<1>2. ASSUME c \in DOMAIN comments \ miscounted,
             comments'[c].likeCount = comments[c].likeCount, UNCHANGED likes,
             \A q \in CommentRequests : Counting(q, c) => Counting(q, c)'
      PROVE  Goal
  <2>1. LikesOf(c)' = LikesOf(c)
    BY <1>2 DEF LikesOf
  <2> QED BY <1>2, <2>1, CounterUntouched
<1> HIDE DEF Goal
\* A new comment has no likes.
<1>3. ASSUME c \notin DOMAIN comments, UNCHANGED likes
      PROVE  Goal
  <2>1. LikesOf(c)' = {}
    BY <1>3 DEF LikesOf, CommentTypeOK
  <2>2. comments'[c].likeCount = 0
    BY <1>3, CommentRows
  <2> QED BY <2>1, <2>2, FS_EmptySet DEF Goal
<1>4. ASSUME NEW r \in CommentRequests, NEW u \in Users, NEW d \in 1..MaxComments, ToggleLike(r, u, d)
      PROVE  Goal
  <2>1. \A q \in CommentRequests :
          commentRequest'[q] = IF q = r THEN [NoCommentRequest EXCEPT !.at = "count", !.comment = d]
                               ELSE IF q \in Counted(r, d) THEN [commentRequest[q] EXCEPT !.late = TRUE]
                               ELSE commentRequest[q]
    BY <1>4 DEF ToggleLike
  <2>2. CASE c = d
    <3>1. Counting(r, c)'
      BY <2>1, <2>2 DEF Counting, NoCommentRequest
    <3> QED BY <3>1 DEF Goal
  <2>3. CASE c # d
    <3>1. LikesOf(c)' = LikesOf(c)
      BY <1>4, <2>3 DEF ToggleLike, LikesOf
    <3>2. c \in DOMAIN comments \ miscounted /\ comments'[c].likeCount = comments[c].likeCount
      BY <1>4 DEF ToggleLike
    <3>3. ASSUME NEW q \in CommentRequests, Counting(q, c)
          PROVE  Counting(q, c)'
      <4>1. q # r
        BY <1>4, <3>3 DEF ToggleLike, Free, Counting
      <4>2. /\ commentRequest'[q].at = commentRequest[q].at
            /\ commentRequest'[q].comment = commentRequest[q].comment
        BY <1>1, <2>1, <4>1 DEF CommentLocals
      <4> QED BY <3>3, <4>2 DEF Counting
    <3> QED BY <3>1, <3>2, <3>3, CounterUntouched DEF Goal
  <2> QED BY <2>2, <2>3
<1>5. ASSUME NEW r \in CommentRequests, NEW read \in BOOLEAN, CountLikes(r, read)
      PROVE  Goal
  <2>1. ASSUME NEW q \in CommentRequests, Counting(q, c)
        PROVE  Counting(q, c)'
    BY <1>1, <1>5, <2>1 DEF CountLikes, Counting, CommentLocals
  <2> QED BY <1>2, <1>5, <2>1 DEF CountLikes
\* The number stored is right unless a like overtook it.
<1>6. ASSUME NEW r \in CommentRequests, StoreCount(r)
      PROVE  Goal
  <2> DEFINE d == commentRequest[r].comment
  <2>1. d \in DOMAIN comments /\ commentRequest[r].at = "store"
    BY <1>6 DEF StoreCount, CommentRequestInv, Free
  <2>2. CASE c = d
    <3>1. ~commentRequest[r].late
      BY <1>6, <2>2 DEF StoreCount
    <3>2. commentRequest[r].count = Cardinality(LikesOf(c))
      BY <2>1, <2>2, <3>1 DEF CountInv
    <3>3. comments'[c].likeCount = commentRequest[r].count
      BY <1>6, <2>1, <2>2 DEF StoreCount, Comment
    <3>4. LikesOf(c)' = LikesOf(c)
      BY <1>6 DEF StoreCount, LikesOf
    <3> QED BY <3>2, <3>3, <3>4 DEF Goal
  <2>3. CASE c # d
    <3>1. /\ c \in DOMAIN comments \ miscounted /\ comments'[c].likeCount = comments[c].likeCount
          /\ UNCHANGED likes
      BY <1>6, <2>3 DEF StoreCount
    <3>2. ASSUME NEW q \in CommentRequests, Counting(q, c)
          PROVE  Counting(q, c)'
      BY <1>1, <1>6, <2>3, <3>2 DEF StoreCount, Reply, Counting
    <3> QED BY <1>2, <3>1, <3>2
  <2> QED BY <2>2, <2>3
<1>7. ASSUME NEW r \in CommentRequests, CommentCutOff(r)
      PROVE  Goal
  <2>1. /\ c \in DOMAIN comments \ miscounted /\ comments'[c].likeCount = comments[c].likeCount
        /\ UNCHANGED likes
    BY <1>7 DEF CommentCutOff
  <2>2. ASSUME NEW q \in CommentRequests, Counting(q, c)
        PROVE  Counting(q, c)'
    <3>1. q # r
      BY <1>7, <2>2 DEF CommentCutOff, Counting
    <3> QED BY <1>1, <1>7, <2>2, <3>1 DEF CommentCutOff, Reply, Counting
  <2> QED BY <1>2, <2>1, <2>2
<1>8. ASSUME NEW u \in Users, CommentAccountDeleted(u)
      PROVE  Goal
  <2>1. c \in DOMAIN comments \ miscounted /\ <<u, c>> \notin likes
    BY <1>8 DEF CommentAccountDeleted
  <2>2. \A x \in likes : x = <<x[1], x[2]>>
    BY DEF CommentTypeOK
  <2>3. LikesOf(c)' = LikesOf(c)
    BY <1>8, <2>1, <2>2 DEF CommentAccountDeleted, LikesOf
  <2>4. comments'[c].likeCount = comments[c].likeCount
    BY <1>8, <2>1 DEF CommentAccountDeleted, Comment
  <2>5. ASSUME NEW q \in CommentRequests, Counting(q, c)
        PROVE  Counting(q, c)'
    <3>1. /\ commentRequest'[q].at = commentRequest[q].at
          /\ commentRequest'[q].comment = commentRequest[q].comment
      BY <1>1, <1>8 DEF CommentAccountDeleted, CommentLocals
    <3> QED BY <2>5, <3>1 DEF Counting
  <2> QED BY <2>1, <2>3, <2>4, <2>5, CounterUntouched DEF Goal
<1>9. ASSUME NEW d \in DOMAIN comments, comments' = Redacted(d)
      PROVE  c \in DOMAIN comments /\ comments'[c].likeCount = comments[c].likeCount
  BY <1>9 DEF Redacted, Comment
\* The other requests that take a step are not counting.
<1>10. ASSUME NEW r \in CommentRequests, commentRequest[r].at \notin {"count", "store"},
              \A q \in CommentRequests \ {r} : commentRequest'[q] = commentRequest[q],
              UNCHANGED <<likes, miscounted>>,
              \/ UNCHANGED comments
              \/ \E d \in DOMAIN comments : comments' = Redacted(d)
              \/ UpdateCommentBody(r)
       PROVE  Goal
  <2>1. c \in DOMAIN comments \ miscounted /\ comments'[c].likeCount = comments[c].likeCount
    <3>1. CASE UNCHANGED comments
      BY <1>10, <3>1
    <3>2. CASE \E d \in DOMAIN comments : comments' = Redacted(d)
      BY <1>9, <1>10, <3>2
    <3>3. CASE UpdateCommentBody(r)
      BY <1>10, <3>3 DEF UpdateCommentBody, Comment
    <3> QED BY <1>10, <3>1, <3>2, <3>3
  <2>2. ASSUME NEW q \in CommentRequests, Counting(q, c)
        PROVE  Counting(q, c)'
    BY <1>10, <2>2 DEF Counting
  <2> QED BY <1>2, <1>10, <2>1, <2>2
<1>11. ASSUME UNCHANGED <<likes, miscounted, commentRequest>>, UNCHANGED comments \/ c \notin DOMAIN comments
              \/ comments'[c] = comments[c]
       PROVE  Goal
  BY <1>2, <1>3, <1>11 DEF Counting
<1>12. ASSUME NEW u \in Users, NEW s \in Stories, NEW p, Insert(u, s, p), c \in DOMAIN comments
       PROVE  comments'[c] = comments[c]
  <2> DEFINE new == [story |-> s, author |-> u, parent |-> p, body |-> "text",
                     status |-> "published", likeCount |-> 0]
  <2>1. comments' = Append(comments, new)
    BY <1>12 DEF Insert
  <2> HIDE DEF new
  <2> QED BY <1>12, <2>1 DEF CommentTypeOK
<1>13. ASSUME NEW u \in Users, NEW s \in Stories,
              CreateComment(u, s) \/ \E p \in 1..MaxComments : CreateReply(u, s, p)
       PROVE  Goal
  <2>1. /\ UNCHANGED <<likes, miscounted, commentRequest>>
        /\ \E p \in {0} \union 1..MaxComments : Insert(u, s, p)
    BY <1>13 DEF CreateComment, CreateReply
  <2> QED BY <1>11, <1>12, <2>1
<1>14. ASSUME NEW r \in CommentRequests, NEW u \in Users, NEW d \in 1..MaxComments,
              CheckAuthor(r, u, d) \/ DeleteComment(r, u, d)
       PROVE  Goal
  BY <1>1, <1>10, <1>14 DEF CheckAuthor, DeleteComment, Free, Begin
<1>15. ASSUME NEW r \in CommentRequests,
              CheckStory(r) \/ SoftDeleteComment(r) \/ RecordNote(r) \/ UpdateCommentBody(r)
       PROVE  Goal
  <2>1. commentRequest[r].at \notin {"count", "store"} /\ UNCHANGED <<likes, miscounted>>
    BY <1>15 DEF CheckStory, SoftDeleteComment, RecordNote, UpdateCommentBody
  <2>2. \A q \in CommentRequests \ {r} : commentRequest'[q] = commentRequest[q]
    BY <1>1, <1>15 DEF CheckStory, SoftDeleteComment, RecordNote, UpdateCommentBody, Reply, Begin
  <2>3. \/ UNCHANGED comments
        \/ \E d \in DOMAIN comments : comments' = Redacted(d)
        \/ UpdateCommentBody(r)
    BY <1>15 DEF CheckStory, SoftDeleteComment, RecordNote, CommentRequestInv, Free
  <2> QED BY <1>10, <2>1, <2>2, <2>3
<1>16. ASSUME UNCHANGED commentVars
       PROVE  Goal
  BY <1>11, <1>16 DEF commentVars
<1>17. ASSUME NEW r \in CommentRequests, NEW d \in 1..MaxComments, ModerateComment(r, d)
       PROVE  Goal
  BY <1>1, <1>10, <1>17 DEF ModerateComment, Free, Begin
<1>18. Goal
  BY <1>4, <1>5, <1>6, <1>7, <1>8, <1>13, <1>14, <1>15, <1>16, <1>17 DEF CommentNext
<1> QED BY <1>18 DEF Goal

LEMMA CommentInvariant == CommentSpec => [](CommentTypeOK /\ CommentInv)
<1>1. CommentInit => CommentTypeOK /\ CommentInv
  BY NoCommentRequestTyped, EmptySeq, CommentAssumption
     DEF CommentInit, CommentTypeOK, CommentInv, CommentRequestInv, ParentInv, RedactedInv, CountInv,
         LikeCountRight, CommentLocals, Free, NoCommentRequest
<1>2. CommentTypeOK /\ CommentInv /\ [CommentNext]_commentVars => CommentTypeOK' /\ CommentInv'
  BY CommentTypeInductive, CommentRequestsKept, ParentInductive, RedactedInductive, CountInductive,
     LikeCountInductive DEF CommentInv
<1> QED BY <1>1, <1>2, PTL DEF CommentSpec

\* The tables and the requests of comments stay within their types: a like is a
\* like of an existing comment, a counter at most the number of users.
THEOREM CommentTypeCorrect == CommentSpec => []CommentTypeOK
BY CommentInvariant, PTL

\* Every comment is listed under exactly one story, whatever story_id its reply
\* came with, and a deleted one without its text.
THEOREM ThreadsComplete == CommentSpec => []CommentsListed
<1>1. CommentTypeOK /\ CommentInv => CommentsListed
  <2> SUFFICES ASSUME CommentTypeOK, CommentInv, NEW c \in DOMAIN comments
               PROVE  /\ \E s \in Stories : \A t \in Stories : c \in ListComments(t) <=> t = s
                      /\ comments[c].status = "deleted" /\ c \notin editedLate
                         => comments[c].body = "[deleted]"
    BY DEF CommentsListed
  <2> USE CommentIds
  <2>1. CASE comments[c].parent = 0
    <3>1. comments[c].story \in Stories
      BY DEF Comment
    <3>2. ASSUME NEW t \in Stories
          PROVE  c \in ListComments(t) <=> t = comments[c].story
      BY <2>1 DEF ListComments, RepliesOf, TopLevel
    <3> QED BY <3>1, <3>2 DEF CommentInv, RedactedInv
  <2>2. CASE comments[c].parent # 0
    <3> DEFINE p == comments[c].parent
    <3>1. p \in DOMAIN comments /\ comments[p].parent = 0
      BY <2>2 DEF CommentInv, ParentInv
    <3>2. comments[p].story \in Stories
      BY <3>1 DEF Comment
    <3>3. ASSUME NEW t \in Stories
          PROVE  c \in ListComments(t) <=> t = comments[p].story
      BY <2>2, <3>1 DEF ListComments, RepliesOf, TopLevel
    <3> QED BY <3>2, <3>3 DEF CommentInv, RedactedInv
  <2> QED BY <2>1, <2>2
<1> QED BY <1>1, CommentInvariant, PTL

\* A like counter that nobody is about to store, and whose last number was
\* neither overtaken nor lost, is the number of likes.
THEOREM LikesCounted == CommentSpec => []LikeCountRight
BY CommentInvariant, PTL DEF CommentInv
=============================================================================
