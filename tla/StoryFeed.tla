----------------------------- MODULE StoryFeed -----------------------------
(***************************************************************************)
(* Youth stories: submission with media, moderation, likes and saves, and  *)
(* what the app's screens show of them.                                    *)
(*                                                                         *)
(* A step is one SQL statement.  Submitting a story and toggling a like    *)
(* take several, and other requests run between them.                      *)
(***************************************************************************)
EXTENDS Accounts, Naturals, Sequences, FiniteSets

CONSTANTS
  MediaIds,      \* rows of media_assets
  StoryRequests, \* concurrent CreateStory, ToggleLike and ToggleSave requests
  ScreenLimit,   \* LIMIT 50 of the lists
  MaxStories,    \* bound: rows of stories
  MaxToggles     \* bound: toggles

ASSUME StoryAssumption == MaxStories \in Nat /\ MaxToggles \in Nat

VARIABLES
  stories,       \* table stories, in the order of created_at
  linkedTo,      \* media_assets.entity_id: a story, 0 if unlinked, Elsewhere, Gone
  interactions,  \* table story_interactions
  storyRequest,
  \* History, read by the properties and the bounds only.
  wanted,        \* the media a story was submitted with
  broken,        \* stories whose submission was cut off or failed to link
  moved,         \* media an administrator linked to something or deleted
  flips,         \* toggles answered "toggled" since the account was last deleted
  toggles

storyVars == <<stories, linkedTo, interactions, storyRequest, wanted, broken, moved, flips, toggles>>

-----------------------------------------------------------------------------
Kinds == {"like", "save"}

Story == [creator : Users \union {Nobody}, status : {"pending", "approved", "rejected"}]

\* entity_type 'destination' or 'event': not a story.
Elsewhere == MaxStories + 1

\* The row is deleted.
Gone == MaxStories + 2

Interactions == Users \X (1..MaxStories) \X Kinds

NoStoryRequest == [at |-> "idle", user |-> Nobody, story |-> 0, kind |-> "like", media |-> {}]

StoryTypeOK ==
  /\ stories \in Seq(Story) /\ Len(stories) <= MaxStories
  /\ linkedTo \in [MediaIds -> 0..Gone]
  /\ interactions \subseteq Interactions
  /\ storyRequest \in [StoryRequests ->
       [at : {"idle", "link", "insert"}, user : Users \union {Nobody}, story : 0..MaxStories,
        kind : Kinds, media : SUBSET MediaIds]]
  /\ wanted \in Seq(SUBSET MediaIds) /\ Len(wanted) = Len(stories)
  /\ broken \subseteq DOMAIN stories
  /\ moved \subseteq MediaIds
  /\ flips \in [Interactions -> {0, 1}]
  /\ toggles \in 0..MaxToggles

StoryInit ==
  /\ stories = <<>>
  /\ linkedTo = [m \in MediaIds |-> 0]
  /\ interactions = {}
  /\ storyRequest = [r \in StoryRequests |-> NoStoryRequest]
  /\ wanted = <<>>
  /\ broken = {}
  /\ moved = {}
  /\ flips = [x \in Interactions |-> 0]
  /\ toggles = 0

Idle(r) == storyRequest[r].at = "idle"

Answer(r) == storyRequest' = [storyRequest EXCEPT ![r] = NoStoryRequest]

-----------------------------------------------------------------------------
(* Submission and moderation.                                              *)

\* INSERT .. status 'pending' ..
CreateStory(r, u, media) ==
  /\ Idle(r)
  /\ Len(stories) < MaxStories
  /\ stories' = Append(stories, [creator |-> u, status |-> "pending"])
  /\ wanted' = Append(wanted, media)
  /\ storyRequest' = [storyRequest EXCEPT ![r] =
       [NoStoryRequest EXCEPT !.at = "link", !.user = u, !.story = Len(stories) + 1, !.media = media]]
  /\ UNCHANGED <<linkedTo, interactions, broken, moved, flips, toggles>>

\* Mutant: a medium is taken from the story that has it.
LinkAnyMedia(r, m) ==
  /\ storyRequest[r].at = "link"
  /\ m \in storyRequest[r].media
  /\ linkedTo' = [linkedTo EXCEPT ![m] = storyRequest[r].story]
  /\ storyRequest' = [storyRequest EXCEPT ![r] =
       [storyRequest[r] EXCEPT !.media = storyRequest[r].media \ {m}]]
  /\ UNCHANGED <<stories, interactions, wanted, broken, moved, flips, toggles>>

\* .. then one UPDATE .. WHERE entity_type = 'unlinked' for each medium, of
\* whoever uploaded it; one linked already, or deleted, is passed over in silence.
LinkMedia(r, m) ==
  /\ storyRequest[r].at = "link"
  /\ m \in storyRequest[r].media
  /\ linkedTo' = IF linkedTo[m] = 0 THEN [linkedTo EXCEPT ![m] = storyRequest[r].story] ELSE linkedTo
  /\ storyRequest' = [storyRequest EXCEPT ![r] =
       [storyRequest[r] EXCEPT !.media = storyRequest[r].media \ {m}]]
  /\ UNCHANGED <<stories, interactions, wanted, broken, moved, flips, toggles>>

\* Its failure is not looked at: the medium stays unlinked.
LinkFails(r, m) ==
  /\ storyRequest[r].at = "link"
  /\ m \in storyRequest[r].media
  /\ broken' = broken \union {storyRequest[r].story}
  /\ storyRequest' = [storyRequest EXCEPT ![r] =
       [storyRequest[r] EXCEPT !.media = storyRequest[r].media \ {m}]]
  /\ UNCHANGED <<stories, linkedTo, interactions, wanted, moved, flips, toggles>>

StoryCreated(r) ==
  /\ storyRequest[r].at = "link"
  /\ storyRequest[r].media = {}
  /\ Answer(r)
  /\ UNCHANGED <<stories, linkedTo, interactions, wanted, broken, moved, flips, toggles>>

\* linkMedia of destinations and events takes a medium from wherever it is.
RelinkMedia(m) ==
  /\ linkedTo[m] # Gone
  /\ linkedTo' = [linkedTo EXCEPT ![m] = Elsewhere]
  /\ moved' = moved \union {m}
  /\ UNCHANGED <<stories, interactions, storyRequest, wanted, broken, flips, toggles>>

\* MediaHandler.Delete: whatever the medium is linked to.
DeleteMedia(m) ==
  /\ linkedTo[m] # Gone
  /\ linkedTo' = [linkedTo EXCEPT ![m] = Gone]
  /\ moved' = moved \union {m}
  /\ UNCHANGED <<stories, interactions, storyRequest, wanted, broken, flips, toggles>>

\* DestinationsHandler.Delete: all media linked to the destination.
DeleteDestinationMedia(linked) ==
  /\ linked \subseteq {m \in MediaIds : linkedTo[m] = Elsewhere}
  /\ linkedTo' = [m \in MediaIds |-> IF m \in linked THEN Gone ELSE linkedTo[m]]
  /\ moved' = moved \union linked
  /\ UNCHANGED <<stories, interactions, storyRequest, wanted, broken, flips, toggles>>

\* Whatever the status was; every action but "approve" rejects.
Moderate(s, action) ==
  /\ s \in DOMAIN stories
  /\ stories' = [stories EXCEPT ![s] =
       [stories[s] EXCEPT !.status = IF action = "approve" THEN "approved" ELSE "rejected"]]
  /\ UNCHANGED <<linkedTo, interactions, storyRequest, wanted, broken, moved, flips, toggles>>

-----------------------------------------------------------------------------
(* Likes and saves.                                                        *)

Flip(x) == flips' = [flips EXCEPT ![x] = 1 - flips[x]]

\* toggleInteraction's DELETE: it is the answer if it deleted a row ..
ToggleDelete(r, u, s, kind) ==
  LET x == <<u, s, kind>> IN
  /\ Idle(r)
  /\ toggles < MaxToggles
  /\ toggles' = toggles + 1
  /\ s \in DOMAIN stories
  /\ IF x \in interactions
     THEN interactions' = interactions \ {x} /\ Flip(x) /\ UNCHANGED storyRequest
     ELSE /\ storyRequest' = [storyRequest EXCEPT ![r] =
               [NoStoryRequest EXCEPT !.at = "insert", !.user = u, !.story = s, !.kind = kind]]
          /\ UNCHANGED <<interactions, flips>>
  /\ UNCHANGED <<stories, linkedTo, wanted, broken, moved>>

\* Mutant: INSERT .. ON CONFLICT DO NOTHING, answered "toggled" in any case.
ToggleInsertQuietly(r) ==
  LET x == <<storyRequest[r].user, storyRequest[r].story, storyRequest[r].kind>> IN
  /\ storyRequest[r].at = "insert"
  /\ Answer(r)
  /\ interactions' = interactions \union {x}
  /\ Flip(x)
  /\ UNCHANGED <<stories, linkedTo, wanted, broken, moved, toggles>>

\* .. and otherwise the INSERT, refused by the unique index if another request
\* of the user was faster: 500, nothing toggled.
ToggleInsert(r) ==
  LET x == <<storyRequest[r].user, storyRequest[r].story, storyRequest[r].kind>> IN
  /\ storyRequest[r].at = "insert"
  /\ Answer(r)
  /\ IF x \in interactions THEN UNCHANGED <<interactions, flips>>
     ELSE interactions' = interactions \union {x} /\ Flip(x)
  /\ UNCHANGED <<stories, linkedTo, wanted, broken, moved, toggles>>

-----------------------------------------------------------------------------
(* Faults and account deletion.                                            *)

\* Time limit, client gone, restart.
StoryCutOff(r) ==
  /\ ~Idle(r)
  /\ Answer(r)
  /\ broken' = IF storyRequest[r].media # {} THEN broken \union {storyRequest[r].story} ELSE broken
  /\ UNCHANGED <<stories, linkedTo, interactions, wanted, moved, flips, toggles>>

\* Stories are anonymised, interactions deleted, media left as they are.
StoryAccountDeleted(u) ==
  /\ stories' = [s \in DOMAIN stories |->
       IF stories[s].creator = u THEN [stories[s] EXCEPT !.creator = Nobody] ELSE stories[s]]
  /\ interactions' = {x \in interactions : x[1] # u}
  /\ flips' = [x \in Interactions |-> IF x[1] = u THEN 0 ELSE flips[x]]
  /\ UNCHANGED <<linkedTo, storyRequest, wanted, broken, moved, toggles>>

-----------------------------------------------------------------------------
StoryNext ==
  \/ \E r \in StoryRequests, u \in Users :
       \/ \E media \in SUBSET MediaIds : CreateStory(r, u, media)
       \/ \E s \in 1..MaxStories, kind \in Kinds : ToggleDelete(r, u, s, kind)
  \/ \E r \in StoryRequests :
       \/ \E m \in MediaIds : LinkMedia(r, m) \/ LinkFails(r, m)
       \/ StoryCreated(r)
       \/ ToggleInsert(r)
       \/ StoryCutOff(r)
  \/ \E m \in MediaIds : RelinkMedia(m) \/ DeleteMedia(m)
  \/ \E linked \in SUBSET MediaIds : DeleteDestinationMedia(linked)
  \/ \E s \in 1..MaxStories, action \in {"approve", "reject"} : Moderate(s, action)
  \/ \E u \in Users : StoryAccountDeleted(u)

StorySpec == StoryInit /\ [][StoryNext]_storyVars

-----------------------------------------------------------------------------
(* Screens.                                                                *)

\* The newest ScreenLimit of a set of stories.
Newest(set) == {s \in set : Cardinality({t \in set : t > s}) < ScreenLimit}

\* ListEnriched: everything but rejected stories.  The author's identifier is
\* scanned into a string: one anonymised story and the answer is an error.
Feed ==
  LET listed == Newest({s \in DOMAIN stories : stories[s].status # "rejected"}) IN
  IF \E s \in listed : stories[s].creator = Nobody THEN {} ELSE listed

\* isLiked and isSaved of ListEnriched and StoryDetail; SavedStories.
IsLiked(u, s) == <<u, s, "like">> \in interactions
SavedStories(u) == {s \in DOMAIN stories : <<u, s, "save">> \in interactions}

\* The media under a story on every screen.
MediaOf(s) == {m \in MediaIds : linkedTo[m] = s}

-----------------------------------------------------------------------------
(* Properties.                                                             *)

\* What a user is shown to have liked and saved is what an odd number of
\* answered toggles left, whatever requests of theirs overlap (actions.go:96).
ToggleParity ==
  \A u \in Users, s \in DOMAIN stories :
    /\ IsLiked(u, s) <=> flips[<<u, s, "like">>] = 1
    /\ s \in SavedStories(u) <=> flips[<<u, s, "save">>] = 1

\* Every medium a story was submitted with is shown with it, or with another
\* story submitted with it, when the submission is through: concurrent
\* submissions share out the media, none is left out and none moves later, unless
\* an administrator links it elsewhere or deletes it, which no statement refuses
\* while a story shows it (actions.go:67, media.go:290, destinations.go:440).
StoryKeepsMedia ==
  /\ [][\A s \in DOMAIN stories : MediaOf(s) \ moved' \subseteq MediaOf(s)']_storyVars
  /\ [](\A s \in DOMAIN stories \ broken :
          \/ \E r \in StoryRequests : storyRequest[r].at = "link" /\ storyRequest[r].story = s
          \/ \A m \in wanted[s] \ moved :
               \E t \in DOMAIN stories : m \in wanted[t] /\ m \in MediaOf(t))

\* docs/adr/0002-pre-moderation-youth-stories.md:16: "The Youth feed
\* (`/v1/public/stories`) filters on `WHERE status = 'approved'`".
FeedShowsApproved == \A s \in Feed : stories[s].status = "approved"

-----------------------------------------------------------------------------
(* The inductive invariants behind the properties.                         *)

\* What a request under way has in its local variables.
StoryRequestInv ==
  \A r \in StoryRequests :
    /\ ~Idle(r) => storyRequest[r].user \in Users /\ storyRequest[r].story \in DOMAIN stories
    /\ storyRequest[r].at = "link" => storyRequest[r].media \subseteq wanted[storyRequest[r].story]
    /\ storyRequest[r].at # "link" => storyRequest[r].media = {}

\* Also for stories that are not there yet.
ParityInv == \A x \in Interactions : x \in interactions <=> flips[x] = 1

\* A medium is linked to a story it was submitted with, and one that is not
\* linked yet is going to be.
MediaInv ==
  \A m \in MediaIds \ moved :
    /\ linkedTo[m] # 0 => linkedTo[m] \in DOMAIN stories /\ m \in wanted[linkedTo[m]]
    /\ \A s \in DOMAIN stories \ broken : m \in wanted[s] =>
         \/ linkedTo[m] # 0
         \/ \E r \in StoryRequests : /\ storyRequest[r].at = "link"
                                     /\ storyRequest[r].story = s
                                     /\ m \in storyRequest[r].media

StoryInv == StoryRequestInv /\ ParityInv /\ MediaInv
=============================================================================
