# Verification of the ytci-go backend

TLA+ models of the backend's concurrent core, the TLC configurations that check
them on small instances, and TLAPS proofs of theorems about them for every
instance. Line references are to the repository (`src/`); `internal/` paths are
below `src/internal/`.

The backend is one Go process (`cmd/server/main.go`) over one PostgreSQL
database, Cloudflare R2 and three remote services (Expo's push API, Google
Places, Wikipedia). Almost all state is in the database, nearly every handler
talks to the connection pool without a transaction, and PostgreSQL runs at READ
COMMITTED. So **a handler is a sequence of separately committed statements**, and
what can go wrong is what happens between two of them: another request, a second
goroutine of the same worker, a request cut off by the 60 s timeout
(`internal/server/server.go:41`), a restart, or an error that is dropped. All
models take one step per SQL statement or HTTP exchange; a `tx` is one step.

## 1. Inventory

| Component | State it keeps | Operations | Hard behaviour | What makes it correct |
|---|---|---|---|---|
| Push delivery (`internal/push`, `handler/admin/push.go`) | `push_notifications`, row locks, a LISTEN connection | Schedule, Send, two goroutines (`listenPGNotify`, `cleanupTicker`), sendOne | two consumers whose row locks end with the SELECT; lost notifications; half-failed sends; crash after the claim | nothing early, no sender twice, failures not resent, scheduled is settled |
| Device tokens (`handler/expo/push_register.go`) | `push_tokens` | Register, deactivation, removal | registered again while being deactivated | only tokens Expo reported gone are switched off |
| Challenges and badges (`handler/admin/challenges.go`, `handler/expo/actions.go`, `handler/badge.go`) | `challenges`, `challenge_progress`, `badges` | Create, Update, Delete, Join, Submit, list, review | review in three statements; stale lists; anonymised rows | no badge lost or given for nothing |
| Conservation (`handler/admin/conservation.go`, `actions.go`) | `conservation_activities`, `conservation_participants`, `conservation_evidence` | Create, Update, Join, Leave, Submit, review | check-then-insert against a limit; counter kept by separate statements | limit and counter; badges as above |
| Courses (`handler/expo/courses.go`, `handler/admin/{courses,lessons,quiz,quiz_admin}.go`) | `course_enrollments` (progress and attempts as JSON), lessons, quizzes | enroll, complete lesson, submit quiz, complete, certificate | completion against lessons being edited; JSON merged by concurrent requests; certificate upload between statements | no completion missed, a completion has its badge |
| Account deletion (`handler/expo/account.go`) | rows of twenty tables, R2 objects | Delete | one transaction against requests in flight with a token that stays valid; R2 clean-up forgotten by a restart | nothing personal is left or comes back |
| Media pipeline (`handler/admin/media.go`, `internal/r2`) | `pending_media_uploads`, `media_assets`, R2 | Presign, Complete, Delete, linking by CreateStory | three-statement Complete; keys that repeat within a second | an asset has its object, an object somebody who knows it |
| Stories, comments (`handler/expo/{stories,comments}.go`, `handler/admin/{stories,comments}.go`) | `stories`, `story_interactions`, `story_comments`, like counts | create, moderate, toggle, edit, delete, list | toggles racing toggles; edits racing moderation; cached counts | deleted stays deleted, toggles are exclusive, counts agree |
| Events (`handler/admin/events.go`, `actions.go`) | `events`, attendance | Update, UpdateStatus, Attend, Leave | transition checked on a status read earlier | cancelled is final |
| Destinations, Places cache (`handler/admin/destinations.go`, `internal/places`, `handler/expo/places.go`, `internal/wikipedia`) | `destinations`, `google_places_cache`, `google_places_search_cache` | create, edit, delete, resolve a place, popular places, fill and clear the caches | requests that create the same destination; drafts created while reading; goroutines that write what they asked long ago | one destination per place, what is listed opens, an image found stays |
| Authentication (`internal/middleware/auth.go`) | JWKS cache behind a mutex, sessions | look up, refresh, verify | refresh storms, stale fallback | a withdrawn key stops being accepted while the dashboard answers |
| Rate limiter (`internal/middleware/ratelimit.go`) | map of token buckets | getClient, cleanup | eviction racing use | a client gains nothing by being forgotten |
| Report worker (`handler/admin/reportworker.go`) | `report_jobs` | listen, processJobs | its context ends after 10 s (`cmd/server/main.go:29`) | a job is finished |
| Itineraries and stops, bucket list, app opens | their tables | upsert, toggle, record | two upserts interleave; check-then-insert | one list of stops |
| Pagination (`internal/pagination`) | none | cursors | a list that changes between pages | nothing skipped or repeated |
| Profile, campaigns, feed, bulk import, dashboards, backfill, server wiring | their tables | single-statement CRUD, read-only queries, start-up | none that spans two steps | - |

Components meet in the database and in few other places: `AwardBadge` is shared
by challenges, conservation and courses; account deletion reaches into the rows
of every other component; the insert trigger on `push_notifications` wakes the
push worker for rows of `Send` as well as of `Schedule`; the middleware stands
before every handler and keeps accepting a deleted user's token.
`PROJECT.json` lists each component with its status, and each hazard at its line.

## 2. Modules

    NotificationLedger   <-- refines --  PushDelivery           MCPushDelivery           PushDeliveryProofs
    BadgeLedger          <-- refines --  ChallengeParticipation MCChallengeParticipation ChallengeProofs
                         <-- refines --  ConservationActivity   MCConservationActivity   ConservationProofs
                         <-- refines --  CourseCompletion       MCCourseCompletion       CourseProofs
    StoryFeed, CommentThread                                    MCContent                StoryProofs
    MediaLibrary                                                MCContent                MediaProofs
    StoryPages                                                  MCContent                ContentProofs
    PlaceCatalogue, PlaceDetails, EventCalendar, KeyCache,
    RateLimiter, TripPlanner                                    MCPlatform               PlatformProofs

`Accounts` declares the users that the modules of `MCContent` share.

**PushDelivery** is `push.Worker`, the admin `Send` and `Schedule` handlers, token
registration and Expo. `task[p].at` is the next statement of goroutine or request
`p`; `Query` is the worker's `SELECT .. FOR UPDATE SKIP LOCKED`, whose locks
(`locked`) last until `Drain` has read the rows; `MarkSending` is the claim,
`Resolve` the token look-up, `PostChunk`/`PostFails` one POST of a chunk,
`RecordSent`/`RecordFailed` the final UPDATE and `Deactivate` the loop over
tokens reported gone. `Listen`, `LoseConnection`, `Notified` and `Ticked` are the
two ways the worker wakes. Faults (`Faults`) are crash and restart, failing or
truncated database results, a lost LISTEN connection, an Expo call without a
usable answer, and a cut-off request. Message texts and receipts, which nothing
acts on, are left out; a token is a model value.

**NotificationLedger** is what it promises: accepted, claimed once and for all,
then handed by each sender to each device at most once. Retrying a failed send
(mutant `RecordFailedRetries`) is not an implementation of it.

**ChallengeParticipation** is the life of a challenge and of its participants'
rows, from `Create` to the three statements of `ReviewEvidence` (`Approve`,
`Lookup`, `Award`), with `DeleteAccount` turning rows anonymous. A moderator may
act at any time on whatever was ever on a screen (`shown`), so decisions are taken
on rows that have changed since. `BreakOff` is a review that ends between two
statements. `Queue` includes what a NULL `user_id` does to `rows.Scan`.

**ConservationActivity** is joining (`JoinCheck`, `JoinInsert`, `Increment`),
leaving (`Leave`, `Decrement`), a limit administrators change meanwhile, and
evidence with its review, which differs from that of challenges: the list is not
filtered, any unknown action means `in_progress`, and an activity may have no
badge. `CutOff` ends a join or leave between two statements.

**CourseCompletion** is a course with its lessons and quiz, the enrollment rows and
the two requests that may complete one, `MarkLessonComplete` and `SubmitQuiz`; both
go on to `tryCompleteCourse`, whose seven statements are steps. The JSON columns
are a set of lessons and a function from seconds to attempts, merged as `||` and
`jsonb_set` merge them. Edits of lessons, failing uploads and cut-offs come between
any two steps. A SELECT whose error is dropped goes on as the code does: a row that
could not be read after an attempt, or a course that could not (`ReadCourse`), which
completes the row without a badge.

**StoryFeed** is `CreateStory` with the linking of media, administrators who link them
elsewhere or delete them, one by one or with a destination, moderation, like and save
toggles and the feed; **CommentThread** comments, replies, edits, the three ways to
delete, and `like_count`; **MediaLibrary** Presign, the upload itself, the three
statements of `Complete`, Delete, `DeleteDestination`, which takes rows and leaves
objects, and account deletion with its clean-up goroutine;
**StoryPages** a reader who follows the cursors of the story list while it changes.

**PlaceCatalogue** is the table of destinations under its two unique indexes:
administrators, `Resolve` (`LookUpPlace`, `FetchDetails`, `InsertDraft`,
`RetryDraft`, `Refetch`), `Popular` (cached search, `MatchNearby`,
`RecheckMatches`, one `AutoCreateDraft` per place left, the fallback), and the
command that fills in place identifiers. A `Resolve` has the place it was asked for
and the one Google answered (`answer`), which need not be the same: the first is
looked up, the second inserted. `ResolveFails` is an error of the database or of
Google, or the panic over an address without a comma. `session` and `nearby` are the two kinds
of rows of the search cache, which edits clear together. **PlaceDetails** is the
other cache, whose rows `SetPlace` and the hero-image goroutines both write; a read
that fails (`read = FALSE`) is taken for a row that is not there.

**EventCalendar** is an event's status, answers and saves; the deletion of an
account is two steps, for the rows its first statements saw and for its COMMIT.
**TripPlanner** is `UpsertStops` as overlapping READ COMMITTED transactions
(a DELETE sees the rows committed when it started, and waits for those another
transaction is deleting), by the itinerary's owner or by somebody else, whose DELETE
finds nothing; the deletion of the itinerary and of its owner; and `RecordAppOpen`. **KeyCache** is `getPublicKey`, one
step under its mutex, and the second fetch of `lookupWithRefresh`; **RateLimiter**
the map of buckets, with the gap between handing out a bucket and taking its token.

**BadgeLedger** is what the three promise about badges: given for a decision in the
user's favour, and never taken back.

Variables named *history* in the modules record what happened; no action reads
them. Definitions commented *Mutant* are plausible mistakes: with the mutant in
place of the definition after it, the property `PROJECT.json` pairs it with fails.

## 3. Runs

| Run | Instance | Shows | States |
|---|---|---|---|
| `push_delivery` | 2 notifications, 1 device, both goroutines and one Send, batch 2, time 0..1, all faults | types; nothing before its time; at most once per sender; a delivered notification is never polled again; Send's rows stay with Send; refines NotificationLedger | 1.55 M |
| `push_chunks` | 1 notification, 3 devices in chunks of 2, crash, database and Expo faults | `recipient_count` never exceeds the devices reached; only reported tokens are switched off | 139 k |
| `push_settles` | 2 notifications, connection and Expo faults, fairness | every scheduled notification is settled for good; a reported token is switched off | 355 k |
| `push_status_order` | 1 notification, no fault | **violation**, finding 1 | |
| `challenges` | 2 users, 2 challenges, 2 reviews, 2 rows, list limit 1 | no approval without evidence; no award lost; refines BadgeLedger | 269 k |
| `challenge_active` | 1 user, 1 challenge | **violation**, finding 2 | |
| `challenge_queue` | 2 users, 1 challenge | **violation**, finding 3 | |
| `conservation` | 3 users, 1 activity with limit 1 or none, 2 requests, 2 reviews, 1 row | the counter is never too low; the limit is overrun by at most requests - 1; no award lost; refines BadgeLedger | 659 k |
| `courses` | 1 user, 2 requests, 2 lessons, 1 edit, 2 seconds, 1 row | a course that is done is completed or about to be; a completion has its badge if its course had one and could be read; a certificate served stays; a pass is shown; refines BadgeLedger | 1.85 M |
| `content` | seven scenarios, one per question, below | toggles count by parity; comments are listed once and redacted; `like_count`; an asset has its object, and an object is known unless a failure or a destination's deletion lost it; a page misses only stories of one second; only administrators take a medium from its story | 1.0 M |
| `feed_approved` | 1 user | **violation**, finding 4 | |
| `platform` | ten scenarios, below | a place is found or created; what is listed opens; an image is replaced by who read before it was there, or could not read; cancelled stays cancelled; answers, saves, stops and opens of a user; signing keys; rate limits | 1.6 M |

*Why these bounds are enough.* The push races need two consumers of one row and a
second row to be claimed meanwhile; a batch of two has both. A split send needs
two chunks, hence three devices at two per chunk. Two reviews, two owners and two
challenges give every overlap of decisions on one row and on different rows; a
list limit of 1 makes the limit bite. Overrunning the limit by one takes two
joins, overrunning it by two, which must not happen, would take three users.
`MaxRows`, `MaxTime` and `MaxCount` only cap what could grow for ever; the
theorems hold for all values of them. `conservation` keeps one evidence row
because `challenges` exercises lists and re-joining with the same mechanism.
`courses` needs two lessons so that one can be missing, two requests for every
overlap of `tryCompleteCourse` with itself, and two seconds for attempts of one
second and of different ones; the quiz forms lie on either side of two thirds, where
the integer percentage decides.

`content` and `platform` collect modules that share no state: `MCContent` and
`MCPlatform` extend them all, and a behaviour picks a `scenario`, which lets one
module move and leaves out the actions, users or rows that its question does not
need. The theorems of section 4 are about the modules without these restrictions.
Two requests of one or two users give
every overlap of two handlers; the scenarios that need depth instead have one
request: three comments below each other, two ticks for an upload to expire,
three stories for a page of one to be followed by two more. In `platform`: two
places of one name, so that slugs collide, and three rows when two requests resolve
them; two commands; two readers' goroutines; three saves, so that two can
overlap over the stops that a first one left; a bucket of three tokens that fills in as many
ticks as a client is kept, as 60 tokens at one per second fill within the five
minutes of `ratelimit.go:32`; four ticks, twice the TTL of a key.

Where an invariant names exceptions ("unless the requests overlapped"), a history
variable records the overlap, and no more than the overlap is excused: every one of
these exceptions is a race the code has, and the run shows that there is no other.
Symmetry is used in safety runs only.

`CHECK_DEADLOCK FALSE` everywhere: a bounded instance ends when every row is used
up, and the system itself stops when nobody asks anything of it.

*Fairness* (`FairSpec`, only for `push_settles`): weak fairness of time, of the
ticker, and of each goroutine's next statement. The Go runtime schedules runnable
goroutines, `time.Ticker` keeps firing, and statements return, with or without an
error. Nothing is assumed of administrators, devices or notifications, so the
result does not rest on LISTEN/NOTIFY. It excludes crashes and database faults,
under which the claim is false by design: after a crash behind the claim the row
stays `sending`.

## 4. What is proved

Every theorem holds for all values of the constants under the module's named
assumption: finite sets of devices, users and requests where they are counted;
positive batch, chunk, page and list sizes; NULL is no user, place or key. Three
assumptions say more. `CourseAssumption` wants a course to exist, as every request
names one. `KeyAssumption` has a positive TTL (`auth.go:111`). `LimiterAssumption`
wants a bucket to fill up before its client is removed, which the configuration
does (60 tokens at one per second, five minutes, `ratelimit.go:32`, `:104`); without
it a client would gain by being forgotten. Bounds such as `MaxRows` are any natural
numbers. TLC checked each inductive invariant on its run's
instance before it was proved.

Each invariant is proved by the same three facts, one step of the proof per action,
and a lemma on the table of rows (`StepRows`, `CommentRows`, `RowStep`, ..) that says
once what any step may do to one.

*PushDeliveryProofs.* `TypeCorrect`, `AtMostOnce`, `NeverEarly`,
`NeverPolledAgain`, `DirectStaysDirect`, `CountHonest`, `OnlyReportedOff` and
`Implementation`. The properties speak of what was delivered, the code guards by
what a goroutine holds, so `DeliveryInv` ties the two: a job in a batch was due
and this goroutine has not delivered any of it (`BatchInv`), a job being worked on
is claimed and not in the batch any more (`TaskInv`, `WorkerInv`), and what is
still to be posted has not been delivered by this sender (`PendingInv`). That the
claim precedes the first POST and that no statement reverts it does the rest.
`CountInv` and `OffInv` add what a sender has counted and heard.

*ChallengeProofs.* `TypeCorrect`, `EvidenceFirst`, `AwardKept`, `Implementation`.
`BadgeInv`: whatever was ever in the queue carries evidence (`EvidenceInv`), and a
review between its statements works on an approved pair whose owner is the one looked up or nobody (`ReviewInv`).

*ConservationProofs.* `CountIsSafe` and `OverrunBound`: the limit is compared with
a counter that is updated later, so neither property is inductive alone.
`CountNeverLow` credits the increments still to come, and `OverrunInv` counts the
joins that have passed the check as if they were in. At the check the counter is
below the limit, so participants are below the limit plus pending increments, and
increments and checked joins are different requests. `TypeCorrect`, `BadgeKept` and
`Implementation` rest on a `ReviewInv` like that of challenges.

*CourseProofs.* `TypeCorrect`, `NoCompletionMissed`, `BadgeGiven`, `PassesShown`,
`CertificateStays`, `Implementation`. `CourseInv` adds what a request has in its
local variables (`RequestInv`): the row it is to complete exists, its upload is in
the store, and its user has earned the badge of that course. The
`UPDATE .. WHERE completed_at IS NULL` and one row per user and course
(`OneRowPerUser`) make the badge follow the completion although seven statements
of two requests interleave. A completion without a badge is one whose request read no
badge name, be it that the course had none or that the SELECT failed, or was cut off.
That there is a latest passing attempt (`Latest`) is the library's least-element
theorem, applied to the seconds left.

*StoryProofs.* `ParityKept`, `MediaKept`, `ThreadsComplete`, `LikesCounted` and the
types of StoryFeed and CommentThread. Parity holds because the unique index refuses
the second insert (`ParityInv`). `MediaInv`: a medium is linked to a story it was
submitted with, and one not linked yet is still to be linked by the request that
holds it, unless an administrator linked it elsewhere or deleted it. For the list,
threads are one level deep (`ParentInv`), so each comment is reached from exactly one
story. For `like_count`, a comment that is not
`miscounted` has a request whose stored number is still to be written, or equals the
number of its likes.

*MediaProofs.* `AssetsServed`, `NoObjectForgotten` and the types. `LibraryInv` says
who may have to do with a key: whoever was handed its URL (`UrlInv`); and that a key
neither shared nor raced is used by one at a time (`OneUse`), pending, then
completed by one request, then the only asset, or erased.

*ContentProofs.* `PagesSound`, for any page size: pages are downward closed in the
order of the list (`LimitNested`, with the library's theorem that a set of numbers has
a least one), so what a
cursor passes over was given, or lies in the second the cursor was cut to.
`TypeCorrect` puts together the types of the four modules for the specification
`content` checks.

*PlatformProofs*, a part per component, each with the theorems about the component
and its inductive invariant, and the checked specification at the end:

- PlaceCatalogue: `PlacesResolved`, `ListsOpen`, `IdentifiersKept`. `UniqueInv` is
  the two indexes, from which opening what is listed follows; `ResolverInv` says
  that a request which met a duplicate of the place Google answered knows a row of it
  or a deletion; `BackfillInv` that a listed row with a place was listed by two commands.
- PlaceDetails: `ImagesKept`. A goroutine for a place that has an image by now read
  the row before, or could not (`OutdatedInv`).
- EventCalendar: `CancelledForGood`, `AnswersRecorded`, `AccountsErased`. A change
  that has read an event cancelled since is overtaken (`OvertakenInv`); a deletion
  holds all saves of its user but the late ones (`ErasingInv`).
- KeyCache: `WithdrawnKeysExpire`. A cached set expires at most a TTL after each of
  its keys was served (`ServedInv`), whichever of the two fetches stored it.
- RateLimiter: `RemovalIsSafe`. A bucket that was never forgotten would have filled
  since its client was last seen (`BudgetInv`), and a client is seen before its
  bucket is charged (`SeenInv`), so the new bucket has no more than the old one
  would.
- TripPlanner: `StopsWhole`, `OpensThrottled`. What a DELETE has not found was saved
  by a transaction that overlapped, or the DELETE was not the owner's (`SavesInv`);
  what a check has not counted is a cooldown old or was recorded by a request that overlapped (`OpensInv`).
- `TypeCorrect`, `PlacesAreFound`, `PlacesAreKept`, `RecordsAreRight`: a step of a
  scenario is a step of its component or none, so the components' specifications,
  and with them the theorems, hold of what `platform` checks.

Only model-checked: liveness (`ScheduledIsSettled`, `BadTokenIsSwitchedOff`), as the
prover does not handle fairness. Every other property of the runs that hold is a
theorem.

## 5. Findings

1. `internal/push/worker.go:115`: the claim does not look at the status again. As
   the row locks end with the SELECT, listener and ticker can hold the same
   notification, and the slower one moves it from `sent` back to `sending` and
   sends it a second time (`push_status_order`). `CONTEXT.md:94` lists the statuses
   in order. The at-most-once theorem is therefore *per sender*.
2. `internal/handler/expo/actions.go:133` and `:430`: joining and submitting accept
   draft and ended challenges (`challenge_active`), against `CONTEXT.md:54`.
3. `internal/handler/admin/challenges.go:497`: one submission of a deleted account
   ends the moderators' list at that row (`challenge_queue`), against
   `CONTEXT.md:58`.

4. `internal/handler/expo/stories.go:98`: the feed leaves out rejected stories only,
   so everybody sees a story before it is moderated (`feed_approved`), against
   `docs/adr/0002-pre-moderation-youth-stories.md:16`.

Three more disagreements have no run of their own: the first two are the exceptions
that `RecordsRight` and `AssetHasObject` name, and the passing runs show that they go
no further; the third is about a test.

5. `internal/handler/expo/actions.go:234`: two opens that overlap are both recorded, as
   each is counted before the other's INSERT (`OpensSpaced` excepts them). `CONTEXT.md:100`
   says of app opens "Deduplicated with a 5-minute cooldown to prevent double-counting
   from rapid app-switching".
6. `internal/handler/expo/account.go:78`: what a request with a token still good, or one
   under way, saves during or after the deletion of its account stays: saves of events
   (`DeletionErases` excepts them), the row of an upload whose object the clean-up
   erases (`AssetHasObject`). `CONTEXT.md:114` says account deletion is "The irreversible
   operation that deletes the Account and cleans or anonymizes the User's YTCI data", and
   that personal-only data is hard-deleted.
7. `internal/server/challenges_test.go:439`, `:462` and `:516` insert several rows of one
   user and challenge, which the unique index of
   `testdata/migrations/0005_constraints_and_badges.sql:26` refuses. The models follow
   the migrations.

Observed and not contradicted by any text:

- Challenges and conservation: a participant limit is overrun by concurrent joins;
  `GREATEST(.., 0)` (`actions.go:638`) loses the decrement of a user who leaves before
  their join has incremented, which leaves the counter too high; the scan error of
  finding 3 cuts the conservation list short (`conservation.go:226`) and makes
  `ListEnriched` answer 500 for a story whose creator is gone; evidence is accepted
  from users who never joined.
- Courses: the error of the course's SELECT is dropped (`courses.go:472`), and the row is
  completed without the badge for good, as `completed_at` is set.
- Media: deleting a destination deletes its rows of `media_assets`, those linked from a
  story among them, and leaves their objects in R2, which nothing knows any more
  (`destinations.go:440`); `Delete` of a medium does not ask whether a story shows it
  (`media.go:290`).
- Content: `like_count` of a story is never written, and that of a comment may be an
  older count; the author can put text back into a comment that was deleted;
  `StoryDetail` and `SavedStories` do not look at the status; an account deleted
  while `Complete` runs leaves an asset whose object is gone; the migrations' CHECK
  on `media_assets` does not know `unlinked`, which `Complete` inserts (the code's
  statement is modelled, the deployed schema being elsewhere).
- Places: `Resolve` looks for the place it was asked for and inserts the one Google
  answered (`places.go:260`, `:340`); where the identifiers differ, the second request
  ends in CREATE_ERROR; it panics over an address without a comma (`places.go:317`); a
  read of the cache that fails counts as a row not found (`cache.go:35`), and the image
  that is there is replaced; the suffix of `Resolve`'s second slug comes from the zero time and is
  constant (`places.go:353`), so a third destination of one name is an error;
  `autoCreateDraftFromNearby` returns an error when its second INSERT succeeded
  (`places.go:673`), and for a place that has a destination (`places.go:683`
  scans nine of twelve columns), so neither is listed; `SetPlace` writes NULL over
  the hero image; any failure of Wikipedia is recorded as `wikipedia_not_found`; an
  edit that gives a status deletes every user's session token (`destinations.go:412`);
  each row of `matchNearbyPlaces` takes a second connection while the list's is
  held (`places.go:600`).
- Trips and events: two overlapping saves leave the stops of both
  (`itinerary_stops.go:64`); so does a save by a user who does not own the itinerary, or
  whose itinerary was made anonymous, since the DELETE asks whose it is and the INSERTs
  do not; a status change that read the event before it was cancelled brings it back; a
  user may be joined, interested and waitlisted at once.

## 6. Not modelled, and the plan

*Not modelled.* Single-statement operations that meet nothing: campaigns, profiles,
consent, bucket list, reports of stories and comments, moderators' notes, media
captions. Read-only queries (dashboards, `feed.go`) and the cursors of the event
and destination lists, which are built from columns and not by
`internal/pagination`. Bulk import, which parses and inserts. sqlc code apart from
the statements cited, server wiring, configuration; the chat companion. The retry
loop of `places/client.go`, whose outcome is a call that answers or fails. The
report worker: started with main's ten-second context it leaves before its first
tick, so its processing would be dead actions. Signatures, claims, images and HTTP
are library code. Left out are tokens taken by requests stalled in the limiter, a
presign whose URL cannot be signed (`media.go:92`), and the time a fetch of keys takes:
it is one step, although its expiry is computed after the body is read (`auth.go:151`).

*Composition.* Account deletion is in every module that has rows of a user, not one
action over all of them: the modules meet in no invariant. PlaceCatalogue and
PlaceDetails share only the call of `SetPlace`, and the scenario that browses has no
concurrent `Resolve`, which would multiply its states without a property to gain.

*Next*:

1. Bounds the proofs could sharpen: how far `current_participants` can drift upwards,
   and how long a withdrawn key is accepted while the dashboard fails.
2. An abstract specification for PlaceCatalogue (a place has at most one destination,
   created once) and one for MediaLibrary (an object is uploaded, owned, gone), with
   refinements like those of the two ledgers.
3. The event and destination lists' cursors, if they come to use `internal/pagination`.
