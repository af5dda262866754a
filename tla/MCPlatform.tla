----------------------------- MODULE MCPlatform -----------------------------
(***************************************************************************)
(* Places, events, trips and the middleware, model-checked.  The modules   *)
(* share no state: a behaviour picks a scenario and stays with it, and a   *)
(* scenario leaves out what its question does not need.                    *)
(***************************************************************************)
EXTENDS PlaceCatalogue, PlaceDetails, EventCalendar, KeyCache, RateLimiter, TripPlanner, TLC

VARIABLE scenario

\* All places have one name, so that their slugs collide.
SameName == [p \in Places |-> "lodge"]

PlaceScenarios == {"resolving", "browsing", "backfilling"}

Init ==
  /\ scenario \in PlaceScenarios \union {"cache", "status", "answers", "keys", "limiter", "stops", "opens"}
  /\ PlaceInit
  /\ DetailInit
  /\ CalendarInit
  /\ KeyInit
  /\ LimiterInit
  /\ TripInit

NoClockSuffix == \A i \in DOMAIN catalogue' : catalogue'[i].slug[2] \in {"", "fixed"}

\* Two requests resolve places while administrators create, edit and delete.
ResolvingNext ==
  /\ UNCHANGED <<browser, screen, backfill>>
  /\ PlaceNext
  /\ NoClockSuffix /\ edits' <= 1

\* A request for popular places, with what it finds listed and opened.
BrowsingNext ==
  /\ UNCHANGED <<session, resolver, backfill>>
  /\ PlaceNext
  /\ Len(catalogue') <= 2 /\ edits' <= 1

\* Two runs of the command that fills in place identifiers.
BackfillingNext ==
  /\ UNCHANGED <<session, resolver, browser, screen>>
  /\ PlaceNext
  /\ NoClockSuffix /\ Len(catalogue') <= 2

\* Changes of one event's status; and two users' answers, with their accounts.
StatusNext == UNCHANGED <<attendees, saves, erasing, answer>> /\ CalendarNext

AnswersNext == UNCHANGED statusRequest /\ CalendarNext

\* Three saves of a list of two stops, of an itinerary that may be deleted or lose
\* its user; and three opens of the app.
StopsNext == UNCHANGED <<moment, open>> /\ TripNext

OpensNext == UNCHANGED save /\ TripNext

Next ==
  /\ UNCHANGED scenario
  /\ CASE scenario = "resolving" -> ResolvingNext
       [] scenario = "browsing" -> BrowsingNext
       [] scenario = "backfilling" -> BackfillingNext
       [] OTHER -> UNCHANGED placeVars
  /\ IF scenario = "cache" THEN DetailNext ELSE UNCHANGED detailVars
  /\ CASE scenario = "status" -> StatusNext
       [] scenario = "answers" -> AnswersNext
       [] OTHER -> UNCHANGED calendarVars
  /\ IF scenario = "keys" THEN KeyNext ELSE UNCHANGED keyVars
  /\ IF scenario = "limiter" THEN LimiterNext ELSE UNCHANGED limiterVars
  /\ CASE scenario = "stops" -> StopsNext
       [] scenario = "opens" -> OpensNext
       [] OTHER -> UNCHANGED tripVars

vars == <<scenario, placeVars, detailVars, calendarVars, keyVars, limiterVars, tripVars>>

Spec == Init /\ [][Next]_vars

Interchangeable == Permutations(Places) \union Permutations(Resolvers)

-----------------------------------------------------------------------------
\* Every variable has the type its module gives it.
TypeOK ==
  /\ PlaceTypeOK
  /\ DetailTypeOK
  /\ CalendarTypeOK
  /\ KeyTypeOK
  /\ LimiterTypeOK
  /\ TripTypeOK

\* Of requests for one place each finds the destination or creates it, and what
\* the app lists it can open (places.go:286, destinations.go:709).
PlacesFound == ResolveFindsOrCreates /\ ListedOpens

\* A destination keeps its place, and a place the image that was found for it, but
\* for the writes that clear them and the runs or goroutines that overlap
\* (backfill-google-places/main.go:91, cache.go:181).
PlacesKept == PlaceIdKept /\ HeroKept

\* What is kept about a user is what he said last and nothing from before his
\* account was deleted; of requests under way at the same time, and of these only,
\* both may leave their rows; and no client gets more requests by being forgotten
\* (actions.go:478, account.go:78, itinerary_stops.go:64, actions.go:234,
\* ratelimit.go:52).
RecordsRight ==
  /\ AnswersKept
  /\ DeletionErases
  /\ StopsOfOneSave
  /\ OpensSpaced
  /\ RemovalGrantsNothing
=============================================================================
