--------------------------- MODULE PlaceCatalogue ---------------------------
(***************************************************************************)
(* The destinations: rows created and edited by administrators, drafts     *)
(* created from Google places when somebody resolves a place or asks for   *)
(* popular ones nearby, place identifiers filled in by a command, and what *)
(* the app lists and opens.                                                *)
(*                                                                         *)
(* A step is one SQL statement or one call of Google.  The unique indexes  *)
(* on slug and google_place_id are the only thing that keeps concurrent    *)
(* requests from creating a destination twice.                             *)
(***************************************************************************)
EXTENDS Naturals, Sequences, FiniteSets

CONSTANTS
  Places,         \* Google place identifiers
  NoPlace,
  NameOf,         \* the name Google gives a place
  ClockSuffixes,  \* what the clock may append to a slug (Unix time mod 10000)
  Resolvers,      \* concurrent Resolve requests
  Browsers,       \* concurrent Popular requests
  Commands,       \* concurrent runs of backfill-google-places
  PopularLimit,   \* length of the popular list (10)
  MaxRows,        \* bound: destinations ever created
  MaxEdits        \* bound: edits and deletions by administrators

ASSUME PlaceAssumption == NoPlace \notin Places /\ MaxRows \in Nat /\ MaxEdits \in Nat

VARIABLES
  catalogue,      \* table destinations, in the order of insertion
  session,        \* whether the app's session token is in the search cache
  nearby,         \* the search cache's entry for the app's position, and whether a
                  \* goroutine is refreshing it
  clearing,       \* edits that still have to clear the search cache
  edits,
  resolver,
  browser,
  backfill,       \* rows a command has listed and not come to
  screen,         \* what a list on the phone links to: rows with their slug
  \* History, read by the properties only.
  dropped,        \* places whose destination was deleted or given another place
  contested       \* rows two commands had listed at the same time

placeVars == <<catalogue, session, nearby, clearing, edits, resolver, browser, backfill,
               screen, dropped, contested>>

-----------------------------------------------------------------------------
\* A slug is the name and what was appended to make it unique.
Slugs == {NameOf[p] : p \in Places} \X ({"", "fixed"} \union ClockSuffixes)

Row == [slug : Slugs, place : Places \union {NoPlace},
        status : {"draft", "published", "archived", "gone"}]

RowIds == DOMAIN catalogue

Links == (1..MaxRows) \X Slugs

NoResolve == [at |-> "idle", place |-> NoPlace, answer |-> NoPlace, dup |-> "none"]

NoBrowse == [at |-> "idle", near |-> {}, list |-> {}]

NoNearby == [places |-> {}, age |-> "none", refreshing |-> FALSE]

PlaceTypeOK ==
  /\ catalogue \in Seq(Row) /\ Len(catalogue) <= MaxRows
  /\ session \in BOOLEAN
  /\ nearby \in [places : SUBSET Places, age : {"none", "fresh", "stale"}, refreshing : BOOLEAN]
  /\ clearing \in 0..MaxEdits
  /\ edits \in 0..MaxEdits
  /\ resolver \in [Resolvers ->
       [at : {"idle", "lookup", "fetch", "insert", "retry", "refetch",
              "found", "created", "failed"},
        place : Places \union {NoPlace}, answer : Places \union {NoPlace},
        dup : {"none", "slug", "place"}]]
  /\ browser \in [Browsers ->
       [at : {"idle", "search", "match", "recheck", "draft", "fallback"},
        near : SUBSET Places, list : SUBSET Links]]
  /\ backfill \in [Commands -> SUBSET (1..MaxRows)]
  /\ screen \subseteq Links
  /\ dropped \subseteq Places
  /\ contested \subseteq 1..MaxRows

PlaceInit ==
  /\ catalogue = <<>>
  /\ session = FALSE
  /\ nearby = NoNearby
  /\ clearing = 0
  /\ edits = 0
  /\ resolver = [r \in Resolvers |-> NoResolve]
  /\ browser = [b \in Browsers |-> NoBrowse]
  /\ backfill = [c \in Commands |-> {}]
  /\ screen = {}
  /\ dropped = {}
  /\ contested = {}

\* The search cache without the entry; a goroutine goes on.
Wiped == [NoNearby EXCEPT !.refreshing = nearby.refreshing]

Alive(i) == i \in RowIds /\ catalogue[i].status # "gone"

\* What a list says of a row, as it is now.
LinksTo(rows) == {<<i, catalogue[i].slug>> : i \in rows}

Visible(i) == Alive(i) /\ catalogue[i].status \in {"published", "draft"}

SlugTaken(s) == \E i \in RowIds : Alive(i) /\ catalogue[i].slug = s

\* GetDestinationByGooglePlaceID.
RowsOf(p) == {i \in RowIds : Alive(i) /\ catalogue[i].place = p}

\* The index PostgreSQL reports: that on slug is the older one.
Duplicate(s, p) ==
  IF SlugTaken(s) THEN "slug"
  ELSE IF p # NoPlace /\ RowsOf(p) # {} THEN "place" ELSE "none"

Appended(s, p) == Append(catalogue, [slug |-> s, place |-> p, status |-> "draft"])

Plain(p) == <<NameOf[p], "">>

-----------------------------------------------------------------------------
(* Administrators.                                                         *)

CreateDestination(s) ==
  /\ Len(catalogue) < MaxRows
  /\ Duplicate(s, NoPlace) = "none"
  /\ catalogue' = Appended(s, NoPlace)
  /\ UNCHANGED <<session, nearby, clearing, edits, resolver, browser, backfill, screen, dropped, contested>>

\* A new slug, a new status, or both; a request that gives a status, even the
\* same one, goes on to clear the search cache.
UpdateDestination(i, s, status, given) ==
  /\ edits < MaxEdits
  /\ Alive(i)
  /\ status # catalogue[i].status => given
  /\ s = catalogue[i].slug \/ ~SlugTaken(s)
  /\ catalogue' = [catalogue EXCEPT ![i] = [slug |-> s, place |-> catalogue[i].place,
                                            status |-> status]]
  /\ edits' = edits + 1
  /\ clearing' = IF given THEN clearing + 1 ELSE clearing
  /\ UNCHANGED <<session, nearby, resolver, browser, backfill, screen, dropped, contested>>

\* DELETE FROM google_places_search_cache: session tokens live there too.
\* It is skipped if the request is cut off.
ClearSearchCache(done) ==
  /\ clearing > 0
  /\ clearing' = clearing - 1
  /\ session' = (session /\ ~done)
  /\ nearby' = IF done THEN Wiped ELSE nearby
  /\ UNCHANGED <<catalogue, edits, resolver, browser, backfill, screen, dropped, contested>>

\* One transaction: the row and the search cache.
DeleteDestination(i) ==
  /\ edits < MaxEdits
  /\ Alive(i)
  /\ edits' = edits + 1
  /\ catalogue' = [catalogue EXCEPT ![i] = [slug |-> catalogue[i].slug, place |-> NoPlace,
                                            status |-> "gone"]]
  /\ dropped' = dropped \union ({catalogue[i].place} \ {NoPlace})
  /\ session' = FALSE
  /\ nearby' = Wiped
  /\ UNCHANGED <<clearing, resolver, browser, backfill, screen, contested>>

-----------------------------------------------------------------------------
(* Resolving a place the user picked from the suggestions.                 *)

CreateSession ==
  /\ Resolvers # {}
  /\ ~session
  /\ session' = TRUE
  /\ UNCHANGED <<catalogue, nearby, clearing, edits, resolver, browser, backfill, screen, dropped, contested>>

SessionExpires ==
  /\ session
  /\ session' = FALSE
  /\ UNCHANGED <<catalogue, nearby, clearing, edits, resolver, browser, backfill, screen, dropped, contested>>

ResolverTo(r, step, q, dup) ==
  resolver' = [resolver EXCEPT ![r] = [at |-> step, place |-> resolver[r].place, answer |-> q, dup |-> dup]]

StillThere == UNCHANGED <<session, nearby, clearing, edits, browser, backfill, screen, dropped, contested>>

\* SessionTokenValid: without a token the request ends with 401.
Resolve(r, p) ==
  /\ resolver[r].at \in {"idle", "found", "created", "failed"}
  /\ session
  /\ resolver' = [resolver EXCEPT ![r] = [NoResolve EXCEPT !.at = "lookup", !.place = p]]
  /\ UNCHANGED catalogue
  /\ StillThere

LookUpPlace(r) ==
  /\ resolver[r].at = "lookup"
  /\ ResolverTo(r, IF RowsOf(resolver[r].place) # {} THEN "found" ELSE "fetch", NoPlace, "none")
  /\ UNCHANGED catalogue
  /\ StillThere

\* PlaceDetails answers with a place, which Google may identify otherwise than the
\* request did.
FetchDetails(r, q) ==
  /\ resolver[r].at = "fetch"
  /\ ResolverTo(r, "insert", q, "none")
  /\ UNCHANGED catalogue
  /\ StillThere

\* Mutant: a duplicate place is an error, as any failed INSERT.
InsertOnce(r) ==
  LET q == resolver[r].answer
      dup == Duplicate(Plain(q), q)
  IN
  /\ resolver[r].at = "insert"
  /\ dup = "none" => Len(catalogue) < MaxRows
  /\ catalogue' = IF dup = "none" THEN Appended(Plain(q), q) ELSE catalogue
  /\ ResolverTo(r, IF dup = "slug" THEN "retry" ELSE IF dup = "place" THEN "failed" ELSE "created", q, dup)
  /\ StillThere

\* CreateGooglePlacesDraft of the place Google answered with, under its own slug.
InsertDraft(r) ==
  LET q == resolver[r].answer
      dup == Duplicate(Plain(q), q)
  IN
  /\ resolver[r].at = "insert"
  /\ dup = "none" => Len(catalogue) < MaxRows
  /\ catalogue' = IF dup = "none" THEN Appended(Plain(q), q) ELSE catalogue
  /\ ResolverTo(r, IF dup = "slug" THEN "retry" ELSE IF dup = "place" THEN "refetch" ELSE "created", q, dup)
  /\ StillThere

\* The second try.  The suffix is computed from the CreatedAt of the row that
\* was not inserted, the zero time: it is always the same.
RetryDraft(r) ==
  LET q == resolver[r].answer
      s == <<NameOf[q], "fixed">>
      dup == Duplicate(s, q)
  IN
  /\ resolver[r].at = "retry"
  /\ dup = "none" => Len(catalogue) < MaxRows
  /\ catalogue' = IF dup = "none" THEN Appended(s, q) ELSE catalogue
  /\ ResolverTo(r, IF dup = "none" THEN "created" ELSE "refetch", q, dup)
  /\ StillThere

\* Any duplicate: somebody may have created the destination meanwhile.  It is the
\* place of the request that is looked up again.
Refetch(r) ==
  LET x == resolver[r] IN
  /\ x.at = "refetch"
  /\ ResolverTo(r, IF RowsOf(x.place) # {} THEN "found" ELSE "failed", x.answer, x.dup)
  /\ UNCHANGED catalogue
  /\ StillThere

\* A statement fails, but not by a duplicate (at the second look-up too); Google
\* fails; or the handler panics over an address without a comma.
ResolveFails(r) ==
  /\ resolver[r].at \in {"lookup", "fetch", "insert", "retry", "refetch"}
  /\ resolver' = [resolver EXCEPT ![r] = NoResolve]
  /\ UNCHANGED catalogue
  /\ StillThere

-----------------------------------------------------------------------------
(* Popular destinations nearby.                                            *)

BrowserTo(b, step, near, list) ==
  browser' = [browser EXCEPT ![b] = [at |-> step, near |-> near, list |-> list]]

\* The answer: a list with links, and the request is over.
Show(b, list) ==
  /\ browser' = [browser EXCEPT ![b] = NoBrowse]
  /\ screen' = list

\* The cached result of the last 24 hours or, failing that, of the last 7 days,
\* which a goroutine is started to refresh.
Popular(b) ==
  /\ browser[b].at = "idle"
  /\ IF nearby.age = "none" THEN BrowserTo(b, "search", {}, {})
     ELSE BrowserTo(b, "match", nearby.places, {})
  /\ nearby' = [nearby EXCEPT !.refreshing = nearby.refreshing \/ nearby.age = "stale"]
  /\ UNCHANGED <<catalogue, session, clearing, edits, resolver, backfill, screen, dropped, contested>>

\* NearbySearch answers and is cached.
SearchNearby(b, near) ==
  /\ browser[b].at = "search"
  /\ nearby' = [nearby EXCEPT !.places = near, !.age = "fresh"]
  /\ BrowserTo(b, "match", near, {})
  /\ UNCHANGED <<catalogue, session, clearing, edits, resolver, backfill, screen, dropped, contested>>

\* The goroutine, which belongs to no request any more: it writes what Google
\* answers, or nothing, whatever has become of the entry.
Revalidate(near) ==
  /\ nearby.refreshing
  /\ nearby' = [places |-> near, age |-> "fresh", refreshing |-> FALSE]
  /\ UNCHANGED <<catalogue, session, clearing, edits, resolver, browser, backfill, screen, dropped, contested>>

RevalidationFails ==
  /\ nearby.refreshing
  /\ nearby' = [nearby EXCEPT !.refreshing = FALSE]
  /\ UNCHANGED <<catalogue, session, clearing, edits, resolver, browser, backfill, screen, dropped, contested>>

\* Google fails: a stale entry that has appeared, or the destinations around.
SearchFails(b) ==
  /\ browser[b].at = "search"
  /\ IF nearby.age = "none" THEN BrowserTo(b, "fallback", {}, {})
     ELSE BrowserTo(b, "match", nearby.places, {})
  /\ UNCHANGED <<catalogue, session, nearby, clearing, edits, resolver, backfill, screen, dropped, contested>>

NearbyAges ==
  /\ nearby.age # "none"
  /\ nearby' = IF nearby.age = "fresh" THEN [nearby EXCEPT !.age = "stale"] ELSE Wiped
  /\ UNCHANGED <<catalogue, session, clearing, edits, resolver, browser, backfill, screen, dropped, contested>>

\* popularNearbyQuery: visible destinations of the places, at most the limit.
MatchNearby(b, list) ==
  /\ browser[b].at = "match"
  /\ LET matching == {i \in RowIds : Visible(i) /\ catalogue[i].place \in browser[b].near} IN
     /\ list \subseteq matching
     /\ Cardinality(list) = IF Cardinality(matching) < PopularLimit THEN Cardinality(matching)
                            ELSE PopularLimit
  /\ BrowserTo(b, "recheck", browser[b].near, LinksTo(list))
  /\ UNCHANGED <<catalogue, session, nearby, clearing, edits, resolver, backfill, screen, dropped, contested>>

\* The place of every match is read once more; the places left are unmatched.
RecheckMatches(b) ==
  /\ browser[b].at = "recheck"
  /\ BrowserTo(b, "draft",
       browser[b].near \ {catalogue[link[1]].place : link \in browser[b].list}, browser[b].list)
  /\ UNCHANGED <<catalogue, session, nearby, clearing, edits, resolver, backfill, screen, dropped, contested>>

\* autoCreateDraftFromNearby for one unmatched place: the INSERT under its own
\* slug and, that slug being taken, one with the time appended (in one step: what
\* changes between the two changes nothing but which of them fails).  Only the row
\* of the first INSERT is listed.  After the second, successful or not, an error
\* is returned; and a place that has a destination (an archived one, or one just
\* created) is left out since the query that would fetch it has more columns than
\* it scans.
AutoCreateDraft(b, p, suffix) ==
  LET first == Duplicate(Plain(p), p)
      s == IF first = "slug" THEN <<NameOf[p], suffix>> ELSE Plain(p)
      inserted == Duplicate(s, p) = "none"
  IN
  /\ browser[b].at = "draft"
  /\ p \in browser[b].near
  /\ Cardinality(browser[b].list) < PopularLimit
  /\ inserted => Len(catalogue) < MaxRows
  /\ catalogue' = IF inserted THEN Appended(s, p) ELSE catalogue
  /\ BrowserTo(b, "draft", browser[b].near \ {p},
       IF inserted /\ first = "none" THEN browser[b].list \union {<<Len(catalogue) + 1, s>>}
       ELSE browser[b].list)
  /\ UNCHANGED <<session, nearby, clearing, edits, resolver, backfill, screen, dropped, contested>>

\* The list is full, or no place is left.
AnswerPopular(b) ==
  LET r == browser[b] IN
  /\ r.at = "draft"
  /\ r.near = {} \/ Cardinality(r.list) >= PopularLimit
  /\ IF r.list = {}
     THEN BrowserTo(b, "fallback", {}, {}) /\ UNCHANGED screen
     ELSE Show(b, r.list)
  /\ UNCHANGED <<catalogue, session, nearby, clearing, edits, resolver, backfill,
                 dropped, contested>>

\* popularFallbackQuery with a growing radius: some visible ones, or none.
FallbackPopular(b, list) ==
  /\ browser[b].at = "fallback"
  /\ \A i \in list : Visible(i) /\ catalogue[i].place # NoPlace
  /\ Cardinality(list) <= PopularLimit
  /\ Show(b, LinksTo(list))
  /\ UNCHANGED <<catalogue, session, nearby, clearing, edits, resolver, backfill,
                 dropped, contested>>

-----------------------------------------------------------------------------
(* The app's other lists, and opening what they show.                      *)

\* ListMobile and NearbyMobile: published destinations only.
ListPublished(list) ==
  /\ \A i \in list : Alive(i) /\ catalogue[i].status = "published"
  /\ list # {}
  /\ screen' = LinksTo(list)
  /\ UNCHANGED <<catalogue, session, nearby, clearing, edits, resolver, browser, backfill,
                 dropped, contested>>

\* Mutant: only what is published opens.
GetPublished(slug) == {i \in RowIds : Alive(i) /\ catalogue[i].slug = slug
                                      /\ catalogue[i].status = "published"}

\* GetMobile finds the slug whatever the status: Popular links to drafts.
GetMobile(slug) == {i \in RowIds : Alive(i) /\ catalogue[i].slug = slug}

-----------------------------------------------------------------------------
(* The command that fills in place identifiers.                            *)

\* Mutant: every published destination is looked up again.
ListAllPublished(c) ==
  LET todo == {i \in RowIds : Alive(i) /\ catalogue[i].status = "published"} IN
  /\ backfill[c] = {} /\ todo # {}
  /\ backfill' = [backfill EXCEPT ![c] = todo]
  /\ contested' = contested \union (todo \intersect UNION {backfill[d] : d \in Commands})
  /\ UNCHANGED <<catalogue, session, nearby, clearing, edits, resolver, browser, screen, dropped>>

\* ListPublishedDestinationsWithoutPlaceID, read once.
ListWithoutPlace(c) ==
  LET todo == {i \in RowIds : /\ Alive(i) /\ catalogue[i].status = "published"
                              /\ catalogue[i].place = NoPlace} IN
  /\ backfill[c] = {} /\ todo # {}
  /\ backfill' = [backfill EXCEPT ![c] = todo]
  /\ contested' = contested \union (todo \intersect UNION {backfill[d] : d \in Commands})
  /\ UNCHANGED <<catalogue, session, nearby, clearing, edits, resolver, browser, screen, dropped>>

\* The best match of one listed row, whose names need share a word only, is
\* written by row identifier.  Another row may have the place: the UPDATE fails.
SetPlaceId(c, i, p) ==
  /\ i \in backfill[c]
  /\ backfill' = [backfill EXCEPT ![c] = @ \ {i}]
  /\ catalogue' = IF Alive(i) /\ RowsOf(p) \subseteq {i}
                  THEN [catalogue EXCEPT ![i] = [slug |-> catalogue[i].slug, place |-> p,
                                                 status |-> catalogue[i].status]]
                  ELSE catalogue
  /\ dropped' = IF catalogue'[i].place # catalogue[i].place
                THEN dropped \union ({catalogue[i].place} \ {NoPlace}) ELSE dropped
  /\ UNCHANGED <<session, nearby, clearing, edits, resolver, browser, screen, contested>>

\* No match, or Google failed.
SkipRow(c, i) ==
  /\ i \in backfill[c]
  /\ backfill' = [backfill EXCEPT ![c] = @ \ {i}]
  /\ UNCHANGED <<catalogue, session, nearby, clearing, edits, resolver, browser, screen, dropped, contested>>

-----------------------------------------------------------------------------
PlaceNext ==
  \/ \E s \in Slugs : CreateDestination(s)
  \/ \E i \in RowIds, s \in Slugs, status \in {"draft", "published", "archived"},
        given \in BOOLEAN : UpdateDestination(i, s, status, given)
  \/ \E done \in BOOLEAN : ClearSearchCache(done)
  \/ \E i \in RowIds : DeleteDestination(i)
  \/ CreateSession
  \/ SessionExpires
  \/ \E r \in Resolvers, p \in Places : Resolve(r, p)
  \/ \E r \in Resolvers :
       \/ LookUpPlace(r)
       \/ \E q \in Places : FetchDetails(r, q)
       \/ InsertDraft(r)
       \/ RetryDraft(r)
       \/ Refetch(r)
       \/ ResolveFails(r)
  \/ \E b \in Browsers :
       \/ Popular(b)
       \/ \E near \in SUBSET Places : SearchNearby(b, near)
       \/ SearchFails(b)
       \/ \E list \in SUBSET RowIds : MatchNearby(b, list) \/ FallbackPopular(b, list)
       \/ RecheckMatches(b)
       \/ \E p \in Places, suffix \in ClockSuffixes : AutoCreateDraft(b, p, suffix)
       \/ AnswerPopular(b)
  \/ \E near \in SUBSET Places : Revalidate(near)
  \/ RevalidationFails
  \/ NearbyAges
  \/ \E list \in SUBSET RowIds : Browsers # {} /\ ListPublished(list)
  \/ \E c \in Commands :
       \/ ListWithoutPlace(c)
       \/ \E i \in RowIds : SkipRow(c, i) \/ \E p \in Places : SetPlaceId(c, i, p)

PlaceSpec == PlaceInit /\ [][PlaceNext]_placeVars

-----------------------------------------------------------------------------
(* Properties.                                                             *)

\* A place has a destination, or had one.
Known(p) == RowsOf(p) # {} \/ p \in dropped

\* Of the requests that resolve a place at the same time each finds its destination
\* or creates that of the place Google answered with.  One that meets a duplicate
\* fails only if both slugs belong to other destinations, or if Google identified
\* the place otherwise, or if the place's destination was dropped meanwhile
\* (places.go:286).
ResolveFindsOrCreates ==
  \A r \in Resolvers :
    LET p == resolver[r].place
        q == resolver[r].answer
    IN
    /\ resolver[r].at = "found" => Known(p)
    /\ resolver[r].at = "created" => Known(q)
    /\ resolver[r].at = "failed" => resolver[r].dup = "slug" \/ (Known(q) /\ (p # q \/ p \in dropped))

\* A destination keeps its place until it is deleted, unless two runs of the
\* command had listed it at the same time (backfill-google-places/main.go:91).
PlaceIdKept ==
  [][\A i \in RowIds : catalogue[i].place # NoPlace =>
       \/ catalogue'[i].place = catalogue[i].place
       \/ catalogue'[i].status = "gone"
       \/ i \in contested]_placeVars

\* What the app lists can be opened from the list, a draft too, unless it was
\* deleted or its slug changed meanwhile (destinations.go:709).
ListedOpens ==
  \A link \in screen :
    Alive(link[1]) /\ catalogue[link[1]].slug = link[2] => GetMobile(link[2]) = {link[1]}

-----------------------------------------------------------------------------
(* The inductive invariant.                                                *)

\* The unique indexes on slug and place: no two destinations that are there share
\* one (destinations.go:353, the migrations' UNIQUE).
UniqueInv ==
  \A i, j \in RowIds : Alive(i) /\ Alive(j) =>
    /\ catalogue[i].slug = catalogue[j].slug => i = j
    /\ catalogue[i].place = catalogue[j].place /\ catalogue[i].place # NoPlace => i = j

\* A request that met a duplicate of the place it was to insert knows that place's
\* destination (places.go:286).
ResolverInv ==
  \A r \in Resolvers :
    LET x == resolver[r] IN
    /\ x.at # "idle" => x.place \in Places
    /\ x.at \in {"insert", "retry", "refetch", "created", "failed"} => x.answer \in Places
    /\ x.at = "refetch" => x.dup # "none"
    /\ x.at = "refetch" /\ x.dup = "place" => Known(x.answer)

\* A row that two commands have to come to is contested, and so is one that got its
\* place since a command listed it (backfill-google-places/main.go:91).
BackfillInv ==
  /\ \A c, d \in Commands : c # d => backfill[c] \intersect backfill[d] \subseteq contested
  /\ \A c \in Commands : \A i \in backfill[c] :
       i \in RowIds /\ (catalogue[i].place # NoPlace => i \in contested)

PlaceInv ==
  /\ PlaceTypeOK
  /\ clearing <= edits
  /\ UniqueInv
  /\ ResolverInv
  /\ BackfillInv
  /\ ResolveFindsOrCreates
  /\ ListedOpens
=============================================================================
