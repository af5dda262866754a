---------------------------- MODULE PlaceDetails ----------------------------
(***************************************************************************)
(* The cache of place details: rows filled by whoever needs a place's      *)
(* details, hero images added to them by goroutines that ask Wikipedia,    *)
(* and rows deleted when a destination changes.                            *)
(*                                                                         *)
(* Reading a row, asking the provider and writing the row are steps of     *)
(* their own, and the two kinds of writers overwrite each other's columns  *)
(* or do not, as their upserts say.                                        *)
(***************************************************************************)
EXTENDS FiniteSets

CONSTANTS
  CachedPlaces,   \* Google place identifiers
  NoCachedPlace,
  Images,         \* image URLs Wikipedia may answer with
  Readers,        \* concurrent requests for details, location or resolution
  Fetchers        \* goroutines of EnsureHeroImage

ASSUME DetailAssumption == NoCachedPlace \notin CachedPlaces /\ "none" \notin Images

VARIABLES
  details,        \* table google_places_cache: the columns from Google, by age,
  hero,           \* and those of the hero image
  reader,         \* the place a request is asking Google about
  fetcher,        \* the place a goroutine is asking Wikipedia about
  \* History, read by the property only.
  outdated        \* goroutines that read the row before somebody wrote an image, or
                  \* could not read it

detailVars == <<details, hero, reader, fetcher, outdated>>

-----------------------------------------------------------------------------
\* "none" stands for NULL, or for no row; "missing" for wikipedia_not_found.
DetailTypeOK ==
  /\ details \in [CachedPlaces -> {"none", "fresh", "old"}]
  /\ hero \in [CachedPlaces -> {"none", "missing"} \union Images]
  /\ reader \in [Readers -> CachedPlaces \union {NoCachedPlace}]
  /\ fetcher \in [Fetchers -> CachedPlaces \union {NoCachedPlace}]
  /\ outdated \subseteq Fetchers

DetailInit ==
  /\ details = [p \in CachedPlaces |-> "none"]
  /\ hero = [p \in CachedPlaces |-> "none"]
  /\ reader = [r \in Readers |-> NoCachedPlace]
  /\ fetcher = [f \in Fetchers |-> NoCachedPlace]
  /\ outdated = {}

\* GetPlaceDetails: it has details of the last 30 days, or it could not read them,
\* which is taken for a row that is not there.  A row that holds an image only has
\* no details.
AskDetails(r, p, read) ==
  /\ reader[r] = NoCachedPlace
  /\ read => details[p] # "fresh"
  /\ reader' = [reader EXCEPT ![r] = p]
  /\ UNCHANGED <<details, hero, fetcher, outdated>>

\* GetLocation asks whatever the age, since details may lack coordinates; Resolve
\* asks without a look at the cache.
AskAnyway(r, p) ==
  /\ reader[r] = NoCachedPlace
  /\ reader' = [reader EXCEPT ![r] = p]
  /\ UNCHANGED <<details, hero, fetcher, outdated>>

\* SetPlace: the upsert writes all columns, NULL to those of the hero image, in the
\* row of the place Google answered with, be it another identifier than asked.
SetPlace(r, q) ==
  /\ reader[r] # NoCachedPlace
  /\ details' = [details EXCEPT ![q] = "fresh"]
  /\ hero' = [hero EXCEPT ![q] = "none"]
  /\ reader' = [reader EXCEPT ![r] = NoCachedPlace]
  /\ UNCHANGED <<fetcher, outdated>>

\* Google failed, or the write did.
GiveUpDetails(r) ==
  /\ reader[r] # NoCachedPlace
  /\ reader' = [reader EXCEPT ![r] = NoCachedPlace]
  /\ UNCHANGED <<details, hero, fetcher, outdated>>

DetailsAge(p) ==
  /\ details[p] = "fresh"
  /\ details' = [details EXCEPT ![p] = "old"]
  /\ UNCHANGED <<hero, reader, fetcher, outdated>>

\* Mutant: only a place Wikipedia did not know is left alone.
EnsureUnlessMissing(f, p, read) ==
  /\ fetcher[f] = NoCachedPlace
  /\ read => hero[p] # "missing"
  /\ fetcher' = [fetcher EXCEPT ![f] = p]
  /\ outdated' = IF read THEN outdated \ {f} ELSE outdated \union {f}
  /\ UNCHANGED <<details, hero, reader>>

\* EnsureHeroImage's look at the row: started for a place that is opened, resolved
\* or listed, and done if the row has an image or the mark.  A row that could not
\* be read is taken for one that is not there.
EnsureHeroImage(f, p, read) ==
  /\ fetcher[f] = NoCachedPlace
  /\ read => hero[p] = "none"
  /\ fetcher' = [fetcher EXCEPT ![f] = p]
  /\ outdated' = IF read THEN outdated \ {f} ELSE outdated \union {f}
  /\ UNCHANGED <<details, hero, reader>>

\* FetchHeroImage answers with an image or with "missing", which also stands for
\* any failure of Wikipedia.  The upsert writes the image columns only, and
\* creates the row if it was deleted.
UpdateHeroImage(f, answer) ==
  LET p == fetcher[f] IN
  /\ p # NoCachedPlace
  /\ hero' = [hero EXCEPT ![p] = answer]
  /\ fetcher' = [fetcher EXCEPT ![f] = NoCachedPlace]
  /\ outdated' = (outdated \union {g \in Fetchers \ {f} : fetcher[g] = p}) \ {f}
  /\ UNCHANGED <<details, reader>>

\* The write failed, or the server stopped: goroutines are forgotten.
ForgetHeroFetch(f) ==
  /\ fetcher[f] # NoCachedPlace
  /\ fetcher' = [fetcher EXCEPT ![f] = NoCachedPlace]
  /\ outdated' = outdated \ {f}
  /\ UNCHANGED <<details, hero, reader>>

\* An edit or the deletion of the place's destination deletes the row;
\* InvalidatePlacesCache deletes all of them.
ClearDetails(cleared) ==
  /\ details' = [p \in CachedPlaces |-> IF p \in cleared THEN "none" ELSE details[p]]
  /\ hero' = [p \in CachedPlaces |-> IF p \in cleared THEN "none" ELSE hero[p]]
  /\ UNCHANGED <<reader, fetcher, outdated>>

DetailNext ==
  \/ \E r \in Readers, p \in CachedPlaces :
       \/ \E read \in BOOLEAN : AskDetails(r, p, read)
       \/ AskAnyway(r, p) \/ SetPlace(r, p)
  \/ \E r \in Readers : GiveUpDetails(r)
  \/ \E p \in CachedPlaces : DetailsAge(p) \/ ClearDetails({p})
  \/ \E f \in Fetchers :
       \/ \E p \in CachedPlaces, read \in BOOLEAN : EnsureHeroImage(f, p, read)
       \/ \E answer \in Images \union {"missing"} : UpdateHeroImage(f, answer)
       \/ ForgetHeroFetch(f)
  \/ ClearDetails(CachedPlaces)

DetailSpec == DetailInit /\ [][DetailNext]_detailVars

-----------------------------------------------------------------------------
\* An image that was found stays until the place's details are written or
\* deleted.  Only a goroutine that had read the row before any image was there, or
\* could not read it, may put another image, or the mark, in its place (cache.go:181).
HeroKept ==
  [][\A p \in CachedPlaces :
       hero[p] \in Images /\ hero'[p] # hero[p] =>
         \/ hero'[p] = "none" /\ details'[p] \in {"none", "fresh"}
         \/ \E f \in outdated : fetcher[f] = p /\ fetcher'[f] = NoCachedPlace]_detailVars

-----------------------------------------------------------------------------
(* The inductive invariant.                                                *)

\* A goroutine asks about a place that has an image only if it read the row before
\* the image was there, or could not read it (cache.go:181).
OutdatedInv ==
  \A f \in Fetchers, p \in CachedPlaces :
    fetcher[f] = p /\ hero[p] \in Images => f \in outdated

DetailInv == DetailTypeOK /\ OutdatedInv
=============================================================================
