---------------------------- MODULE PlatformProofs ----------------------------
(***************************************************************************)
(* Theorems about places, events, trips and the middleware: one part per   *)
(* component, for any number of its users, requests, rows and ticks, and   *)
(* at the end what the components' invariants say of the model that is     *)
(* checked.                                                                *)
(***************************************************************************)
EXTENDS MCPlatform, SequenceTheorems, TLAPS

-----------------------------------------------------------------------------
(* The destinations.                                                       *)

\* What every step preserves of the table: no row leaves it, the indexes are unique
\* and whose destination was known stays known.
Steady ==
  /\ catalogue' \in Seq(Row) /\ Len(catalogue') <= MaxRows
  /\ RowIds \subseteq RowIds'
  /\ dropped \subseteq dropped' /\ dropped' \subseteq Places
  /\ UniqueInv'
  /\ \A p \in Places : Known(p) => Known(p)'

\* A row keeps its place until it is deleted.
Unmoved ==
  \A i \in RowIds : \/ catalogue'[i].place = catalogue[i].place
                    \/ catalogue'[i].place = NoPlace /\ catalogue'[i].status = "gone"

LEMMA RowFacts ==
  ASSUME PlaceTypeOK
  PROVE  /\ Len(catalogue) \in Nat /\ RowIds = 1..Len(catalogue) /\ RowIds \subseteq 1..MaxRows
         /\ \A i \in RowIds : /\ catalogue[i] \in Row /\ catalogue[i].slug \in Slugs
                              /\ catalogue[i].place \in Places \union {NoPlace}
<1>1. /\ Len(catalogue) \in Nat /\ RowIds = 1..Len(catalogue) /\ RowIds \subseteq 1..MaxRows
      /\ \A i \in RowIds : catalogue[i] \in Row
  BY PlaceAssumption DEF PlaceTypeOK, RowIds
<1> QED  BY <1>1 DEF Row

LEMMA NothingChanges ==
  ASSUME PlaceInv, UNCHANGED <<catalogue, dropped>>
  PROVE  Steady /\ Unmoved
  BY DEF PlaceInv, PlaceTypeOK, Steady, Unmoved, UniqueInv, RowIds, Alive, Known, RowsOf

\* A destination is inserted.
LEMMA AppendStep ==
  ASSUME PlaceInv,
         NEW s \in Slugs, NEW p \in Places \union {NoPlace},
         Duplicate(s, p) = "none", Len(catalogue) < MaxRows,
         catalogue' = Appended(s, p), dropped' = dropped
  PROVE  /\ Steady /\ Unmoved
         /\ p # NoPlace => RowsOf(p)' # {}
<1> USE DEF PlaceInv
<1> DEFINE row == [slug |-> s, place |-> p, status |-> "draft"]
<1>1. row \in Row /\ row.slug = s /\ row.place = p /\ row.status = "draft"
  BY DEF Row
<1>2. /\ Len(catalogue) \in Nat /\ RowIds = 1..Len(catalogue) /\ catalogue \in Seq(Row)
  BY RowFacts DEF PlaceTypeOK
<1>3. catalogue' = Append(catalogue, row)
  BY DEF Appended
<1> HIDE DEF row
<1> PICK n \in Nat : n = Len(catalogue) + 1
  BY <1>2
<1>4. /\ catalogue' \in Seq(Row) /\ Len(catalogue') = n
      /\ \A i \in 1..Len(catalogue) : catalogue'[i] = catalogue[i]
      /\ catalogue'[n] = row
  BY <1>1, <1>2, <1>3, AppendProperties
<1>5. RowIds' = RowIds \union {n} /\ n \notin RowIds /\ n <= MaxRows
  BY <1>2, <1>4, PlaceAssumption DEF RowIds, PlaceTypeOK
<1>6. \A i \in RowIds : catalogue'[i] = catalogue[i] /\ (Alive(i)' <=> Alive(i))
  BY <1>2, <1>4, <1>5 DEF Alive
<1>7. Alive(n)' /\ catalogue'[n].slug = s /\ catalogue'[n].place = p
  BY <1>1, <1>4, <1>5 DEF Alive
<1>8. /\ \A i \in RowIds : Alive(i) => catalogue[i].slug # s
      /\ p = NoPlace \/ \A i \in RowIds : Alive(i) => catalogue[i].place # p
  BY DEF Duplicate, SlugTaken, RowsOf
<1>9. UniqueInv'
  <2> SUFFICES ASSUME NEW i \in RowIds', NEW j \in RowIds', Alive(i)', Alive(j)'
               PROVE  /\ catalogue'[i].slug = catalogue'[j].slug => i = j
                      /\ catalogue'[i].place = catalogue'[j].place /\ catalogue'[i].place # NoPlace => i = j
    BY DEF UniqueInv
  <2>1. CASE i \in RowIds /\ j \in RowIds
    BY <2>1, <1>6 DEF UniqueInv
  <2>2. CASE i = n \/ j = n
    BY <2>2, <1>5, <1>6, <1>7, <1>8
  <2> QED  BY <2>1, <2>2, <1>5
<1>10. \A q \in Places : Known(q) => Known(q)'
  BY <1>5, <1>6 DEF Known, RowsOf
<1>11. n \in RowsOf(p)'
  BY <1>5, <1>7 DEF RowsOf
<1> QED
  BY <1>4, <1>5, <1>6, <1>9, <1>10, <1>11 DEF Steady, Unmoved, PlaceTypeOK

\* A destination is written, or marked as deleted.
LEMMA RowStep ==
  ASSUME PlaceInv,
         NEW i \in RowIds, NEW row \in Row,
         catalogue' = [catalogue EXCEPT ![i] = row],
         dropped \subseteq dropped', dropped' \subseteq Places,
         row.status # "gone" =>
           /\ Alive(i)
           /\ \A j \in RowIds \ {i} : Alive(j) =>
                /\ catalogue[j].slug # row.slug
                /\ row.place = NoPlace \/ catalogue[j].place # row.place,
         Alive(i) => \/ row.place = catalogue[i].place /\ row.status # "gone"
                     \/ catalogue[i].place \in dropped' \union {NoPlace}
  PROVE  Steady
<1> USE DEF PlaceInv
<1>1. /\ Len(catalogue) \in Nat /\ RowIds = 1..Len(catalogue) /\ catalogue \in Seq(Row)
  BY RowFacts DEF PlaceTypeOK
<1>2. /\ catalogue' \in Seq(Row) /\ Len(catalogue') = Len(catalogue) /\ RowIds' = RowIds
      /\ \A j \in RowIds : catalogue'[j] = IF j = i THEN row ELSE catalogue[j]
  <2>1. i \in 1..Len(catalogue)
    BY <1>1
  <2> QED  BY <1>1, <2>1, ExceptSeq DEF RowIds
<1>3. \A j \in RowIds \ {i} : catalogue'[j] = catalogue[j] /\ (Alive(j)' <=> Alive(j))
  BY <1>2 DEF Alive
<1>4. catalogue'[i] = row /\ (Alive(i)' <=> row.status # "gone")
  BY <1>2 DEF Alive
<1>5. UniqueInv'
  <2> SUFFICES ASSUME NEW j \in RowIds, NEW k \in RowIds, Alive(j)', Alive(k)'
               PROVE  /\ catalogue'[j].slug = catalogue'[k].slug => j = k
                      /\ catalogue'[j].place = catalogue'[k].place /\ catalogue'[j].place # NoPlace => j = k
    BY <1>2 DEF UniqueInv
  <2>1. CASE j # i /\ k # i
    BY <2>1, <1>3 DEF UniqueInv
  <2>2. CASE j = i /\ k # i
    BY <2>2, <1>3, <1>4
  <2>3. CASE j # i /\ k = i
    BY <2>3, <1>3, <1>4
  <2> QED  BY <2>1, <2>2, <2>3
<1>6. ASSUME NEW p \in Places, Known(p)
      PROVE  Known(p)'
  <2>1. CASE p \in dropped
    BY <2>1 DEF Known
  <2>2. CASE \E j \in RowIds : Alive(j) /\ catalogue[j].place = p
    <3> PICK j \in RowIds : Alive(j) /\ catalogue[j].place = p
      BY <2>2
    <3>1. j \in RowsOf(p)' \/ p \in dropped'
      BY <1>2, <1>3, <1>4, PlaceAssumption DEF RowsOf
    <3> QED  BY <3>1 DEF Known
  <2> QED  BY <1>6, <2>1, <2>2 DEF Known, RowsOf
<1> QED  BY <1>2, <1>5, <1>6 DEF Steady, PlaceTypeOK

LEMMA EditStep ==
  ASSUME PlaceInv, NEW i \in RowIds,
         \/ DeleteDestination(i)
         \/ \E s \in Slugs, written \in {"draft", "published", "archived"}, given \in BOOLEAN :
              UpdateDestination(i, s, written, given)
  PROVE  Steady /\ Unmoved
<1> USE DEF PlaceInv
<1>1. catalogue[i] \in Row /\ catalogue[i].slug \in Slugs /\ catalogue[i].place \in Places \union {NoPlace}
  BY RowFacts
<1>2. CASE DeleteDestination(i)
  <2> DEFINE row == [slug |-> catalogue[i].slug, place |-> NoPlace, status |-> "gone"]
  <2>1. row \in Row /\ row.status = "gone" /\ row.place = NoPlace
    BY <1>1 DEF Row
  <2>2. catalogue' = [catalogue EXCEPT ![i] = row] /\ dropped' = dropped \union ({catalogue[i].place} \ {NoPlace})
    BY <1>2 DEF DeleteDestination
  <2> HIDE DEF row
  <2>3. dropped' \subseteq Places
    BY <1>1, <2>2 DEF PlaceTypeOK
  <2>4. Steady
    BY <1>1, <2>1, <2>2, <2>3, RowStep
  <2>5. \A j \in RowIds : catalogue'[j] = IF j = i THEN row ELSE catalogue[j]
    BY <2>2 DEF PlaceTypeOK, RowIds
  <2> QED  BY <2>1, <2>4, <2>5 DEF Unmoved
<1>3. CASE \E s \in Slugs, written \in {"draft", "published", "archived"}, given \in BOOLEAN :
             UpdateDestination(i, s, written, given)
  <2> PICK s \in Slugs, written \in {"draft", "published", "archived"}, given \in BOOLEAN :
             UpdateDestination(i, s, written, given)
    BY <1>3
  <2> DEFINE row == [slug |-> s, place |-> catalogue[i].place, status |-> written]
  <2>1. row \in Row /\ row.slug = s /\ row.place = catalogue[i].place /\ row.status # "gone"
    BY <1>1 DEF Row
  <2>2. catalogue' = [catalogue EXCEPT ![i] = row] /\ dropped' = dropped /\ Alive(i)
    BY DEF UpdateDestination
  <2> HIDE DEF row
  <2>3. \A j \in RowIds \ {i} : Alive(j) =>
          catalogue[j].slug # row.slug /\ (row.place = NoPlace \/ catalogue[j].place # row.place)
    BY <2>1, <2>2 DEF UpdateDestination, SlugTaken, UniqueInv
  <2>4. Steady
    BY <2>1, <2>2, <2>3, RowStep DEF PlaceTypeOK
  <2>5. \A j \in RowIds : catalogue'[j] = IF j = i THEN row ELSE catalogue[j]
    BY <2>2 DEF PlaceTypeOK, RowIds
  <2> QED  BY <2>1, <2>4, <2>5 DEF Unmoved
<1> QED  BY <1>2, <1>3

\* The command writes a place: only a contested row can have had another one.
LEMMA SetPlaceStep ==
  ASSUME PlaceInv, NEW c \in Commands, NEW i \in RowIds, NEW p \in Places, SetPlaceId(c, i, p)
  PROVE  /\ Steady
         /\ \A j \in RowIds : \/ catalogue'[j].place = catalogue[j].place
                              \/ j = i /\ (catalogue[i].place # NoPlace => i \in contested)
<1> USE DEF PlaceInv
<1>1. catalogue[i] \in Row /\ catalogue[i].slug \in Slugs /\ catalogue[i].place \in Places \union {NoPlace}
  BY RowFacts
<1>2. i \in backfill[c]
  BY DEF SetPlaceId
<1>3. catalogue[i].place # NoPlace => i \in contested
  BY <1>2 DEF BackfillInv
<1>4. CASE Alive(i) /\ RowsOf(p) \subseteq {i}
  <2> DEFINE row == [slug |-> catalogue[i].slug, place |-> p, status |-> catalogue[i].status]
  <2>1. row \in Row /\ row.slug = catalogue[i].slug /\ row.place = p /\ row.status # "gone"
    BY <1>1, <1>4 DEF Row, Alive
  <2>2. catalogue' = [catalogue EXCEPT ![i] = row]
    BY <1>4 DEF SetPlaceId
  <2> HIDE DEF row
  <2>3. \A j \in RowIds : catalogue'[j] = IF j = i THEN row ELSE catalogue[j]
    BY <2>2 DEF PlaceTypeOK, RowIds
  <2>4. dropped' = IF p # catalogue[i].place
                   THEN dropped \union ({catalogue[i].place} \ {NoPlace}) ELSE dropped
    BY <2>1, <2>3 DEF SetPlaceId
  <2>5. dropped \subseteq dropped' /\ dropped' \subseteq Places
    BY <1>1, <2>4 DEF PlaceTypeOK
  <2>6. \A j \in RowIds \ {i} : Alive(j) => catalogue[j].slug # row.slug /\ catalogue[j].place # row.place
    BY <1>4, <2>1 DEF RowsOf, UniqueInv
  <2>7. row.place = catalogue[i].place \/ catalogue[i].place \in dropped' \union {NoPlace}
    BY <2>1, <2>4
  <2>8. Steady
    BY <1>4, <2>1, <2>2, <2>5, <2>6, <2>7, RowStep
  <2> QED  BY <1>3, <2>3, <2>8
<1>5. CASE ~(Alive(i) /\ RowsOf(p) \subseteq {i})
  <2>1. catalogue' = catalogue /\ dropped' = dropped
    BY <1>5 DEF SetPlaceId
  <2> QED  BY <2>1, NothingChanges
<1> QED  BY <1>4, <1>5

-----------------------------------------------------------------------------
(* Resolving a place.                                                      *)

ResolverType ==
  [at : {"idle", "lookup", "fetch", "insert", "retry", "refetch", "found", "created", "failed"},
   place : Places \union {NoPlace}, answer : Places \union {NoPlace},
   dup : {"none", "slug", "place"}]

\* What ResolverInv and ResolveFindsOrCreates ask of a request, by whether its place
\* and the answered one have a destination, or had one, and its place lost it.
Right(x, known, answered, gone) ==
  /\ x.at # "idle" => x.place \in Places
  /\ x.at \in {"insert", "retry", "refetch", "created", "failed"} => x.answer \in Places
  /\ x.at = "refetch" => x.dup # "none"
  /\ x.at = "refetch" /\ x.dup = "place" => answered
  /\ x.at = "found" => known
  /\ x.at = "created" => answered
  /\ x.at = "failed" => x.dup = "slug" \/ (answered /\ (x.place # x.answer \/ gone))

RightOf(r) ==
  Right(resolver[r], Known(resolver[r].place), Known(resolver[r].answer), resolver[r].place \in dropped)

LEMMA AllRight ==
  ASSUME \A r \in Resolvers : RightOf(r)'
  PROVE  ResolverInv' /\ ResolveFindsOrCreates'
  BY DEF RightOf, Right, ResolverInv, ResolveFindsOrCreates, Known

LEMMA OthersRight ==
  ASSUME PlaceInv, Steady, NEW q \in Resolvers, resolver'[q] = resolver[q]
  PROVE  RightOf(q)'
<1> PICK x \in ResolverType : x = resolver[q]
  BY DEF PlaceInv, PlaceTypeOK, ResolverType
<1>1. Right(x, Known(x.place), Known(x.answer), x.place \in dropped)
  BY DEF PlaceInv, ResolverInv, ResolveFindsOrCreates, Right, Known
<1>2. \A p \in Places : Known(p) => Known(p)'
  BY DEF Steady
<1>3. dropped \subseteq dropped'
  BY DEF Steady
<1>4. Right(x, Known(x.place)', Known(x.answer)', x.place \in dropped')
  BY <1>1, <1>2, <1>3 DEF Right
<1>5. resolver'[q] = x
  OBVIOUS
<1> QED  BY <1>4, <1>5 DEF RightOf

LEMMA OneResolves ==
  ASSUME PlaceInv, Steady,
         NEW r \in Resolvers, NEW x \in ResolverType,
         resolver' = [resolver EXCEPT ![r] = x],
         Right(x, Known(x.place)', Known(x.answer)', x.place \in dropped')
  PROVE  ResolverInv' /\ ResolveFindsOrCreates' /\ resolver' \in [Resolvers -> ResolverType]
<1>1. resolver \in [Resolvers -> ResolverType]
  BY DEF PlaceInv, PlaceTypeOK, ResolverType
<1>2. resolver' \in [Resolvers -> ResolverType] /\ resolver'[r] = x
  BY <1>1
<1>3. RightOf(r)'
  BY <1>2 DEF RightOf
<1>4. ASSUME NEW q \in Resolvers, q # r
      PROVE  RightOf(q)'
  <2>1. resolver'[q] = resolver[q]
    BY <1>1, <1>4
  <2> QED  BY <2>1, OthersRight
<1> QED  BY <1>2, <1>3, <1>4, AllRight

\* One statement of Resolve.
Resolution(r) ==
  \/ \E p \in Places : Resolve(r, p)
  \/ LookUpPlace(r)
  \/ \E q \in Places : FetchDetails(r, q)
  \/ InsertDraft(r) \/ RetryDraft(r) \/ Refetch(r) \/ ResolveFails(r)

LEMMA ResolutionStep ==
  ASSUME PlaceInv, NEW r \in Resolvers, Resolution(r)
  PROVE  /\ Steady /\ Unmoved
         /\ ResolverInv' /\ ResolveFindsOrCreates' /\ resolver' \in [Resolvers -> ResolverType]
         /\ StillThere
<1> DEFINE Goal == /\ Steady /\ Unmoved
                   /\ ResolverInv' /\ ResolveFindsOrCreates' /\ resolver' \in [Resolvers -> ResolverType]
<1>1. StillThere /\ dropped' = dropped
  BY DEF Resolution, Resolve, LookUpPlace, FetchDetails, InsertDraft, RetryDraft, Refetch, ResolveFails, StillThere
<1>2. ASSUME UNCHANGED catalogue,
             NEW x \in ResolverType, resolver' = [resolver EXCEPT ![r] = x],
             Right(x, Known(x.place), Known(x.answer), x.place \in dropped)
      PROVE  Goal
  <2>1. Steady /\ Unmoved
    BY <1>1, <1>2, NothingChanges
  <2>2. (Known(x.place)' <=> Known(x.place)) /\ (Known(x.answer)' <=> Known(x.answer))
    BY <1>1, <1>2 DEF Known, RowsOf, RowIds, Alive
  <2>3. Right(x, Known(x.place)', Known(x.answer)', x.place \in dropped')
    BY <1>1, <1>2, <2>2 DEF Right
  <2> QED  BY <1>2, <2>1, <2>3, OneResolves
<1> SUFFICES Goal
  BY <1>1
<1> HIDE DEF Goal
<1> PICK old \in ResolverType : old = resolver[r]
  BY DEF PlaceInv, PlaceTypeOK, ResolverType
<1>3. Right(old, Known(old.place), Known(old.answer), old.place \in dropped)
  BY DEF PlaceInv, ResolverInv, ResolveFindsOrCreates, Right, Known
<1> PICK p, a : p = old.place /\ a = old.answer
  OBVIOUS
<1>4. \A q : Known(q) <=> RowsOf(q) # {} \/ q \in dropped
  BY DEF Known
<1>5. CASE (\E q \in Places : Resolve(r, q)) \/ ResolveFails(r)
  <2>1. ASSUME NEW q \in Places, Resolve(r, q)
        PROVE  Goal
    <3> PICK x : x = [NoResolve EXCEPT !.at = "lookup", !.place = q]
      OBVIOUS
    <3>1. x \in ResolverType /\ Right(x, Known(x.place), Known(x.answer), x.place \in dropped)
      BY DEF ResolverType, Right, NoResolve
    <3> QED  BY <1>2, <2>1, <3>1 DEF Resolve
  <2>2. CASE ResolveFails(r)
    <3> PICK x : x = NoResolve
      OBVIOUS
    <3>1. x \in ResolverType /\ Right(x, Known(x.place), Known(x.answer), x.place \in dropped)
      BY DEF ResolverType, Right, NoResolve
    <3> QED  BY <1>2, <2>2, <3>1 DEF ResolveFails
  <2> QED  BY <1>5, <2>1, <2>2
<1>6. CASE LookUpPlace(r)
  <2> PICK x : x = [at |-> IF RowsOf(p) # {} THEN "found" ELSE "fetch", place |-> p,
                    answer |-> NoPlace, dup |-> "none"]
    OBVIOUS
  <2>1. resolver' = [resolver EXCEPT ![r] = x] /\ UNCHANGED catalogue /\ old.at = "lookup"
    BY <1>6 DEF LookUpPlace, ResolverTo
  <2>2. x \in ResolverType /\ Right(x, Known(x.place), Known(x.answer), x.place \in dropped)
    BY <1>3, <1>4, <2>1 DEF ResolverType, Right
  <2> QED  BY <1>2, <2>1, <2>2
<1>7. CASE \E q \in Places : FetchDetails(r, q)
  <2> PICK q \in Places : FetchDetails(r, q)
    BY <1>7
  <2> PICK x : x = [at |-> "insert", place |-> p, answer |-> q, dup |-> "none"]
    OBVIOUS
  <2>1. resolver' = [resolver EXCEPT ![r] = x] /\ UNCHANGED catalogue /\ old.at = "fetch"
    BY DEF FetchDetails, ResolverTo
  <2>2. x \in ResolverType /\ Right(x, Known(x.place), Known(x.answer), x.place \in dropped)
    BY <1>3, <2>1 DEF ResolverType, Right
  <2> QED  BY <1>2, <2>1, <2>2
<1>8. CASE Refetch(r)
  <2> PICK x : x = [at |-> IF RowsOf(p) # {} THEN "found" ELSE "failed", place |-> p,
                    answer |-> a, dup |-> old.dup]
    OBVIOUS
  <2>1. resolver' = [resolver EXCEPT ![r] = x] /\ UNCHANGED catalogue /\ old.at = "refetch"
    BY <1>8 DEF Refetch, ResolverTo
  <2>2. x \in ResolverType /\ x.place = p /\ x.answer = a /\ x.dup = old.dup
    BY DEF ResolverType
  <2>3. p \in Places /\ a \in Places /\ old.dup # "none" /\ (old.dup = "place" => Known(a))
    BY <1>3, <2>1 DEF Right
  <2>4. CASE RowsOf(p) # {}
    <3>1. x.at = "found" /\ Known(p)
      BY <1>4, <2>4
    <3>2. Right(x, Known(x.place), Known(x.answer), x.place \in dropped)
      BY <2>2, <2>3, <3>1 DEF Right
    <3> QED  BY <1>2, <2>1, <2>2, <3>2
  <2>5. CASE RowsOf(p) = {}
    <3>1. x.at = "failed" /\ (Known(p) => p \in dropped)
      BY <1>4, <2>5
    <3>2. old.dup = "slug" \/ old.dup = "place"
      BY <2>3 DEF ResolverType
    <3>3. Right(x, Known(x.place), Known(x.answer), x.place \in dropped)
      BY <2>2, <2>3, <3>1, <3>2 DEF Right
    <3> QED  BY <1>2, <2>1, <2>2, <3>3
  <2> QED  BY <2>4, <2>5
<1>9. ASSUME NEW s \in Slugs, a \in Places, p \in Places,
             NEW step \in {"retry", "refetch", "created"},
             NEW dup \in {"none", "slug", "place"}, dup = Duplicate(s, a),
             dup = "none" => Len(catalogue) < MaxRows /\ step = "created" /\ catalogue' = Appended(s, a),
             dup = "slug" => step # "created",
             dup = "place" => step = "refetch",
             dup # "none" => catalogue' = catalogue,
             resolver' = [resolver EXCEPT ![r] = [at |-> step, place |-> p, answer |-> a, dup |-> dup]]
      PROVE  Goal
  <2> PICK x : x = [at |-> step, place |-> p, answer |-> a, dup |-> dup]
    OBVIOUS
  <2>1. x \in ResolverType /\ x.at = step /\ x.place = p /\ x.answer = a /\ x.dup = dup
    BY <1>9 DEF ResolverType
  <2>2. CASE dup = "none"
    <3>1. Steady /\ Unmoved /\ RowsOf(a)' # {}
      BY <1>1, <1>9, <2>2, AppendStep, PlaceAssumption
    <3>2. Right(x, Known(x.place)', Known(x.answer)', x.place \in dropped')
      BY <1>9, <2>1, <2>2, <3>1 DEF Right, Known
    <3> QED  BY <1>9, <2>1, <3>1, <3>2, OneResolves DEF Goal
  <2>3. CASE dup # "none"
    <3>1. dup = "place" => Known(a)
      BY <1>9 DEF Duplicate, Known
    <3>2. Right(x, Known(x.place), Known(x.answer), x.place \in dropped)
      BY <1>9, <2>1, <2>3, <3>1 DEF Right
    <3> QED  BY <1>2, <1>9, <2>1, <2>3, <3>2
  <2> QED  BY <2>2, <2>3
<1>10. CASE InsertDraft(r)
  <2> PICK s : s = Plain(a)
    OBVIOUS
  <2> PICK dup : dup = Duplicate(s, a)
    OBVIOUS
  <2>1. p \in Places /\ a \in Places
    BY <1>3, <1>10 DEF InsertDraft, Right
  <2>2. s \in Slugs /\ dup \in {"none", "slug", "place"}
    BY <2>1 DEF Slugs, Plain, Duplicate
  <2> PICK step : step = IF dup = "slug" THEN "retry" ELSE IF dup = "place" THEN "refetch" ELSE "created"
    OBVIOUS
  <2>3. /\ dup = "none" => Len(catalogue) < MaxRows
        /\ catalogue' = IF dup = "none" THEN Appended(s, a) ELSE catalogue
        /\ resolver' = [resolver EXCEPT ![r] = [at |-> step, place |-> p, answer |-> a, dup |-> dup]]
    BY <1>10 DEF InsertDraft, ResolverTo
  <2>4. step \in {"retry", "refetch", "created"}
    OBVIOUS
  <2> QED  BY <1>9, <2>1, <2>2, <2>3, <2>4
<1>11. CASE RetryDraft(r)
  <2> PICK s : s = <<NameOf[a], "fixed">>
    OBVIOUS
  <2> PICK dup : dup = Duplicate(s, a)
    OBVIOUS
  <2>1. p \in Places /\ a \in Places
    BY <1>3, <1>11 DEF RetryDraft, Right
  <2>2. s \in Slugs /\ dup \in {"none", "slug", "place"}
    BY <2>1 DEF Slugs, Duplicate
  <2> PICK step : step = IF dup = "none" THEN "created" ELSE "refetch"
    OBVIOUS
  <2>3. /\ dup = "none" => Len(catalogue) < MaxRows
        /\ catalogue' = IF dup = "none" THEN Appended(s, a) ELSE catalogue
        /\ resolver' = [resolver EXCEPT ![r] = [at |-> step, place |-> p, answer |-> a, dup |-> dup]]
    BY <1>11 DEF RetryDraft, ResolverTo
  <2>4. step \in {"retry", "refetch", "created"}
    OBVIOUS
  <2> QED  BY <1>9, <2>1, <2>2, <2>3, <2>4
<1> QED  BY <1>5, <1>6, <1>7, <1>8, <1>10, <1>11 DEF Resolution

-----------------------------------------------------------------------------
(* Every step.                                                             *)

\* The requests for popular places, the lists and the search cache.
Browse ==
  \/ \E b \in Browsers :
       \/ Popular(b) \/ SearchFails(b) \/ RecheckMatches(b) \/ AnswerPopular(b)
       \/ \E near \in SUBSET Places : SearchNearby(b, near)
       \/ \E list \in SUBSET RowIds : MatchNearby(b, list) \/ FallbackPopular(b, list)
  \/ \E near \in SUBSET Places : Revalidate(near)
  \/ RevalidationFails
  \/ NearbyAges
  \/ \E list \in SUBSET RowIds : ListPublished(list)
  \/ \E done \in BOOLEAN : ClearSearchCache(done)
  \/ CreateSession
  \/ SessionExpires

AutoDraft == \E b \in Browsers, p \in Places, suffix \in ClockSuffixes : AutoCreateDraft(b, p, suffix)

Edit ==
  \E i \in RowIds :
    \/ DeleteDestination(i)
    \/ \E s \in Slugs, written \in {"draft", "published", "archived"}, given \in BOOLEAN :
         UpdateDestination(i, s, written, given)

Fill ==
  \E c \in Commands :
    \/ ListWithoutPlace(c)
    \/ \E i \in RowIds : SkipRow(c, i) \/ \E p \in Places : SetPlaceId(c, i, p)

LEMMA StepKinds ==
  PlaceNext => \/ \E s \in Slugs : CreateDestination(s)
               \/ Edit \/ Browse \/ AutoDraft \/ Fill
               \/ \E r \in Resolvers : Resolution(r)
  BY DEF PlaceNext, Edit, Browse, AutoDraft, Fill, Resolution

\* AutoCreateDraft inserts a row under one of two slugs, or none.
LEMMA AutoDraftStep ==
  ASSUME PlaceInv, NEW b \in Browsers, NEW p \in Places, NEW suffix \in ClockSuffixes,
         AutoCreateDraft(b, p, suffix)
  PROVE  /\ Steady /\ Unmoved
         /\ \E list \in SUBSET Links :
              browser' = [browser EXCEPT ![b] = [at |-> "draft", near |-> browser[b].near \ {p},
                                                 list |-> list]]
<1> PICK s : s = IF Duplicate(Plain(p), p) = "slug" THEN <<NameOf[p], suffix>> ELSE Plain(p)
  OBVIOUS
<1>1. s \in Slugs
  BY DEF Slugs, Plain
<1>2. /\ dropped' = dropped
      /\ Duplicate(s, p) = "none" => Len(catalogue) < MaxRows
      /\ catalogue' = IF Duplicate(s, p) = "none" THEN Appended(s, p) ELSE catalogue
  BY DEF AutoCreateDraft
<1>3. Steady /\ Unmoved
  <2>1. CASE Duplicate(s, p) = "none"
    <3>1. p \in Places \union {NoPlace} /\ Len(catalogue) < MaxRows /\ catalogue' = Appended(s, p)
      BY <2>1, <1>2
    <3> QED  BY <2>1, <3>1, <1>1, <1>2, AppendStep
  <2>2. CASE Duplicate(s, p) # "none"
    BY <2>2, <1>2, NothingChanges
  <2> QED  BY <2>1, <2>2
<1> PICK list : list = IF Duplicate(s, p) = "none" /\ Duplicate(Plain(p), p) = "none"
                       THEN browser[b].list \union {<<Len(catalogue) + 1, s>>} ELSE browser[b].list
  OBVIOUS
<1>4. browser' = [browser EXCEPT ![b] = [at |-> "draft", near |-> browser[b].near \ {p}, list |-> list]]
  BY DEF AutoCreateDraft, BrowserTo
<1>5. browser[b].list \subseteq Links
  BY DEF PlaceInv, PlaceTypeOK
<1>6. Duplicate(s, p) = "none" => <<Len(catalogue) + 1, s>> \in Links
  <2>1. Len(catalogue) \in Nat
    BY RowFacts DEF PlaceInv
  <2> QED  BY <1>1, <1>2, <2>1, PlaceAssumption DEF Links
<1>7. list \in SUBSET Links
  BY <1>5, <1>6
<1> QED  BY <1>3, <1>4, <1>7

LEMMA SteadyStep ==
  ASSUME PlaceInv, PlaceNext
  PROVE  /\ Steady
         /\ \/ Unmoved
            \/ \E c \in Commands, i \in RowIds, p \in Places : SetPlaceId(c, i, p)
<1>1. CASE \E s \in Slugs : CreateDestination(s)
  <2> PICK s \in Slugs : CreateDestination(s)
    BY <1>1
  <2> QED  BY AppendStep DEF CreateDestination
<1>2. CASE Edit
  BY <1>2, EditStep DEF Edit
<1>3. CASE Browse
  <2>1. UNCHANGED <<catalogue, dropped>>
    BY <1>3 DEF Browse, Popular, SearchFails, RecheckMatches, AnswerPopular, SearchNearby, MatchNearby,
       FallbackPopular, Revalidate, RevalidationFails, NearbyAges, ListPublished, ClearSearchCache,
       CreateSession, SessionExpires
  <2> QED  BY <2>1, NothingChanges
<1>4. CASE AutoDraft
  BY <1>4, AutoDraftStep DEF AutoDraft
<1>5. CASE Fill
  <2>1. CASE \E c \in Commands, i \in RowIds, p \in Places : SetPlaceId(c, i, p)
    BY <2>1, SetPlaceStep
  <2>2. CASE UNCHANGED <<catalogue, dropped>>
    BY <2>2, NothingChanges
  <2> QED  BY <1>5, <2>1, <2>2 DEF Fill, ListWithoutPlace, SkipRow
<1>6. CASE \E r \in Resolvers : Resolution(r)
  BY <1>6, ResolutionStep
<1> QED  BY <1>1, <1>2, <1>3, <1>4, <1>5, <1>6, StepKinds

\* Which of the other variables a step may touch.
LEMMA Untouched ==
  ASSUME PlaceInv, PlaceNext
  PROVE  /\ resolver' = resolver \/ \E r \in Resolvers : Resolution(r)
         /\ UNCHANGED <<backfill, contested>> \/ Fill
  BY StepKinds DEF Resolution, Resolve, LookUpPlace, FetchDetails, InsertDraft, RetryDraft, Refetch, ResolveFails, StillThere,
     Edit, DeleteDestination, UpdateDestination, CreateDestination, AutoDraft, AutoCreateDraft,
     Fill, ListWithoutPlace, SkipRow, SetPlaceId,
     Browse, Popular, SearchFails, RecheckMatches, AnswerPopular, SearchNearby, MatchNearby,
     FallbackPopular, Revalidate, RevalidationFails, NearbyAges, ListPublished, ClearSearchCache,
     CreateSession, SessionExpires

LEMMA ResolverStep ==
  ASSUME PlaceInv, PlaceNext
  PROVE  ResolverInv' /\ ResolveFindsOrCreates' /\ resolver' \in [Resolvers -> ResolverType]
<1>1. CASE \E r \in Resolvers : Resolution(r)
  BY <1>1, ResolutionStep
<1>2. CASE resolver' = resolver
  <2>1. \A r \in Resolvers : RightOf(r)'
    BY <1>2, SteadyStep, OthersRight
  <2> QED  BY <1>2, <2>1, AllRight DEF PlaceInv, PlaceTypeOK, ResolverType
<1> QED  BY <1>1, <1>2, Untouched

LEMMA BackfillStep ==
  ASSUME PlaceInv, PlaceNext
  PROVE  /\ BackfillInv'
         /\ backfill' \in [Commands -> SUBSET (1..MaxRows)] /\ contested' \subseteq 1..MaxRows
<1> DEFINE Types == backfill' \in [Commands -> SUBSET (1..MaxRows)] /\ contested' \subseteq 1..MaxRows
<1>1. /\ backfill \in [Commands -> SUBSET (1..MaxRows)] /\ contested \subseteq 1..MaxRows
      /\ BackfillInv /\ RowIds \subseteq 1..MaxRows
  BY RowFacts DEF PlaceInv, PlaceTypeOK
<1>2. Steady
  BY SteadyStep
<1>3. ASSUME UNCHANGED <<backfill, contested>>, Unmoved
      PROVE  BackfillInv' /\ Types
  BY <1>1, <1>2, <1>3 DEF Steady, Unmoved, BackfillInv
<1>4. ASSUME NEW c \in Commands, ListWithoutPlace(c)
      PROVE  BackfillInv' /\ Types
  <2> PICK todo : todo = {i \in RowIds : /\ Alive(i) /\ catalogue[i].status = "published"
                                         /\ catalogue[i].place = NoPlace}
    OBVIOUS
  <2>1. /\ backfill' = [backfill EXCEPT ![c] = todo] /\ backfill[c] = {}
        /\ contested' = contested \union (todo \intersect UNION {backfill[d] : d \in Commands})
        /\ catalogue' = catalogue
    BY <1>4 DEF ListWithoutPlace
  <2>2. Types
    BY <1>1, <2>1
  <2>3. \A d \in Commands : backfill'[d] = IF d = c THEN todo ELSE backfill[d]
    BY <1>1, <2>1
  <2>4. \A d \in Commands : todo \intersect backfill[d] \subseteq contested' /\ contested \subseteq contested'
    BY <2>1
  <2>5. \A d, e \in Commands : d # e => backfill'[d] \intersect backfill'[e] \subseteq contested'
    BY <1>1, <2>3, <2>4 DEF BackfillInv
  <2>6. \A d \in Commands : \A i \in backfill'[d] :
          i \in RowIds' /\ (catalogue'[i].place # NoPlace => i \in contested')
    BY <1>1, <2>1, <2>3, <2>4 DEF BackfillInv, RowIds
  <2> QED  BY <2>2, <2>5, <2>6 DEF BackfillInv
<1>5. ASSUME NEW c \in Commands, NEW i \in RowIds, SkipRow(c, i) \/ \E p \in Places : SetPlaceId(c, i, p)
      PROVE  BackfillInv' /\ Types
  <2>1. /\ backfill' = [backfill EXCEPT ![c] = backfill[c] \ {i}] /\ i \in backfill[c]
        /\ contested' = contested
    BY <1>5 DEF SkipRow, SetPlaceId
  <2>2. Types
    BY <1>1, <2>1
  <2>3. \A d \in Commands : backfill'[d] = IF d = c THEN backfill[c] \ {i} ELSE backfill[d]
    BY <1>1, <2>1
  <2>4. \A j \in RowIds : j # i => catalogue'[j].place = catalogue[j].place
    BY <1>5, SetPlaceStep DEF SkipRow
  <2>5. \A d, e \in Commands : d # e => backfill'[d] \intersect backfill'[e] \subseteq contested'
    BY <1>1, <2>1, <2>3 DEF BackfillInv
  <2>6. ASSUME NEW d \in Commands, NEW j \in backfill'[d]
        PROVE  j \in RowIds' /\ (catalogue'[j].place # NoPlace => j \in contested')
    <3>1. j \in RowIds /\ j \in backfill[d]
      BY <1>1, <2>3 DEF BackfillInv
    <3>2. CASE j = i
      BY <3>1, <3>2, <1>1, <1>2, <2>1, <2>3 DEF BackfillInv, Steady
    <3>3. CASE j # i
      BY <3>1, <3>3, <1>1, <1>2, <2>1, <2>4 DEF BackfillInv, Steady
    <3> QED  BY <3>2, <3>3
  <2> QED  BY <2>2, <2>5, <2>6 DEF BackfillInv
<1> HIDE DEF Types
<1>6. BackfillInv' /\ Types
  <2>1. CASE Fill
    BY <2>1, <1>4, <1>5 DEF Fill
  <2>2. CASE UNCHANGED <<backfill, contested>>
    <3>1. CASE Unmoved
      BY <2>2, <3>1, <1>3
    <3>2. CASE \E c \in Commands, i \in RowIds, p \in Places : SetPlaceId(c, i, p)
      BY <3>2, <1>5
    <3> QED  BY <3>1, <3>2, SteadyStep
  <2> QED  BY <2>1, <2>2, Untouched
<1> QED  BY <1>6 DEF Types

-----------------------------------------------------------------------------
(* What is shown; and the bound on edits.                                  *)

BrowserType == [at : {"idle", "search", "match", "recheck", "draft", "fallback"},
                near : SUBSET Places, list : SUBSET Links]

\* The variables of the search cache and of what is shown.
ViewTypeOK ==
  /\ session \in BOOLEAN
  /\ nearby \in [places : SUBSET Places, age : {"none", "fresh", "stale"}, refreshing : BOOLEAN]
  /\ browser \in [Browsers -> BrowserType]
  /\ screen \subseteq Links

LEMMA LinksInRange ==
  ASSUME PlaceTypeOK, NEW list \in SUBSET RowIds
  PROVE  LinksTo(list) \subseteq Links
  BY RowFacts DEF LinksTo, Links

LEMMA ViewStep ==
  ASSUME PlaceInv, PlaceNext
  PROVE  ViewTypeOK'
<1>1. PlaceTypeOK /\ ViewTypeOK
  BY DEF PlaceInv, PlaceTypeOK, ViewTypeOK, BrowserType
<1>2. ASSUME UNCHANGED <<nearby, screen, browser>>, session' \in BOOLEAN
      PROVE  ViewTypeOK'
  BY <1>1, <1>2 DEF ViewTypeOK
<1>3. ASSUME NEW b \in Browsers, NEW x \in BrowserType, browser' = [browser EXCEPT ![b] = x],
             UNCHANGED <<session, screen>>,
             nearby' \in [places : SUBSET Places, age : {"none", "fresh", "stale"}, refreshing : BOOLEAN]
      PROVE  ViewTypeOK'
  BY <1>1, <1>3 DEF ViewTypeOK
<1>4. nearby.places \in SUBSET Places
  BY <1>1 DEF ViewTypeOK
<1>5. \A b \in Browsers : /\ browser[b] \in BrowserType /\ browser[b].near \in SUBSET Places
                          /\ browser[b].list \in SUBSET Links
  BY <1>1 DEF ViewTypeOK, BrowserType
<1>6. CASE \E b \in Browsers : Popular(b)
  <2> PICK b \in Browsers : Popular(b)
    BY <1>6
  <2> PICK x : x = IF nearby.age = "none" THEN [at |-> "search", near |-> {}, list |-> {}]
                   ELSE [at |-> "match", near |-> nearby.places, list |-> {}]
    OBVIOUS
  <2>1. x \in BrowserType
    BY <1>4 DEF BrowserType
  <2>2. browser' = [browser EXCEPT ![b] = x] /\ UNCHANGED <<session, screen>>
    BY DEF Popular, BrowserTo
  <2>3. nearby' \in [places : SUBSET Places, age : {"none", "fresh", "stale"}, refreshing : BOOLEAN]
    BY <1>1 DEF Popular, ViewTypeOK
  <2> QED  BY <1>3, <2>1, <2>2, <2>3
<1>7. CASE \E b \in Browsers : SearchFails(b)
  <2> PICK b \in Browsers : SearchFails(b)
    BY <1>7
  <2> PICK x : x = IF nearby.age = "none" THEN [at |-> "fallback", near |-> {}, list |-> {}]
                   ELSE [at |-> "match", near |-> nearby.places, list |-> {}]
    OBVIOUS
  <2>1. x \in BrowserType
    BY <1>4 DEF BrowserType
  <2>2. browser' = [browser EXCEPT ![b] = x] /\ UNCHANGED <<session, screen, nearby>>
    BY DEF SearchFails, BrowserTo
  <2> QED  BY <1>1, <1>3, <2>1, <2>2 DEF ViewTypeOK
<1>8. CASE \E b \in Browsers, near \in SUBSET Places : SearchNearby(b, near)
  <2> PICK b \in Browsers, near \in SUBSET Places : SearchNearby(b, near)
    BY <1>8
  <2>1. [at |-> "match", near |-> near, list |-> {}] \in BrowserType
    BY DEF BrowserType
  <2>2. /\ browser' = [browser EXCEPT ![b] = [at |-> "match", near |-> near, list |-> {}]]
        /\ UNCHANGED <<session, screen>>
    BY DEF SearchNearby, BrowserTo
  <2>3. nearby' \in [places : SUBSET Places, age : {"none", "fresh", "stale"}, refreshing : BOOLEAN]
    BY <1>1 DEF SearchNearby, ViewTypeOK
  <2> QED  BY <1>3, <2>1, <2>2, <2>3
<1>9. CASE \E b \in Browsers : RecheckMatches(b)
  <2> PICK b \in Browsers : RecheckMatches(b)
    BY <1>9
  <2> PICK near : near = browser[b].near \ {catalogue[link[1]].place : link \in browser[b].list}
    OBVIOUS
  <2> PICK list : list = browser[b].list
    OBVIOUS
  <2>1. [at |-> "draft", near |-> near, list |-> list] \in BrowserType
    BY <1>5 DEF BrowserType
  <2>2. /\ browser' = [browser EXCEPT ![b] = [at |-> "draft", near |-> near, list |-> list]]
        /\ UNCHANGED <<session, screen, nearby>>
    BY DEF RecheckMatches, BrowserTo
  <2> QED  BY <1>1, <1>3, <2>1, <2>2 DEF ViewTypeOK
<1>10. CASE \E b \in Browsers, list \in SUBSET RowIds : MatchNearby(b, list)
  <2> PICK b \in Browsers, list \in SUBSET RowIds : MatchNearby(b, list)
    BY <1>10
  <2> PICK links, near : links = LinksTo(list) /\ near = browser[b].near
    OBVIOUS
  <2>1. [at |-> "recheck", near |-> near, list |-> links] \in BrowserType
    BY <1>1, <1>5, LinksInRange DEF BrowserType
  <2>2. /\ browser' = [browser EXCEPT ![b] = [at |-> "recheck", near |-> near, list |-> links]]
        /\ UNCHANGED <<session, screen, nearby>>
    BY DEF MatchNearby, BrowserTo
  <2> QED  BY <1>1, <1>3, <2>1, <2>2 DEF ViewTypeOK
<1>11. CASE AutoDraft
  <2> PICK b \in Browsers, p \in Places, suffix \in ClockSuffixes : AutoCreateDraft(b, p, suffix)
    BY <1>11 DEF AutoDraft
  <2> PICK near : near = browser[b].near \ {p}
    OBVIOUS
  <2> PICK list \in SUBSET Links :
        browser' = [browser EXCEPT ![b] = [at |-> "draft", near |-> near, list |-> list]]
    BY AutoDraftStep
  <2>1. [at |-> "draft", near |-> near, list |-> list] \in BrowserType
    BY <1>5 DEF BrowserType
  <2>2. UNCHANGED <<session, screen, nearby>>
    BY DEF AutoCreateDraft
  <2> QED  BY <1>1, <1>3, <2>1, <2>2 DEF ViewTypeOK
<1>12. CASE \E b \in Browsers : AnswerPopular(b) \/ \E list \in SUBSET RowIds : FallbackPopular(b, list)
  <2> PICK b \in Browsers : AnswerPopular(b) \/ \E list \in SUBSET RowIds : FallbackPopular(b, list)
    BY <1>12
  <2>1. screen' \subseteq Links /\ UNCHANGED <<session, nearby>>
    BY <1>1, <1>5, LinksInRange DEF AnswerPopular, FallbackPopular, Show, ViewTypeOK
  <2>2. \/ browser' = [browser EXCEPT ![b] = NoBrowse]
        \/ browser' = [browser EXCEPT ![b] = [at |-> "fallback", near |-> {}, list |-> {}]]
    BY DEF AnswerPopular, FallbackPopular, Show, BrowserTo
  <2>3. NoBrowse \in BrowserType /\ [at |-> "fallback", near |-> {}, list |-> {}] \in BrowserType
    BY DEF BrowserType, NoBrowse
  <2> QED  BY <1>1, <2>1, <2>2, <2>3 DEF ViewTypeOK
<1>13. CASE \E list \in SUBSET RowIds : ListPublished(list)
  BY <1>1, <1>13, LinksInRange DEF ListPublished, ViewTypeOK
<1>14. CASE \/ \E near \in SUBSET Places : Revalidate(near)
            \/ RevalidationFails \/ NearbyAges
            \/ \E done \in BOOLEAN : ClearSearchCache(done)
  <2>1. screen' \subseteq Links /\ browser' \in [Browsers -> BrowserType] /\ session' \in BOOLEAN
    <3>1. UNCHANGED <<screen, browser>>
      BY <1>14 DEF Revalidate, RevalidationFails, NearbyAges, ClearSearchCache
    <3>2. session' \in BOOLEAN
      <4>1. CASE \E done \in BOOLEAN : ClearSearchCache(done)
        <5> PICK done \in BOOLEAN : ClearSearchCache(done)
          BY <4>1
        <5>1. session' = (session /\ ~done)
          BY DEF ClearSearchCache
        <5> QED  BY <5>1
      <4>2. CASE session' = session
        BY <1>1, <4>2 DEF ViewTypeOK
      <4> QED  BY <1>14, <4>1, <4>2 DEF Revalidate, RevalidationFails, NearbyAges
    <3> QED  BY <1>1, <3>1, <3>2 DEF ViewTypeOK
  <2>2. nearby' \in [places : SUBSET Places, age : {"none", "fresh", "stale"}, refreshing : BOOLEAN]
    <3>1. CASE \E near \in SUBSET Places : Revalidate(near)
      BY <3>1 DEF Revalidate
    <3>2. CASE RevalidationFails
      BY <1>1, <3>2 DEF RevalidationFails, ViewTypeOK
    <3>3. CASE NearbyAges
      BY <1>1, <3>3 DEF NearbyAges, Wiped, NoNearby, ViewTypeOK
    <3>4. CASE \E done \in BOOLEAN : ClearSearchCache(done)
      BY <1>1, <3>4 DEF ClearSearchCache, Wiped, NoNearby, ViewTypeOK
    <3> QED  BY <1>14, <3>1, <3>2, <3>3, <3>4
  <2> QED  BY <2>1, <2>2 DEF ViewTypeOK
<1>15. CASE Edit
  BY <1>1, <1>15 DEF Edit, DeleteDestination, UpdateDestination, Wiped, NoNearby, ViewTypeOK
<1>16. CASE CreateSession \/ SessionExpires
  BY <1>2, <1>16 DEF CreateSession, SessionExpires
<1>17. CASE \/ \E s \in Slugs : CreateDestination(s)
            \/ Fill
            \/ \E r \in Resolvers : Resolution(r)
  <2>1. UNCHANGED <<session, nearby, screen, browser>>
    BY <1>17 DEF CreateDestination, Fill, ListWithoutPlace, SkipRow, SetPlaceId, Resolution, Resolve,
       LookUpPlace, FetchDetails, InsertDraft, RetryDraft, Refetch, ResolveFails, StillThere
  <2> QED  BY <1>1, <1>2, <2>1 DEF ViewTypeOK
<1> QED
  BY <1>6, <1>7, <1>8, <1>9, <1>10, <1>11, <1>12, <1>13, <1>14, <1>15, <1>16, <1>17, StepKinds DEF Browse

\* The bound on edits, and the edits that have not cleared the cache.
LEMMA EditsStep ==
  ASSUME PlaceInv, PlaceNext
  PROVE  edits' \in 0..MaxEdits /\ clearing' \in 0..MaxEdits /\ clearing' <= edits'
<1>1. edits \in 0..MaxEdits /\ clearing \in 0..MaxEdits /\ clearing <= edits /\ MaxEdits \in Nat
  BY PlaceAssumption DEF PlaceInv, PlaceTypeOK
<1>2. CASE Edit
  BY <1>1, <1>2 DEF Edit, DeleteDestination, UpdateDestination
<1>3. CASE \E done \in BOOLEAN : ClearSearchCache(done)
  BY <1>1, <1>3 DEF ClearSearchCache
<1>4. CASE UNCHANGED <<edits, clearing>>
  BY <1>1, <1>4
<1> QED
  BY <1>2, <1>3, <1>4, StepKinds DEF CreateDestination, AutoDraft, AutoCreateDraft,
     Fill, ListWithoutPlace, SkipRow, SetPlaceId,
     Resolution, Resolve, LookUpPlace, FetchDetails, InsertDraft, RetryDraft, Refetch, ResolveFails, StillThere,
     Browse, Popular, SearchFails, RecheckMatches, AnswerPopular, SearchNearby, MatchNearby,
     FallbackPopular, Revalidate, RevalidationFails, NearbyAges, ListPublished, CreateSession, SessionExpires

\* Every step keeps the invariant; ListedOpens follows from the unique slugs.
LEMMA PlaceStep == PlaceInv /\ [PlaceNext]_placeVars => PlaceInv'
<1> SUFFICES ASSUME PlaceInv, [PlaceNext]_placeVars PROVE PlaceInv'
  OBVIOUS
<1>1. CASE UNCHANGED placeVars
  BY <1>1 DEF placeVars, PlaceInv, PlaceTypeOK, UniqueInv, ResolverInv, BackfillInv, ResolveFindsOrCreates,
     ListedOpens, GetMobile, RowIds, Alive, Known, RowsOf
<1>2. CASE PlaceNext
  <2>1. Steady
    BY <1>2, SteadyStep
  <2>2. ResolverInv' /\ ResolveFindsOrCreates' /\ resolver' \in [Resolvers -> ResolverType]
    BY <1>2, ResolverStep
  <2>3. /\ BackfillInv'
        /\ backfill' \in [Commands -> SUBSET (1..MaxRows)] /\ contested' \subseteq 1..MaxRows
    BY <1>2, BackfillStep
  <2>4. ViewTypeOK'
    BY <1>2, ViewStep
  <2>5. edits' \in 0..MaxEdits /\ clearing' \in 0..MaxEdits /\ clearing' <= edits'
    BY <1>2, EditsStep
  <2>6. PlaceTypeOK'
    BY <2>1, <2>2, <2>3, <2>4, <2>5 DEF PlaceTypeOK, Steady, ViewTypeOK, BrowserType, ResolverType
  <2>7. UniqueInv'
    BY <2>1 DEF Steady
  <2>8. ListedOpens'
    BY <2>7 DEF UniqueInv, ListedOpens, GetMobile, Alive
  <2> QED  BY <2>2, <2>3, <2>5, <2>6, <2>7, <2>8 DEF PlaceInv
<1> QED  BY <1>1, <1>2

LEMMA PlaceInvariant == PlaceSpec => []PlaceInv
<1>1. PlaceInit => PlaceInv
  <2> SUFFICES ASSUME PlaceInit PROVE PlaceInv
    OBVIOUS
  <2>1. RowIds = {}
    BY EmptySeq DEF PlaceInit, RowIds
  <2>2. PlaceTypeOK
    <3>1. catalogue \in Seq(Row) /\ Len(catalogue) <= MaxRows
      BY EmptySeq, PlaceAssumption DEF PlaceInit
    <3>2. nearby \in [places : SUBSET Places, age : {"none", "fresh", "stale"}, refreshing : BOOLEAN]
      BY DEF PlaceInit, NoNearby
    <3>3. NoResolve \in ResolverType /\ NoBrowse \in BrowserType
      BY DEF NoResolve, NoBrowse, ResolverType, BrowserType
    <3>4. resolver \in [Resolvers -> ResolverType] /\ browser \in [Browsers -> BrowserType]
      BY <3>3 DEF PlaceInit
    <3>5. backfill \in [Commands -> SUBSET (1..MaxRows)] /\ 0 \in 0..MaxEdits
      BY PlaceAssumption DEF PlaceInit
    <3>6. screen \subseteq Links /\ dropped \subseteq Places /\ contested \subseteq 1..MaxRows
      BY DEF PlaceInit
    <3>7. session \in BOOLEAN /\ clearing = 0 /\ edits = 0
      BY DEF PlaceInit
    <3> QED  BY <3>1, <3>2, <3>4, <3>5, <3>6, <3>7 DEF PlaceTypeOK, ResolverType, BrowserType
  <2>3. UniqueInv /\ ListedOpens
    BY <2>1 DEF PlaceInit, UniqueInv, ListedOpens
  <2>4. ResolverInv /\ ResolveFindsOrCreates
    BY DEF PlaceInit, ResolverInv, ResolveFindsOrCreates, NoResolve
  <2>5. BackfillInv /\ clearing <= edits
    BY DEF PlaceInit, BackfillInv
  <2> QED  BY <2>2, <2>3, <2>4, <2>5 DEF PlaceInv
<1> QED  BY <1>1, PlaceStep, PTL DEF PlaceSpec

\* A destination keeps its place until it is deleted, unless two runs of the command
\* had listed it at the same time (backfill-google-places/main.go:91).
THEOREM IdentifiersKept == PlaceSpec => PlaceIdKept
<1> DEFINE Kept == \A i \in RowIds : catalogue[i].place # NoPlace =>
             \/ catalogue'[i].place = catalogue[i].place
             \/ catalogue'[i].status = "gone"
             \/ i \in contested
<1>1. PlaceInv /\ [PlaceNext]_placeVars => [Kept]_placeVars
  <2> SUFFICES ASSUME PlaceInv, PlaceNext PROVE Kept
    OBVIOUS
  <2>1. CASE Unmoved
    BY <2>1 DEF Unmoved
  <2>2. CASE \E c \in Commands, i \in RowIds, p \in Places : SetPlaceId(c, i, p)
    BY <2>2, SetPlaceStep
  <2> QED  BY <2>1, <2>2, SteadyStep
<1> QED  BY <1>1, PlaceInvariant, PTL DEF PlaceSpec, PlaceIdKept

\* A request finds its place's destination or creates the answered place's; one that
\* met a duplicate fails only for taken slugs, another identifier in Google's answer,
\* or a destination dropped meanwhile (places.go:286).
THEOREM PlacesResolved == PlaceSpec => []ResolveFindsOrCreates
  BY PlaceInvariant, PTL DEF PlaceInv

\* What the app lists can be opened from the list (destinations.go:709).
THEOREM ListsOpen == PlaceSpec => []ListedOpens
  BY PlaceInvariant, PTL DEF PlaceInv

-----------------------------------------------------------------------------
(* Cached details and hero images.                                         *)

LEMMA DetailStep == DetailInv /\ [DetailNext]_detailVars => DetailInv'
<1> SUFFICES ASSUME DetailInv, [DetailNext]_detailVars PROVE DetailInv'
  OBVIOUS
<1> USE DetailAssumption DEF DetailInv
<1>1. ASSUME NEW r \in Readers, NEW p \in CachedPlaces, NEW read \in BOOLEAN,
             AskDetails(r, p, read) \/ AskAnyway(r, p)
      PROVE  DetailInv'
  BY <1>1 DEF AskDetails, AskAnyway, DetailTypeOK, OutdatedInv
<1>2. ASSUME NEW r \in Readers, GiveUpDetails(r) \/ \E p \in CachedPlaces : SetPlace(r, p)
      PROVE  DetailInv'
  BY <1>2 DEF SetPlace, GiveUpDetails, DetailTypeOK, OutdatedInv
<1>3. ASSUME NEW p \in CachedPlaces, DetailsAge(p)
      PROVE  DetailInv'
  BY <1>3 DEF DetailsAge, DetailTypeOK, OutdatedInv
<1>4. ASSUME NEW cleared \in SUBSET CachedPlaces, ClearDetails(cleared)
      PROVE  DetailInv'
  BY <1>4 DEF ClearDetails, DetailTypeOK, OutdatedInv
<1>5. ASSUME NEW f \in Fetchers, NEW p \in CachedPlaces, NEW read \in BOOLEAN, EnsureHeroImage(f, p, read)
      PROVE  DetailInv'
  <2>1. DetailTypeOK'
    BY <1>5 DEF EnsureHeroImage, DetailTypeOK
  <2>2. ASSUME NEW g \in Fetchers, NEW q \in CachedPlaces, fetcher'[g] = q, hero'[q] \in Images
        PROVE  g \in outdated'
    <3>1. CASE g = f
      BY <1>5, <2>2, <3>1 DEF EnsureHeroImage, DetailTypeOK
    <3>2. CASE g # f
      BY <1>5, <2>2, <3>2 DEF EnsureHeroImage, DetailTypeOK, OutdatedInv
    <3> QED  BY <3>1, <3>2
  <2> QED  BY <2>1, <2>2 DEF OutdatedInv
<1>6. ASSUME NEW f \in Fetchers, NEW found \in Images \union {"missing"}, UpdateHeroImage(f, found)
      PROVE  DetailInv'
  <2>1. DetailTypeOK'
    BY <1>6 DEF UpdateHeroImage, DetailTypeOK
  <2>2. ASSUME NEW g \in Fetchers, NEW p \in CachedPlaces, fetcher'[g] = p, hero'[p] \in Images
        PROVE  g \in outdated'
    <3>1. CASE g = f
      BY <1>6, <2>2, <3>1 DEF UpdateHeroImage, DetailTypeOK
    <3>2. CASE g # f
      BY <1>6, <2>2, <3>2 DEF UpdateHeroImage, DetailTypeOK, OutdatedInv
    <3> QED  BY <3>1, <3>2
  <2> QED  BY <2>1, <2>2 DEF OutdatedInv
<1>7. ASSUME NEW f \in Fetchers, ForgetHeroFetch(f)
      PROVE  DetailInv'
  BY <1>7 DEF ForgetHeroFetch, DetailTypeOK, OutdatedInv
<1>8. CASE UNCHANGED detailVars
  BY <1>8 DEF detailVars, DetailTypeOK, OutdatedInv
<1> QED  BY <1>1, <1>2, <1>3, <1>4, <1>5, <1>6, <1>7, <1>8 DEF DetailNext

LEMMA DetailInvariant == DetailSpec => []DetailInv
<1>1. DetailInit => DetailInv
  BY DetailAssumption DEF DetailInit, DetailInv, DetailTypeOK, OutdatedInv
<1> QED  BY <1>1, DetailStep, PTL DEF DetailSpec

\* An image that was found is replaced only by a goroutine that read the row before
\* the image was there, or could not read it (cache.go:181).
THEOREM ImagesKept == DetailSpec => HeroKept
<1> DEFINE Kept == \A p \in CachedPlaces :
             hero[p] \in Images /\ hero'[p] # hero[p] =>
               \/ hero'[p] = "none" /\ details'[p] \in {"none", "fresh"}
               \/ \E f \in outdated : fetcher[f] = p /\ fetcher'[f] = NoCachedPlace
<1>1. DetailInv /\ [DetailNext]_detailVars => [Kept]_detailVars
  <2> SUFFICES ASSUME DetailInv, DetailNext,
                      NEW p \in CachedPlaces, hero[p] \in Images, hero'[p] # hero[p]
               PROVE  \/ hero'[p] = "none" /\ details'[p] \in {"none", "fresh"}
                      \/ \E f \in outdated : fetcher[f] = p /\ fetcher'[f] = NoCachedPlace
    OBVIOUS
  <2> USE DEF DetailInv
  <2>1. ASSUME NEW r \in Readers, NEW q \in CachedPlaces, SetPlace(r, q)
        PROVE  hero'[p] = "none" /\ details'[p] = "fresh"
    BY <2>1 DEF SetPlace, DetailTypeOK
  <2>2. ASSUME NEW cleared \in SUBSET CachedPlaces, ClearDetails(cleared)
        PROVE  hero'[p] = "none" /\ details'[p] = "none"
    BY <2>2 DEF ClearDetails, DetailTypeOK
  <2>3. ASSUME NEW f \in Fetchers, NEW found \in Images \union {"missing"}, UpdateHeroImage(f, found)
        PROVE  f \in outdated /\ fetcher[f] = p /\ fetcher'[f] = NoCachedPlace
    BY <2>3 DEF UpdateHeroImage, DetailTypeOK, OutdatedInv
  <2> QED
    BY <2>1, <2>2, <2>3 DEF DetailNext, AskDetails, AskAnyway, GiveUpDetails,
       DetailsAge, EnsureHeroImage, ForgetHeroFetch
<1> QED  BY <1>1, DetailInvariant, PTL DEF DetailSpec, HeroKept

-----------------------------------------------------------------------------
(* Events, answers and saves.                                              *)

LEMMA CalendarInitInv == CalendarInit => CalendarInv
<1> SUFFICES ASSUME CalendarInit PROVE CalendarInv
  OBVIOUS
<1>1. CalendarTypeOK
  BY DEF CalendarInit, CalendarTypeOK, NoChange, Statuses, Answers, NoSave
<1>2. OvertakenInv /\ ErasingInv /\ AnswersKept /\ DeletionErases
  BY CalendarAssumption DEF CalendarInit, OvertakenInv, ErasingInv, AnswersKept, DeletionErases, NoChange, NoSave
<1> QED  BY <1>1, <1>2 DEF CalendarInv

\* The status of an event is written.
LEMMA StatusStep ==
  ASSUME CalendarInv,
         NEW e \in Events,
         CreateEvent(e) \/ DeleteEvent(e) \/ \E s \in Statuses : UpdateEvent(e, s)
  PROVE  CalendarInv'
<1>1. PICK s \in Statuses :
        /\ status' = [status EXCEPT ![e] = s]
        /\ overtaken \subseteq overtaken' /\ overtaken' \subseteq StatusRequests
        /\ s = "cancelled" => Reading(e) \subseteq overtaken'
        /\ UNCHANGED <<attendees, saves, accounts, erasing, statusRequest, answer, lateSaves>>
  BY DEF CreateEvent, DeleteEvent, UpdateEvent, SetStatus, Statuses, Reading, CalendarInv, CalendarTypeOK
<1>2. CalendarTypeOK'
  BY <1>1 DEF CalendarInv, CalendarTypeOK, Statuses
<1>3. OvertakenInv'
  BY <1>1 DEF CalendarInv, CalendarTypeOK, OvertakenInv, Reading, Statuses
<1>4. ErasingInv' /\ AnswersKept' /\ DeletionErases'
  BY <1>1 DEF CalendarInv, ErasingInv, AnswersKept, DeletionErases
<1> QED  BY <1>2, <1>3, <1>4 DEF CalendarInv

\* A status change reads, or writes.
LEMMA ChangeStep ==
  ASSUME CalendarInv,
         NEW r \in StatusRequests,
         \/ \E e \in Events, s \in Statuses : CheckStatus(r, e, s)
         \/ \E written \in BOOLEAN : WriteStatus(r, written)
  PROVE  CalendarInv'
<1> USE DEF CalendarInv
<1>1. CASE \E e \in Events, s \in Statuses : CheckStatus(r, e, s)
  <2> PICK e \in Events, s \in Statuses : CheckStatus(r, e, s)
    BY <1>1
  <2>1. status[e] # "cancelled"
    BY DEF CheckStatus, validTransitions
  <2>2. CalendarTypeOK'
    BY DEF CheckStatus, CalendarTypeOK, Statuses
  <2>3. OvertakenInv'
    BY <2>1, CalendarAssumption DEF CheckStatus, CalendarTypeOK, OvertakenInv
  <2>4. ErasingInv' /\ AnswersKept' /\ DeletionErases'
    BY DEF CheckStatus, ErasingInv, AnswersKept, DeletionErases
  <2> QED  BY <2>2, <2>3, <2>4
<1>2. CASE \E written \in BOOLEAN : WriteStatus(r, written)
  <2> PICK written \in BOOLEAN : WriteStatus(r, written)
    BY <1>2
  <2>1. CalendarTypeOK'
    BY DEF WriteStatus, CalendarTypeOK, NoChange, Statuses, Reading
  <2>2. OvertakenInv'
    BY CalendarAssumption DEF WriteStatus, CalendarTypeOK, OvertakenInv, NoChange, Reading, Statuses
  <2>3. ErasingInv' /\ AnswersKept' /\ DeletionErases'
    BY DEF WriteStatus, ErasingInv, AnswersKept, DeletionErases
  <2> QED  BY <2>1, <2>2, <2>3
<1> QED  BY <1>1, <1>2

\* Users answer, leave and save.
LEMMA GuestStep ==
  ASSUME CalendarInv,
         NEW u \in Guests, NEW e \in Events,
         LeaveEvent(u, e) \/ SaveEvent(u, e) \/ \E a \in Answers : AttendEvent(u, e, a)
  PROVE  CalendarInv'
<1> USE DEF CalendarInv
<1>1. CASE LeaveEvent(u, e)
  <2>1. CalendarTypeOK'
    BY <1>1 DEF LeaveEvent, CalendarTypeOK
  <2>2. AnswersKept'
    BY <1>1 DEF LeaveEvent, CalendarTypeOK, AnswersKept, Answers
  <2>3. OvertakenInv' /\ ErasingInv' /\ DeletionErases'
    BY <1>1 DEF LeaveEvent, OvertakenInv, ErasingInv, DeletionErases
  <2> QED  BY <2>1, <2>2, <2>3
<1>2. CASE SaveEvent(u, e)
  <2>1. CalendarTypeOK'
    BY <1>2 DEF SaveEvent, CalendarTypeOK
  <2>2. ErasingInv'
    <3> SUFFICES ASSUME NEW v \in Guests, erasing[v] # {NoSave}
                 PROVE  /\ v \in accounts
                        /\ \A x \in erasing[v] : x[1] = v
                        /\ \A x \in saves' : x[1] = v => x \in erasing[v] \/ x \in lateSaves'
      BY <1>2 DEF SaveEvent, ErasingInv
    <3> QED  BY <1>2 DEF SaveEvent, ErasingInv
  <2>3. DeletionErases'
    BY <1>2 DEF SaveEvent, DeletionErases
  <2>4. OvertakenInv' /\ AnswersKept'
    BY <1>2 DEF SaveEvent, OvertakenInv, AnswersKept
  <2> QED  BY <2>1, <2>2, <2>3, <2>4
<1>3. CASE \E a \in Answers : AttendEvent(u, e, a)
  <2> PICK a \in Answers : AttendEvent(u, e, a)
    BY <1>3
  <2>1. CalendarTypeOK'
    BY DEF AttendEvent, CalendarTypeOK
  <2>2. AnswersKept'
    BY DEF AttendEvent, CalendarTypeOK, AnswersKept, Answers
  <2>3. OvertakenInv' /\ ErasingInv' /\ DeletionErases'
    BY DEF AttendEvent, OvertakenInv, ErasingInv, DeletionErases
  <2> QED  BY <2>1, <2>2, <2>3
<1> QED  BY <1>1, <1>2, <1>3

\* An account is deleted.
LEMMA DeletionStep ==
  ASSUME CalendarInv,
         NEW u \in Guests,
         EraseSaves(u) \/ DeleteUser(u) \/ RollBackDeletion(u)
  PROVE  CalendarInv'
<1> USE DEF CalendarInv
<1>1. CASE EraseSaves(u)
  <2>1. CalendarTypeOK'
    BY <1>1 DEF EraseSaves, CalendarTypeOK
  <2>2. ErasingInv'
    BY <1>1 DEF EraseSaves, CalendarTypeOK, ErasingInv
  <2>3. OvertakenInv' /\ AnswersKept' /\ DeletionErases'
    BY <1>1 DEF EraseSaves, OvertakenInv, AnswersKept, DeletionErases
  <2> QED  BY <2>1, <2>2, <2>3
<1>2. CASE DeleteUser(u)
  <2>1. \A v \in Guests \ {u} : erasing[v] # {NoSave} => erasing[v] \subseteq saves'
    BY <1>2 DEF DeleteUser, CalendarTypeOK, ErasingInv
  <2>2. CalendarTypeOK'
    BY <1>2, <2>1 DEF DeleteUser, CalendarTypeOK
  <2>3. ErasingInv'
    BY <1>2 DEF DeleteUser, CalendarTypeOK, ErasingInv
  <2>4. AnswersKept'
    BY <1>2 DEF DeleteUser, CalendarTypeOK, AnswersKept, Answers
  <2>5. DeletionErases'
    BY <1>2 DEF DeleteUser, CalendarTypeOK, ErasingInv, DeletionErases
  <2>6. OvertakenInv'
    BY <1>2 DEF DeleteUser, OvertakenInv
  <2> QED  BY <2>2, <2>3, <2>4, <2>5, <2>6
<1>3. CASE RollBackDeletion(u)
  <2>1. CalendarTypeOK' /\ ErasingInv'
    BY <1>3 DEF RollBackDeletion, CalendarTypeOK, ErasingInv
  <2>2. OvertakenInv' /\ AnswersKept' /\ DeletionErases'
    BY <1>3 DEF RollBackDeletion, OvertakenInv, AnswersKept, DeletionErases
  <2> QED  BY <2>1, <2>2
<1> QED  BY <1>1, <1>2, <1>3

LEMMA CalendarStep == CalendarInv /\ [CalendarNext]_calendarVars => CalendarInv'
<1> SUFFICES ASSUME CalendarInv, [CalendarNext]_calendarVars PROVE CalendarInv'
  OBVIOUS
<1>1. CASE UNCHANGED calendarVars
  BY <1>1 DEF calendarVars, CalendarInv, CalendarTypeOK, OvertakenInv, ErasingInv, AnswersKept, DeletionErases
<1>2. CASE CalendarNext
  BY <1>2, StatusStep, ChangeStep, GuestStep, DeletionStep DEF CalendarNext
<1> QED  BY <1>1, <1>2

LEMMA CalendarInvariant == CalendarSpec => []CalendarInv
  BY CalendarInitInv, CalendarStep, PTL DEF CalendarSpec

\* A cancelled event comes back by an edit, or by a change overtaken by its
\* cancellation only (events.go:642).
THEOREM CancelledForGood == CalendarSpec => CancelledStays
<1> DEFINE Kept == \A e \in Events : status[e] = "cancelled" /\ status'[e] # "cancelled" =>
             \/ statusRequest' = statusRequest
             \/ \E r \in overtaken : statusRequest[r].event = e /\ statusRequest'[r] = NoChange
<1>1. CalendarInv /\ [CalendarNext]_calendarVars => [Kept]_calendarVars
  <2> SUFFICES ASSUME CalendarInv, CalendarNext,
                      NEW e \in Events, status[e] = "cancelled", status'[e] # "cancelled"
               PROVE  \/ statusRequest' = statusRequest
                      \/ \E r \in overtaken : statusRequest[r].event = e /\ statusRequest'[r] = NoChange
    OBVIOUS
  <2>1. CASE \E r \in StatusRequests, written \in BOOLEAN : WriteStatus(r, written)
    <3> PICK r \in StatusRequests, written \in BOOLEAN : WriteStatus(r, written)
      BY <2>1
    <3>1. statusRequest[r].event = e /\ statusRequest'[r] = NoChange
      BY DEF WriteStatus, CalendarInv, CalendarTypeOK
    <3> QED  BY <3>1 DEF CalendarInv, OvertakenInv
  <2>2. CASE \E f \in Events : \/ CreateEvent(f) \/ DeleteEvent(f)
                               \/ \E s \in Statuses : UpdateEvent(f, s)
    BY <2>2 DEF CreateEvent, DeleteEvent, UpdateEvent
  <2>3. CASE status' = status
    BY <2>3
  <2> QED
    BY <2>1, <2>2, <2>3 DEF CalendarNext, CheckStatus, LeaveEvent, SaveEvent, AttendEvent, EraseSaves,
       DeleteUser, RollBackDeletion
<1> QED  BY <1>1, CalendarInvariant, PTL DEF CalendarSpec, CancelledStays

\* A user's last answer is among his rows, and one who left, or whose account is gone,
\* has none (actions.go:478).
THEOREM AnswersRecorded == CalendarSpec => []AnswersKept
  BY CalendarInvariant, PTL DEF CalendarInv

\* A deleted account leaves only saves made during its deletion, or afterwards with a
\* token that is still good (account.go:78).
THEOREM AccountsErased == CalendarSpec => []DeletionErases
  BY CalendarInvariant, PTL DEF CalendarInv

-----------------------------------------------------------------------------
(* The keys that tokens are checked with.                                  *)

\* A set that is fetched holds what is served now, for one TTL (auth.go:111).
LEMMA Fetched ==
  ASSUME KeyInv, RefreshLocked
  PROVE  /\ keys' \subseteq Kids
         /\ expiry' \in 0..(LastKeyTick + KeyTTL)
         /\ \A k \in keys' : servedUntil[k] = tick /\ expiry' <= servedUntil[k] + KeyTTL
  BY KeyAssumption DEF KeyInv, KeyTypeOK, ServedInv, RefreshLocked

LEMMA KeyStep == KeyInv /\ [KeyNext]_keyVars => KeyInv'
<1> SUFFICES ASSUME KeyInv, [KeyNext]_keyVars PROVE KeyInv'
  OBVIOUS
<1> USE KeyAssumption DEF KeyInv
<1>1. CASE Tick
  <2>1. KeyTypeOK'
    BY <1>1 DEF Tick, KeyTypeOK
  <2>2. \A k \in Kids : servedUntil[k] <= servedUntil'[k] /\ servedUntil[k] \in Nat /\ servedUntil'[k] \in Nat
    BY <1>1, <2>1 DEF Tick, KeyTypeOK, ServedInv
  <2>3. \A k \in keys : expiry <= servedUntil'[k] + KeyTTL
    BY <2>2 DEF KeyTypeOK, ServedInv
  <2> QED  BY <1>1, <2>1, <2>3 DEF Tick, KeyTypeOK, ServedInv
<1>2. CASE \E new \in SUBSET Kids : Rotate(new)
  <2> PICK new \in SUBSET Kids : Rotate(new)
    BY <1>2
  <2>1. KeyTypeOK'
    BY DEF Rotate, KeyTypeOK
  <2>2. \A k \in Kids : servedUntil[k] <= servedUntil'[k] /\ servedUntil[k] \in Nat /\ servedUntil'[k] \in Nat
    BY <2>1 DEF Rotate, KeyTypeOK, ServedInv
  <2>3. \A k \in keys : expiry <= servedUntil'[k] + KeyTTL
    BY <2>2 DEF KeyTypeOK, ServedInv
  <2> QED  BY <2>1, <2>3 DEF Rotate, KeyTypeOK, ServedInv
<1>3. CASE \E k \in Kids : LookUpCached(k) \/ LookUpStale(k)
  BY <1>3 DEF LookUpCached, LookUpStale, Decide, KeyTypeOK, Verdict, ServedInv
<1>4. CASE \E r \in TokenRequests, k \in Kids : LookUpRefreshed(r, k)
  <2> PICK r \in TokenRequests, k \in Kids : LookUpRefreshed(r, k)
    BY <1>4
  <2>1. RefreshLocked /\ UNCHANGED <<tick, published, servedUntil>>
    BY DEF LookUpRefreshed
  <2>2. verdict' \in Verdict /\ tokenRequest' \in [TokenRequests -> Kids \union {NoKid}]
    BY DEF LookUpRefreshed, Decide, KeyTypeOK, Verdict
  <2> QED  BY <2>1, <2>2, Fetched DEF KeyTypeOK, ServedInv
<1>5. CASE \E r \in TokenRequests, answered \in BOOLEAN : RefreshAgain(r, answered)
  <2> PICK r \in TokenRequests, answered \in BOOLEAN : RefreshAgain(r, answered)
    BY <1>5
  <2>1. /\ UNCHANGED <<tick, published, servedUntil>>
        /\ RefreshLocked \/ UNCHANGED <<keys, expiry>>
    BY DEF RefreshAgain
  <2>2. verdict' \in Verdict /\ tokenRequest' \in [TokenRequests -> Kids \union {NoKid}]
    BY DEF RefreshAgain, Decide, KeyTypeOK, Verdict
  <2> QED  BY <2>1, <2>2, Fetched DEF KeyTypeOK, ServedInv
<1>6. CASE UNCHANGED keyVars
  BY <1>6 DEF keyVars, KeyTypeOK, ServedInv
<1> QED  BY <1>1, <1>2, <1>3, <1>4, <1>5, <1>6 DEF KeyNext

LEMMA KeyInvariant == KeySpec => []KeyInv
<1>1. KeyInit => KeyInv
  BY KeyAssumption DEF KeyInit, KeyInv, KeyTypeOK, ServedInv, Verdict
<1> QED  BY <1>1, KeyStep, PTL DEF KeySpec

\* Unless the dashboard fails, a key is accepted for less than the TTL after it was
\* served last, and none is unknown that is served (auth.go:93, :156).
THEOREM WithdrawnKeysExpire == KeySpec => KeyAcceptedWhileServed
<1> DEFINE InTime == verdict' # verdict =>
             /\ verdict'.how = "good" => tick < servedUntil[verdict'.kid] + KeyTTL
             /\ verdict'.how = "unknown" => verdict'.kid \notin published
<1>1. KeyInv /\ [KeyNext]_keyVars => [InTime]_keyVars
  <2> SUFFICES ASSUME KeyInv, KeyNext, verdict' # verdict
               PROVE  /\ verdict'.how = "good" => tick < servedUntil[verdict'.kid] + KeyTTL
                      /\ verdict'.how = "unknown" => verdict'.kid \notin published
    OBVIOUS
  <2> USE KeyAssumption DEF KeyInv
  <2>1. ASSUME NEW k \in Kids, LookUpCached(k) \/ LookUpStale(k)
        PROVE  /\ verdict'.how = "good" => tick < servedUntil[verdict'.kid] + KeyTTL
               /\ verdict'.how # "unknown"
    BY <2>1 DEF LookUpCached, LookUpStale, GoodKey, Decide, KeyTypeOK, ServedInv
  <2>2. ASSUME NEW r \in TokenRequests, NEW k \in Kids, LookUpRefreshed(r, k)
        PROVE  verdict'.how = "good" /\ verdict'.kid \in keys' /\ RefreshLocked
    BY <2>2 DEF LookUpRefreshed, Decide
  <2>3. ASSUME NEW r \in TokenRequests, NEW answered \in BOOLEAN, RefreshAgain(r, answered)
        PROVE  /\ verdict'.how = "good" => verdict'.kid \in keys' /\ RefreshLocked
               /\ verdict'.how = "unknown" => verdict'.kid \notin keys' /\ RefreshLocked
    BY <2>3 DEF RefreshAgain, Decide
  <2>4. RefreshLocked => keys' = published /\ \A k \in keys' : tick < servedUntil[k] + KeyTTL
    BY Fetched DEF RefreshLocked, KeyTypeOK, ServedInv
  <2> QED
    BY <2>1, <2>2, <2>3, <2>4 DEF KeyNext, Tick, Rotate
<1> QED  BY <1>1, KeyInvariant, PTL DEF KeySpec, KeyAcceptedWhileServed

-----------------------------------------------------------------------------
(* The rate limiter.                                                       *)

LEMMA OneTickMore ==
  ASSUME NEW a \in Nat, NEW d \in Nat
  PROVE  a * d \in Nat /\ a * (d + 1) = a * d + a
  OBVIOUS

LEMMA MoreTicks ==
  ASSUME NEW a \in Nat, NEW d \in Nat, NEW e \in Nat, d <= e
  PROVE  a * d <= a * e
<1>1. PICK k \in Nat : e = d + k
  <2>1. e = d + (e - d) /\ e - d \in Nat
    OBVIOUS
  <2> QED  BY <2>1
<1>2. a * e = a * d + a * k /\ a * k \in Nat /\ a * d \in Nat
  BY <1>1
<1> QED  BY <1>2

\* A bucket fills up, by Rate at most, and a fuller one stays fuller.
LEMMA RefilledFacts ==
  ASSUME NEW m \in 0..Burst, NEW n \in 0..Burst
  PROVE  /\ Refilled(m) \in 0..Burst
         /\ Refilled(m) = Burst \/ Refilled(m) = m + Rate
         /\ m <= n => Refilled(m) <= Refilled(n)
         /\ m = Burst => Refilled(m) = Burst
  BY LimiterAssumption DEF Refilled

LEMMA TimeStep ==
  ASSUME LimiterInv, TimePasses
  PROVE  LimiterInv'
<1> USE LimiterAssumption DEF LimiterInv
<1>1. /\ now' = now + 1 /\ now' \in 0..LastCall /\ UNCHANGED <<bucketOf, lastSeen, caller>>
      /\ DOMAIN buckets' = DOMAIN buckets
      /\ \A i \in DOMAIN buckets : buckets'[i] = Refilled(buckets[i]) /\ buckets[i] \in 0..Burst
      /\ \A c \in Clients : budget'[c] = Refilled(budget[c]) /\ budget[c] \in 0..Burst
      /\ budget' = [c \in Clients |-> Refilled(budget[c])]
  BY DEF TimePasses, LimiterTypeOK
<1>2. buckets' \in Seq(0..Burst) /\ Len(buckets') = Len(buckets)
  <2>1. DOMAIN buckets = 1..Len(buckets) /\ Len(buckets) \in Nat
    BY DEF LimiterTypeOK
  <2>2. buckets' \in [1..Len(buckets) -> 0..Burst]
    BY <1>1, <2>1, RefilledFacts DEF TimePasses
  <2> QED  BY <2>1, <2>2, SeqDef, LenProperties
<1>3. LimiterTypeOK'
  BY <1>1, <1>2, RefilledFacts DEF LimiterTypeOK
<1>4. BucketInv'
  BY <1>1, <1>2 DEF BucketInv
<1>5. SeenInv'
  BY <1>1 DEF SeenInv, LimiterTypeOK
<1>6. BudgetInv'
  <2> SUFFICES ASSUME NEW c \in Clients
               PROVE  /\ budget'[c] < Burst => Rate * (now' - lastSeen[c]) <= budget'[c]
                      /\ bucketOf[c] = 0 => budget'[c] = Burst
    BY <1>1 DEF BudgetInv
  <2>1. bucketOf[c] = 0 => budget'[c] = Burst
    BY <1>1, RefilledFacts DEF BudgetInv
  <2>2. ASSUME budget'[c] < Burst
        PROVE  Rate * (now' - lastSeen[c]) <= budget'[c]
    <3>1. budget'[c] = budget[c] + Rate /\ budget[c] < Burst
      BY <2>2, <1>1, RefilledFacts DEF LimiterTypeOK
    <3> DEFINE d == now - lastSeen[c]
    <3>2. d \in Nat /\ now' - lastSeen[c] = d + 1
      BY <1>1 DEF SeenInv, LimiterTypeOK
    <3>3. Rate * d <= budget[c]
      BY <3>1 DEF BudgetInv
    <3> HIDE DEF d
    <3>4. Rate * (d + 1) = Rate * d + Rate /\ Rate * d \in Nat
      BY <3>2, OneTickMore
    <3> DEFINE e == Rate * d
    <3>5. e \in Nat /\ e <= budget[c] /\ Rate * (d + 1) = e + Rate
      BY <3>3, <3>4
    <3> HIDE DEF e
    <3>6. e + Rate <= budget[c] + Rate
      BY <3>5, <1>1
    <3> QED  BY <3>1, <3>2, <3>5, <3>6
  <2> QED  BY <2>1, <2>2
<1>7. RemovalGrantsNothing'
  <2> SUFFICES ASSUME NEW c \in Clients, bucketOf[c] # 0
               PROVE  buckets'[bucketOf[c]] <= budget'[c]
    BY <1>1 DEF RemovalGrantsNothing
  <2>1. bucketOf[c] \in DOMAIN buckets
    BY DEF BucketInv, LimiterTypeOK
  <2>2. buckets[bucketOf[c]] <= budget[c]
    BY DEF RemovalGrantsNothing
  <2> QED  BY <1>1, <2>1, <2>2, RefilledFacts
<1> QED  BY <1>3, <1>4, <1>5, <1>6, <1>7

\* A client is handed its bucket, or a new one.
LEMMA ClientStep ==
  ASSUME LimiterInv, NEW r \in Callers, NEW c \in Clients, getClient(r, c)
  PROVE  LimiterInv'
<1> USE LimiterAssumption DEF LimiterInv
<1> DEFINE b == bucketOf'[c]
<1>1. /\ DOMAIN buckets = 1..Len(buckets) /\ Len(buckets) \in Nat
      /\ \A i \in DOMAIN buckets : buckets[i] \in 0..Burst
  BY DEF LimiterTypeOK
<1>2. /\ now' = now /\ budget' = budget
      /\ caller' = [caller EXCEPT ![r] = [bucket |-> b, at |-> now]]
      /\ lastSeen' = [lastSeen EXCEPT ![c] = now]
  BY DEF getClient
<1>3. /\ buckets' \in Seq(0..Burst) /\ Len(buckets') <= MaxBuckets
      /\ Len(buckets) <= Len(buckets') /\ Len(buckets') \in Nat /\ DOMAIN buckets' = 1..Len(buckets')
      /\ \A i \in DOMAIN buckets : i \in DOMAIN buckets' /\ buckets'[i] = buckets[i]
      /\ bucketOf' = [bucketOf EXCEPT ![c] = b]
      /\ b \in DOMAIN buckets'
      /\ \/ b = bucketOf[c]
         \/ bucketOf[c] = 0 /\ b = Len(buckets) + 1 /\ buckets'[b] = Burst
  <2>1. CASE bucketOf[c] # 0
    <3>1. bucketOf' = bucketOf /\ buckets' = buckets
      BY <2>1 DEF getClient
    <3>2. b \in 1..Len(buckets)
      BY <2>1, <3>1, <1>1 DEF BucketInv, LimiterTypeOK
    <3>3. bucketOf' = [bucketOf EXCEPT ![c] = b]
      BY <3>1 DEF LimiterTypeOK
    <3> QED  BY <3>1, <3>2, <3>3, <1>1 DEF LimiterTypeOK
  <2>2. CASE bucketOf[c] = 0
    <3>1. /\ bucketOf' = [bucketOf EXCEPT ![c] = Len(buckets) + 1]
          /\ buckets' = Append(buckets, Burst) /\ Len(buckets) < MaxBuckets
      BY <2>2 DEF getClient
    <3>2. b = Len(buckets) + 1
      BY <3>1 DEF LimiterTypeOK
    <3>3. bucketOf' = [bucketOf EXCEPT ![c] = b]
      BY <3>1, <3>2
    <3>4. /\ buckets' \in Seq(0..Burst) /\ Len(buckets') = Len(buckets) + 1
          /\ \A i \in 1..Len(buckets) : buckets'[i] = buckets[i]
          /\ buckets'[Len(buckets) + 1] = Burst
      BY <3>1, AppendProperties DEF LimiterTypeOK
    <3>5. DOMAIN buckets' = 1..(Len(buckets) + 1)
      BY <3>4
    <3> HIDE DEF b
    <3> QED  BY <2>2, <3>1, <3>2, <3>3, <3>4, <3>5, <1>1
  <2> QED  BY <2>1, <2>2
<1> HIDE DEF b
<1>4. LimiterTypeOK'
  <2>1. b \in 0..MaxBuckets
    BY <1>3
  <2> QED  BY <1>2, <1>3, <2>1 DEF LimiterTypeOK
<1>5. \A d \in Clients : /\ bucketOf'[d] = IF d = c THEN b ELSE bucketOf[d]
                         /\ lastSeen'[d] = IF d = c THEN now ELSE lastSeen[d]
  BY <1>2, <1>3 DEF LimiterTypeOK
<1>6. \A q \in Callers : caller'[q] = IF q = r THEN [bucket |-> b, at |-> now] ELSE caller[q]
  BY <1>2 DEF LimiterTypeOK
<1>7. \A d \in Clients \ {c} : bucketOf[d] # b
  <2> SUFFICES ASSUME NEW d \in Clients \ {c} PROVE bucketOf[d] # b
    OBVIOUS
  <2>1. bucketOf[d] \in Nat /\ bucketOf[d] <= Len(buckets) /\ b # 0
    BY <1>3 DEF BucketInv, LimiterTypeOK
  <2>2. CASE b = Len(buckets) + 1
    BY <2>1, <2>2, <1>1
  <2>3. CASE b = bucketOf[c]
    BY <2>1, <2>3 DEF BucketInv
  <2> QED  BY <2>2, <2>3, <1>3
<1>8. BucketInv'
  <2>1. \A d \in Clients : bucketOf'[d] <= Len(buckets')
    BY <1>3, <1>5 DEF BucketInv, LimiterTypeOK
  <2>2. \A d, e \in Clients : bucketOf'[d] = bucketOf'[e] /\ bucketOf'[d] # 0 => d = e
    BY <1>5, <1>7 DEF BucketInv
  <2>3. \A q \in Callers : caller'[q] # NoBucket => caller'[q].bucket \in DOMAIN buckets'
    BY <1>3, <1>6 DEF BucketInv
  <2> QED  BY <2>1, <2>2, <2>3 DEF BucketInv
<1>9. SeenInv'
  <2>1. \A d \in Clients : lastSeen'[d] <= now' /\ lastSeen[d] <= lastSeen'[d]
    BY <1>2, <1>5 DEF SeenInv, LimiterTypeOK
  <2>2. ASSUME NEW q \in Callers, NEW d \in Clients,
               caller'[q] # NoBucket, bucketOf'[d] = caller'[q].bucket
        PROVE  caller'[q].at <= lastSeen'[d]
    <3>1. CASE q = r
      <4>1. d = c
        BY <3>1, <2>2, <1>5, <1>6, <1>7
      <4> QED  BY <4>1, <3>1, <1>5, <1>6 DEF LimiterTypeOK
    <3>2. CASE q # r /\ d = c
      <4>1. caller'[q] = caller[q] /\ lastSeen'[d] = now
        BY <3>2, <1>5, <1>6
      <4>2. caller[q].bucket \in DOMAIN buckets /\ caller[q].bucket = b
        BY <4>1, <2>2, <3>2, <1>5 DEF BucketInv
      <4>3. b = bucketOf[c]
        BY <4>2, <1>1, <1>3
      <4>4. caller[q].at <= lastSeen[c]
        BY <4>1, <4>2, <4>3, <2>2 DEF SeenInv
      <4>5. caller[q].at \in Nat
        BY DEF LimiterTypeOK
      <4> QED  BY <4>1, <4>4, <4>5, <3>2 DEF SeenInv, LimiterTypeOK
    <3>3. CASE q # r /\ d # c
      BY <3>3, <2>2, <1>5, <1>6 DEF SeenInv
    <3> QED  BY <3>1, <3>2, <3>3
  <2> QED  BY <2>1, <2>2 DEF SeenInv
<1>10. BudgetInv'
  <2> SUFFICES ASSUME NEW d \in Clients
               PROVE  /\ budget[d] < Burst => Rate * (now - lastSeen'[d]) <= budget[d]
                      /\ bucketOf'[d] = 0 => budget[d] = Burst
    BY <1>2 DEF BudgetInv
  <2>1. CASE d = c
    <3>1. now - lastSeen'[d] = 0 /\ Rate * 0 = 0
      BY <2>1, <1>5 DEF LimiterTypeOK
    <3>2. 0 <= budget[d] /\ bucketOf'[d] # 0
      BY <2>1, <1>3, <1>5 DEF LimiterTypeOK
    <3> QED  BY <3>1, <3>2
  <2>2. CASE d # c
    BY <2>2, <1>5 DEF BudgetInv
  <2> QED  BY <2>1, <2>2
<1>11. RemovalGrantsNothing'
  <2> SUFFICES ASSUME NEW d \in Clients, bucketOf'[d] # 0
               PROVE  buckets'[bucketOf'[d]] <= budget[d]
    BY <1>2 DEF RemovalGrantsNothing
  <2>1. CASE bucketOf'[d] = bucketOf[d]
    <3>1. bucketOf[d] \in DOMAIN buckets
      BY <2>1, <1>1 DEF BucketInv, LimiterTypeOK
    <3> QED  BY <2>1, <3>1, <1>3 DEF RemovalGrantsNothing
  <2>2. CASE bucketOf'[d] # bucketOf[d]
    <3>1. d = c /\ bucketOf[c] = 0 /\ buckets'[bucketOf'[d]] = Burst
      BY <2>2, <1>3, <1>5
    <3> QED  BY <3>1 DEF BudgetInv
  <2> QED  BY <2>1, <2>2
<1> QED  BY <1>4, <1>8, <1>9, <1>10, <1>11

\* A request takes a token of the bucket it was handed.
LEMMA AllowStep ==
  ASSUME LimiterInv, NEW r \in Callers, Allow(r)
  PROVE  LimiterInv'
<1> USE LimiterAssumption DEF LimiterInv
<1> DEFINE b == caller[r].bucket
           counted(c) == buckets[b] > 0 /\ bucketOf[c] = b /\ caller[r].at = now
<1>1. /\ caller[r] # NoBucket
      /\ UNCHANGED <<now, bucketOf, lastSeen>>
      /\ caller' = [caller EXCEPT ![r] = NoBucket]
      /\ buckets' = IF buckets[b] > 0 THEN [buckets EXCEPT ![b] = buckets[b] - 1] ELSE buckets
      /\ budget' = [c \in Clients |-> IF counted(c) /\ budget[c] > 0 THEN budget[c] - 1 ELSE budget[c]]
  BY DEF Allow
<1>2. b \in DOMAIN buckets /\ b \in Nat \ {0} /\ buckets[b] \in 0..Burst
  BY <1>1 DEF BucketInv, LimiterTypeOK
<1>3. /\ buckets' \in Seq(0..Burst) /\ Len(buckets') = Len(buckets) /\ DOMAIN buckets' = DOMAIN buckets
      /\ \A i \in DOMAIN buckets :
           buckets'[i] = IF i = b /\ buckets[b] > 0 THEN buckets[b] - 1 ELSE buckets[i]
  <2> HIDE DEF b
  <2>1. CASE buckets[b] > 0
    <3>1. buckets' = [buckets EXCEPT ![b] = buckets[b] - 1] /\ buckets[b] - 1 \in 0..Burst
      BY <2>1, <1>1, <1>2
    <3>2. buckets \in Seq(0..Burst)
      BY DEF LimiterTypeOK
    <3> QED  BY <2>1, <3>1, <3>2, <1>2, ExceptSeq
  <2>2. CASE ~(buckets[b] > 0)
    BY <2>2, <1>1 DEF LimiterTypeOK
  <2> QED  BY <2>1, <2>2
<1>4. \A c \in Clients : budget[c] \in 0..Burst
                         /\ budget'[c] = IF counted(c) /\ budget[c] > 0 THEN budget[c] - 1 ELSE budget[c]
  BY <1>1 DEF LimiterTypeOK
<1>5. \A q \in Callers : caller'[q] = IF q = r THEN NoBucket ELSE caller[q]
  BY <1>1 DEF LimiterTypeOK
<1>6. LimiterTypeOK'
  <2>1. budget' \in [Clients -> 0..Burst]
    <3>1. \A c \in Clients : budget'[c] \in 0..Burst
      BY <1>4
    <3> QED  BY <1>1, <3>1
  <2>2. caller' \in [Callers -> [bucket : 0..MaxBuckets, at : 0..LastCall]]
    BY <1>1 DEF LimiterTypeOK, NoBucket
  <2> QED  BY <1>1, <1>3, <2>1, <2>2 DEF LimiterTypeOK
<1>7. BucketInv' /\ SeenInv'
  <2> HIDE DEF b, counted
  <2> QED  BY <1>1, <1>3, <1>5 DEF BucketInv, SeenInv
<1>8. BudgetInv'
  <2> SUFFICES ASSUME NEW c \in Clients
               PROVE  /\ budget'[c] < Burst => Rate * (now - lastSeen[c]) <= budget'[c]
                      /\ bucketOf[c] = 0 => budget'[c] = Burst
    BY <1>1 DEF BudgetInv
  <2>1. CASE counted(c)
    <3>1. now - lastSeen[c] = 0 /\ bucketOf[c] # 0
      BY <2>1, <1>1, <1>2 DEF SeenInv, LimiterTypeOK
    <3>2. Rate * 0 = 0 /\ 0 <= budget'[c]
      BY <1>6 DEF LimiterTypeOK
    <3> QED  BY <3>1, <3>2
  <2>2. CASE ~counted(c)
    BY <2>2, <1>4 DEF BudgetInv
  <2> QED  BY <2>1, <2>2
<1>9. RemovalGrantsNothing'
  <2> SUFFICES ASSUME NEW c \in Clients, bucketOf[c] # 0
               PROVE  buckets'[bucketOf[c]] <= budget'[c]
    BY <1>1 DEF RemovalGrantsNothing
  <2>1. bucketOf[c] \in DOMAIN buckets /\ buckets[bucketOf[c]] \in 0..Burst
    BY DEF BucketInv, LimiterTypeOK
  <2>2. buckets[bucketOf[c]] <= budget[c]
    BY DEF RemovalGrantsNothing
  <2>3. CASE counted(c)
    <3>1. buckets'[bucketOf[c]] = buckets[bucketOf[c]] - 1 /\ buckets[bucketOf[c]] > 0
      BY <2>1, <2>3, <1>3
    <3>2. budget'[c] = budget[c] - 1
      BY <2>1, <2>2, <2>3, <3>1, <1>4
    <3> QED  BY <3>1, <3>2, <2>1, <2>2, <1>4
  <2>4. CASE ~counted(c)
    <3>1. buckets'[bucketOf[c]] <= buckets[bucketOf[c]]
      BY <2>1, <1>2, <1>3
    <3>2. budget'[c] = budget[c]
      BY <2>4, <1>4
    <3>3. buckets'[bucketOf[c]] \in Int
      BY <2>1, <1>2, <1>3
    <3> QED  BY <3>1, <3>2, <3>3, <2>1, <2>2, <1>4
  <2> QED  BY <2>3, <2>4
<1> QED  BY <1>6, <1>7, <1>8, <1>9

\* The clients that are removed would have a full bucket.
LEMMA CleanupStep ==
  ASSUME LimiterInv, Cleanup
  PROVE  LimiterInv'
<1> USE LimiterAssumption DEF LimiterInv
<1> DEFINE idle == {c \in Clients : bucketOf[c] # 0 /\ now > lastSeen[c] + IdleTicks}
<1>1. /\ bucketOf' = [c \in Clients |-> IF c \in idle THEN 0 ELSE bucketOf[c]]
      /\ UNCHANGED <<now, buckets, lastSeen, caller, budget>>
  BY DEF Cleanup
<1>2. \A c \in Clients : bucketOf'[c] = IF c \in idle THEN 0 ELSE bucketOf[c]
  BY <1>1
<1>3. LimiterTypeOK' /\ BucketInv'
  BY <1>1, <1>2 DEF LimiterTypeOK, BucketInv
<1>4. SeenInv'
  <2> SUFFICES ASSUME NEW r \in Callers, NEW c \in Clients,
                      caller[r] # NoBucket, bucketOf'[c] = caller[r].bucket
               PROVE  caller[r].at <= lastSeen[c]
    BY <1>1 DEF SeenInv
  <2>1. caller[r].bucket # 0
    BY DEF BucketInv, LimiterTypeOK
  <2>2. bucketOf'[c] = bucketOf[c]
    BY <2>1, <1>2
  <2> QED  BY <2>2 DEF SeenInv
<1>5. BudgetInv'
  <2> SUFFICES ASSUME NEW c \in Clients
               PROVE  bucketOf'[c] = 0 => budget[c] = Burst
    BY <1>1 DEF BudgetInv
  <2>1. ASSUME c \in idle, budget[c] < Burst PROVE FALSE
    <3> DEFINE d == now - lastSeen[c]
    <3>1. d \in Nat /\ IdleTicks + 1 <= d
      BY <2>1 DEF LimiterTypeOK, SeenInv
    <3>2. Rate * d <= budget[c] /\ budget[c] \in Nat
      BY <2>1 DEF BudgetInv, LimiterTypeOK
    <3> HIDE DEF d
    <3>3. Rate * (IdleTicks + 1) <= Rate * d
      BY <3>1, MoreTicks
    <3>4. Rate * (IdleTicks + 1) \in Nat /\ Rate * d \in Nat
      BY <3>1
    <3> DEFINE e == Rate * d
               f == Rate * (IdleTicks + 1)
    <3>5. e \in Nat /\ f \in Nat /\ f <= e /\ e <= budget[c] /\ Burst <= f
      BY <3>2, <3>3, <3>4
    <3> HIDE DEF e, f
    <3> QED  BY <3>5, <3>2, <2>1
  <2>2. c \in idle => budget[c] = Burst
    BY <2>1 DEF LimiterTypeOK
  <2> QED  BY <2>2, <1>2 DEF BudgetInv
<1>6. RemovalGrantsNothing'
  BY <1>1, <1>2 DEF RemovalGrantsNothing
<1> QED  BY <1>3, <1>4, <1>5, <1>6

LEMMA LimiterInvariant == LimiterSpec => []LimiterInv
<1>1. LimiterInit => LimiterInv
  <2> SUFFICES ASSUME LimiterInit PROVE LimiterInv
    OBVIOUS
  <2>1. LimiterTypeOK
    BY LimiterAssumption, EmptySeq DEF LimiterInit, LimiterTypeOK, NoBucket
  <2>2. BucketInv /\ SeenInv /\ BudgetInv /\ RemovalGrantsNothing
    BY LimiterAssumption, EmptySeq DEF LimiterInit, BucketInv, SeenInv, BudgetInv, RemovalGrantsNothing, NoBucket
  <2> QED  BY <2>1, <2>2 DEF LimiterInv
<1>2. LimiterInv /\ [LimiterNext]_limiterVars => LimiterInv'
  <2> SUFFICES ASSUME LimiterInv, [LimiterNext]_limiterVars PROVE LimiterInv'
    OBVIOUS
  <2>1. CASE UNCHANGED limiterVars
    BY <2>1 DEF limiterVars, LimiterInv, LimiterTypeOK, BucketInv, SeenInv, BudgetInv, RemovalGrantsNothing
  <2>2. CASE LimiterNext
    BY <2>2, TimeStep, ClientStep, AllowStep, CleanupStep DEF LimiterNext
  <2> QED  BY <2>1, <2>2
<1> QED  BY <1>1, <1>2, PTL DEF LimiterSpec

\* No client gets more requests by being forgotten than by being kept
\* (ratelimit.go:52).
THEOREM RemovalIsSafe == LimiterSpec => []RemovalGrantsNothing
  BY LimiterInvariant, PTL DEF LimiterInv

-----------------------------------------------------------------------------
(* Stops and opens of the app.                                             *)

LEMMA SavesStep ==
  ASSUME TripInv,
         NEW x \in Saves, NEW mine \in BOOLEAN,
         StartSave(x, mine) \/ ClearStops(x) \/ RollBackSave(x)
  PROVE  StopsOfOneSave' /\ SavesInv'
<1> USE DEF TripInv
<1>1. UNCHANGED stops /\ together \subseteq together'
  BY DEF StartSave, ClearStops, RollBackSave
<1>2. StopsOfOneSave'
  BY <1>1 DEF StopsOfOneSave
<1>3. CASE StartSave(x, mine)
  <2>1. SavesUnderWay' = SavesUnderWay \union {x} /\ x \notin SavesUnderWay
    BY <1>3 DEF StartSave, SavesUnderWay, TripTypeOK
  <2>2. /\ rowsSeen'[x] = IF mine THEN stops ELSE {}
        /\ \A y \in SavesUnderWay : rowsSeen'[y] = rowsSeen[y]
    BY <1>3, <2>1 DEF StartSave, TripTypeOK, SavesUnderWay
  <2>3. Both(x, SavesUnderWay) \subseteq together'
    BY <1>3 DEF StartSave
  <2>4. \A y \in SavesUnderWay : <<x, y>> \in together' /\ <<y, x>> \in together'
    BY <2>3 DEF Both
  <2>5. \A t \in stops : t \in rowsSeen'[x] \/ Both(x, {t[1]}) \subseteq together'
    <3>1. ~mine => Both(x, {t[1] : t \in stops}) \subseteq together'
      BY <1>3 DEF StartSave
    <3>2. ~mine => \A t \in stops : Both(x, {t[1]}) \subseteq together'
      BY <3>1 DEF Both
    <3> QED  BY <2>2, <3>2
  <2>6. \A t \in rowsSeen'[x] : {t[1]} \X Positions \subseteq rowsSeen'[x]
    BY <2>2 DEF StopsOfOneSave
  <2> QED  BY <1>1, <1>2, <2>1, <2>2, <2>4, <2>5, <2>6 DEF SavesInv
<1>4. CASE ClearStops(x)
  <2>1. SavesUnderWay' = SavesUnderWay /\ x \in SavesUnderWay
    BY <1>4 DEF ClearStops, SavesUnderWay, TripTypeOK
  <2>2. /\ rowsSeen'[x] = rowsSeen[x] \intersect stops
        /\ \A y \in SavesUnderWay \ {x} : rowsSeen'[y] = rowsSeen[y]
    BY <1>4, <2>1 DEF ClearStops, TripTypeOK, SavesUnderWay
  <2> QED  BY <1>1, <1>2, <2>1, <2>2 DEF SavesInv, StopsOfOneSave
<1>5. CASE RollBackSave(x)
  <2>1. SavesUnderWay' = SavesUnderWay \ {x}
    BY <1>5 DEF RollBackSave, SavesUnderWay, TripTypeOK
  <2>2. \A y \in SavesUnderWay \ {x} : rowsSeen'[y] = rowsSeen[y]
    BY <1>5 DEF RollBackSave, TripTypeOK, SavesUnderWay
  <2> QED  BY <1>1, <1>2, <2>1, <2>2 DEF SavesInv
<1> QED  BY <1>3, <1>4, <1>5

\* The COMMIT replaces the lists its DELETE found by its own.
LEMMA CommitStep ==
  ASSUME TripInv,
         NEW x \in Saves, NEW inserted \in SUBSET Positions,
         CommitSave(x, inserted)
  PROVE  StopsOfOneSave' /\ SavesInv'
<1> USE DEF TripInv
<1>1. stops' = (stops \ rowsSeen[x]) \union ({x} \X Positions) /\ together' = together
  BY DEF CommitSave
<1>2. x \in SavesUnderWay /\ SavesUnderWay' = SavesUnderWay \ {x}
  BY DEF CommitSave, SavesUnderWay, TripTypeOK
<1>3. \A y \in SavesUnderWay \ {x} : rowsSeen'[y] = rowsSeen[y]
  BY DEF CommitSave, TripTypeOK, SavesUnderWay
<1>4. \A s \in stops \ rowsSeen[x] : {s[1]} \X Positions \subseteq stops \ rowsSeen[x]
  <2> SUFFICES ASSUME NEW s \in stops \ rowsSeen[x], NEW p \in Positions
               PROVE  <<s[1], p>> \in stops \ rowsSeen[x]
    OBVIOUS
  <2>1. s = <<s[1], s[2]>> /\ s[2] \in Positions
    BY DEF TripTypeOK
  <2>2. <<s[1], p>> \in stops
    BY DEF StopsOfOneSave
  <2>3. <<s[1], p>> \in rowsSeen[x] => <<s[1], s[2]>> \in rowsSeen[x]
    BY <1>2, <2>1 DEF SavesInv
  <2> QED  BY <2>1, <2>2, <2>3
<1>5. \A s \in stops \ rowsSeen[x] : <<x, s[1]>> \in together /\ <<s[1], x>> \in together
  BY <1>2 DEF SavesInv, Both
<1>6. StopsOfOneSave'
  BY <1>1, <1>4, <1>5 DEF StopsOfOneSave
<1>7. \A y \in SavesUnderWay \ {x} : Both(y, {x}) \subseteq together
  BY <1>2 DEF SavesInv, Both
<1>8. SavesInv'
  <2> SUFFICES ASSUME NEW y \in SavesUnderWay \ {x}
               PROVE  \A s \in stops' : s \in rowsSeen[y] \/ Both(y, {s[1]}) \subseteq together
    BY <1>1, <1>2, <1>3 DEF SavesInv
  <2>1. \A s \in {x} \X Positions : s[1] = x
    OBVIOUS
  <2> QED  BY <1>1, <1>7, <2>1 DEF SavesInv
<1> QED  BY <1>6, <1>8

\* Opens are checked, skipped and inserted.
LEMMA OpensStep ==
  ASSUME TripInv,
         NEW o \in Opens,
         SkipOpen(o) \/ CheckOpens(o) \/ \E inserted \in BOOLEAN : InsertOpen(o, inserted)
  PROVE  OpensSpaced' /\ OpensInv'
<1> USE TripAssumption DEF TripInv, NoMoment
<1>1. moment' = moment /\ together \subseteq together'
  BY DEF SkipOpen, CheckOpens, InsertOpen
<1>2. CASE SkipOpen(o)
  <2>1. OpensUnderWay' = OpensUnderWay /\ opensAt' = opensAt /\ together' = together
    BY <1>2 DEF SkipOpen, OpensUnderWay, TripTypeOK
  <2> QED  BY <1>1, <2>1 DEF OpensSpaced, OpensInv
<1>3. CASE CheckOpens(o)
  <2>1. OpensUnderWay' = OpensUnderWay \union {o} /\ opensAt' = opensAt
    BY <1>3 DEF CheckOpens, OpensUnderWay, TripTypeOK
  <2>2. \A p \in OpensUnderWay : <<o, p>> \in together' /\ <<p, o>> \in together'
    BY <1>3 DEF CheckOpens, Both
  <2>3. \A p \in Opens : opensAt[p] # NoMoment => opensAt[p] + Cooldown <= moment
    BY <1>3 DEF CheckOpens, RecentOpens, TripTypeOK
  <2>4. OpensInv'
    <3>1. \A p \in Opens : opensAt'[p] # NoMoment => opensAt'[p] <= moment'
      BY <1>1, <2>1 DEF OpensInv
    <3>2. \A p \in OpensUnderWay', q \in Opens : opensAt'[q] # NoMoment =>
            opensAt'[q] + Cooldown <= moment' \/ Both(p, {q}) \subseteq together'
      BY <1>1, <2>1, <2>3
    <3>3. \A p \in OpensUnderWay' : \A q \in OpensUnderWay' \ {p} : <<q, p>> \in together'
      BY <1>1, <2>1, <2>2 DEF OpensInv
    <3> QED  BY <3>1, <3>2, <3>3 DEF OpensInv
  <2> QED  BY <1>1, <2>1, <2>4 DEF OpensSpaced
<1>4. CASE InsertOpen(o, FALSE)
  <2>1. OpensUnderWay' = OpensUnderWay \ {o} /\ opensAt' = opensAt /\ together' = together
    BY <1>4 DEF InsertOpen, OpensUnderWay, TripTypeOK
  <2> QED  BY <1>1, <2>1 DEF OpensSpaced, OpensInv
<1>5. CASE InsertOpen(o, TRUE)
  <2>1. /\ o \in OpensUnderWay /\ OpensUnderWay' = OpensUnderWay \ {o} /\ together' = together
        /\ opensAt' = [opensAt EXCEPT ![o] = moment]
    BY <1>5 DEF InsertOpen, OpensUnderWay, TripTypeOK
  <2>2. opensAt'[o] = moment /\ \A p \in Opens \ {o} : opensAt'[p] = opensAt[p]
    BY <2>1 DEF TripTypeOK
  <2>3. \A p \in Opens : opensAt[p] \in Nat /\ moment \in Nat /\ opensAt'[p] \in Nat
    BY <2>2 DEF TripTypeOK
  <2>4. \A p \in Opens : opensAt[p] # NoMoment =>
          \/ opensAt[p] + Cooldown <= moment
          \/ <<o, p>> \in together /\ <<p, o>> \in together
    BY <2>1 DEF OpensInv, Both
  <2>5. OpensSpaced'
    <3> SUFFICES ASSUME NEW p \in Opens, NEW q \in Opens,
                        p # q, opensAt'[p] # NoMoment, opensAt'[q] # NoMoment,
                        opensAt'[p] <= opensAt'[q], opensAt'[q] < opensAt'[p] + Cooldown
                 PROVE  <<p, q>> \in together
      BY <2>1 DEF OpensSpaced
    <3>1. CASE q = o
      <4>1. opensAt'[p] = opensAt[p] /\ opensAt'[q] = moment
        BY <3>1, <2>2
      <4>2. ~(opensAt[p] + Cooldown <= moment)
        BY <4>1, <2>3
      <4> QED  BY <4>1, <4>2, <3>1, <2>4
    <3>2. CASE p = o
      <4>1. opensAt[q] = moment
        BY <3>2, <2>2, <2>3 DEF OpensInv
      <4>2. ~(opensAt[q] + Cooldown <= moment)
        BY <4>1, <3>2, <2>2, <2>3
      <4> QED  BY <4>1, <4>2, <3>2, <2>2, <2>3, <2>4
    <3>3. CASE p # o /\ q # o
      BY <3>3, <2>2 DEF OpensSpaced
    <3> QED  BY <3>1, <3>2, <3>3
  <2>6. OpensInv'
    <3>1. \A p \in Opens : opensAt'[p] # NoMoment => opensAt'[p] <= moment'
      BY <1>1, <2>2, <2>3 DEF OpensInv
    <3>2. ASSUME NEW p \in OpensUnderWay', NEW q \in Opens, opensAt'[q] # NoMoment
          PROVE  opensAt'[q] + Cooldown <= moment' \/ Both(p, {q}) \subseteq together'
      <4>1. CASE q = o
        BY <4>1, <2>1 DEF OpensInv, Both
      <4>2. CASE q # o
        BY <4>2, <3>2, <1>1, <2>1, <2>2 DEF OpensInv
      <4> QED  BY <4>1, <4>2
    <3>3. \A p \in OpensUnderWay' : \A q \in OpensUnderWay' \ {p} : <<q, p>> \in together'
      BY <2>1 DEF OpensInv
    <3> QED  BY <3>1, <3>2, <3>3 DEF OpensInv
  <2> QED  BY <2>5, <2>6
<1> QED  BY <1>2, <1>3, <1>4, <1>5

LEMMA TripTypeStep == TripTypeOK /\ TripNext => TripTypeOK'
<1> SUFFICES ASSUME TripTypeOK, TripNext PROVE TripTypeOK'
  OBVIOUS
<1> USE TripAssumption DEF TripTypeOK
<1>1. ASSUME NEW x \in Saves, NEW mine \in BOOLEAN, StartSave(x, mine)
      PROVE  TripTypeOK'
  BY <1>1 DEF StartSave, Both, SavesUnderWay
<1>2. ASSUME NEW x \in Saves, ClearStops(x) \/ RollBackSave(x)
      PROVE  TripTypeOK'
  BY <1>2 DEF ClearStops, RollBackSave
<1>3. ASSUME NEW x \in Saves, NEW inserted \in SUBSET Positions, CommitSave(x, inserted)
      PROVE  TripTypeOK'
  BY <1>3 DEF CommitSave
<1>4. ASSUME NEW o \in Opens, SkipOpen(o) \/ CheckOpens(o)
      PROVE  TripTypeOK'
  BY <1>4 DEF SkipOpen, CheckOpens, Both, OpensUnderWay
<1>5. ASSUME NEW o \in Opens, NEW inserted \in BOOLEAN, InsertOpen(o, inserted)
      PROVE  TripTypeOK'
  BY <1>5 DEF InsertOpen, NoMoment
<1>6. CASE MomentPasses
  BY <1>6 DEF MomentPasses
<1>7. CASE DeleteItinerary \/ DeleteOwner
  BY <1>7 DEF DeleteItinerary, DeleteOwner, NoMoment
<1> QED  BY <1>1, <1>2, <1>3, <1>4, <1>5, <1>6, <1>7 DEF TripNext

LEMMA TripStep == TripInv /\ [TripNext]_tripVars => TripInv'
<1> SUFFICES ASSUME TripInv, [TripNext]_tripVars PROVE TripInv'
  OBVIOUS
<1>1. CASE UNCHANGED tripVars
  BY <1>1 DEF tripVars, TripInv, TripTypeOK, StopsOfOneSave, OpensSpaced, SavesInv, OpensInv,
     SavesUnderWay, OpensUnderWay, Both
<1>2. CASE TripNext
  <2>1. TripTypeOK'
    BY <1>2, TripTypeStep DEF TripInv
  <2>2. ASSUME UNCHANGED <<stops, save, rowsSeen>>, together \subseteq together'
        PROVE  StopsOfOneSave' /\ SavesInv'
    <3>1. SavesUnderWay' = SavesUnderWay
      BY <2>2 DEF SavesUnderWay
    <3> QED  BY <2>2, <3>1 DEF TripInv, StopsOfOneSave, SavesInv
  <2>3. ASSUME UNCHANGED <<moment, opensAt, open>>, together \subseteq together'
        PROVE  OpensSpaced' /\ OpensInv'
    <3>1. OpensUnderWay' = OpensUnderWay
      BY <2>3 DEF OpensUnderWay
    <3> QED  BY <2>3, <3>1 DEF TripInv, OpensSpaced, OpensInv
  <2>4. ASSUME NEW x \in Saves, NEW mine \in BOOLEAN,
               StartSave(x, mine) \/ ClearStops(x) \/ RollBackSave(x)
        PROVE  TripInv'
    <3>1. UNCHANGED <<moment, opensAt, open>> /\ together \subseteq together'
      BY <2>4 DEF StartSave, ClearStops, RollBackSave
    <3> QED  BY <2>1, <2>3, <2>4, <3>1, SavesStep DEF TripInv
  <2>5. ASSUME NEW x \in Saves, NEW inserted \in SUBSET Positions, CommitSave(x, inserted)
        PROVE  TripInv'
    <3>1. UNCHANGED <<moment, opensAt, open>> /\ together \subseteq together'
      BY <2>5 DEF CommitSave
    <3> QED  BY <2>1, <2>3, <2>5, <3>1, CommitStep DEF TripInv
  <2>6. ASSUME NEW o \in Opens,
               SkipOpen(o) \/ CheckOpens(o) \/ \E inserted \in BOOLEAN : InsertOpen(o, inserted)
        PROVE  TripInv'
    <3>1. UNCHANGED <<stops, save, rowsSeen>> /\ together \subseteq together'
      BY <2>6 DEF SkipOpen, CheckOpens, InsertOpen
    <3> QED  BY <2>1, <2>2, <2>6, <3>1, OpensStep DEF TripInv
  <2>7. CASE MomentPasses
    <3>1. UNCHANGED <<stops, save, rowsSeen>> /\ together \subseteq together'
      BY <2>7 DEF MomentPasses
    <3>2. OpensUnderWay' = OpensUnderWay /\ opensAt' = opensAt /\ together' = together
      BY <2>7 DEF MomentPasses, OpensUnderWay
    <3>3. OpensSpaced' /\ OpensInv'
      BY <2>7, <3>2, TripAssumption DEF MomentPasses, TripInv, TripTypeOK, NoMoment, OpensSpaced, OpensInv
    <3> QED  BY <2>1, <2>2, <3>1, <3>3 DEF TripInv
  <2>8. CASE DeleteItinerary
    <3>1. SavesUnderWay' = SavesUnderWay
      BY <2>8 DEF DeleteItinerary, SavesUnderWay
    <3>2. UNCHANGED <<moment, opensAt, open, rowsSeen, together>> /\ stops' = {}
      BY <2>8 DEF DeleteItinerary
    <3>3. StopsOfOneSave' /\ SavesInv'
      BY <3>1, <3>2 DEF TripInv, StopsOfOneSave, SavesInv
    <3> QED  BY <2>1, <2>3, <3>2, <3>3 DEF TripInv
  <2>9. CASE DeleteOwner
    <3>1. UNCHANGED <<stops, save, rowsSeen, moment, open, together>>
      BY <2>9 DEF DeleteOwner
    <3>2. OpensUnderWay' = OpensUnderWay /\ \A o \in Opens : opensAt'[o] = NoMoment
      BY <2>9 DEF DeleteOwner, OpensUnderWay
    <3>3. OpensSpaced' /\ OpensInv'
      BY <3>1, <3>2 DEF TripInv, OpensSpaced, OpensInv, NoMoment
    <3> QED  BY <2>1, <2>2, <3>1, <3>3 DEF TripInv
  <2> QED  BY <1>2, <2>4, <2>5, <2>6, <2>7, <2>8, <2>9 DEF TripNext
<1> QED  BY <1>1, <1>2

LEMMA TripInvariant == TripSpec => []TripInv
<1>1. TripInit => TripInv
  BY TripAssumption DEF TripInit, TripInv, TripTypeOK, StopsOfOneSave, OpensSpaced, SavesInv, OpensInv,
     NoMoment, SavesUnderWay, OpensUnderWay
<1> QED  BY <1>1, TripStep, PTL DEF TripSpec

\* The stops listed are those of one save, whole, or of saves that overlapped or of
\* which one was not sent by the owner and left the other's (itinerary_stops.go:64).
THEOREM StopsWhole == TripSpec => []StopsOfOneSave
  BY TripInvariant, PTL DEF TripInv

\* Only opens under way at the same time are recorded within one cooldown
\* (actions.go:234).
THEOREM OpensThrottled == TripSpec => []OpensSpaced
  BY TripInvariant, PTL DEF TripInv

-----------------------------------------------------------------------------
(* The components together: a step of a scenario is a step of its component *)
(* or none, so each component's specification holds of every behaviour.    *)

LEMMA PlacesImplied == Spec => PlaceSpec
<1>1. Init => PlaceInit
  BY DEF Init
<1>2. [Next]_vars => [PlaceNext]_placeVars
  BY DEF Next, vars, ResolvingNext, BrowsingNext, BackfillingNext
<1> QED  BY <1>1, <1>2, PTL DEF Spec, PlaceSpec

LEMMA DetailsImplied == Spec => DetailSpec
<1>1. Init => DetailInit
  BY DEF Init
<1>2. [Next]_vars => [DetailNext]_detailVars
  BY DEF Next, vars
<1> QED  BY <1>1, <1>2, PTL DEF Spec, DetailSpec

LEMMA CalendarImplied == Spec => CalendarSpec
<1>1. Init => CalendarInit
  BY DEF Init
<1>2. [Next]_vars => [CalendarNext]_calendarVars
  BY DEF Next, vars, StatusNext, AnswersNext
<1> QED  BY <1>1, <1>2, PTL DEF Spec, CalendarSpec

LEMMA KeysImplied == Spec => KeySpec
<1>1. Init => KeyInit
  BY DEF Init
<1>2. [Next]_vars => [KeyNext]_keyVars
  BY DEF Next, vars
<1> QED  BY <1>1, <1>2, PTL DEF Spec, KeySpec

LEMMA LimiterImplied == Spec => LimiterSpec
<1>1. Init => LimiterInit
  BY DEF Init
<1>2. [Next]_vars => [LimiterNext]_limiterVars
  BY DEF Next, vars
<1> QED  BY <1>1, <1>2, PTL DEF Spec, LimiterSpec

LEMMA TripImplied == Spec => TripSpec
<1>1. Init => TripInit
  BY DEF Init
<1>2. [Next]_vars => [TripNext]_tripVars
  BY DEF Next, vars, StopsNext, OpensNext
<1> QED  BY <1>1, <1>2, PTL DEF Spec, TripSpec

\* Types of all the components.
THEOREM TypeCorrect == Spec => []TypeOK
<1>1. PlaceInv /\ DetailInv /\ CalendarInv /\ KeyInv /\ LimiterInv /\ TripInv => TypeOK
  BY DEF TypeOK, PlaceInv, DetailInv, CalendarInv, KeyInv, LimiterInv, TripInv
<1> QED
  BY <1>1, PlacesImplied, DetailsImplied, CalendarImplied, KeysImplied, LimiterImplied, TripImplied,
     PlaceInvariant, DetailInvariant, CalendarInvariant, KeyInvariant, LimiterInvariant, TripInvariant, PTL

\* Requests for one place find or create its destination, and lists open
\* (places.go:286, destinations.go:709).
THEOREM PlacesAreFound == Spec => []PlacesFound
<1>1. PlaceInv => PlacesFound
  BY DEF PlaceInv, PlacesFound
<1> QED  BY <1>1, PlacesImplied, PlaceInvariant, PTL

\* Destinations keep their places, and places their images
\* (backfill-google-places/main.go:91, cache.go:181).
THEOREM PlacesAreKept == Spec => PlacesKept
  BY PlacesImplied, DetailsImplied, IdentifiersKept, ImagesKept DEF PlacesKept

\* Answers, saves, stops, opens and requests are counted as they should
\* (actions.go:478, account.go:78, itinerary_stops.go:64, actions.go:234,
\* ratelimit.go:52).
THEOREM RecordsAreRight == Spec => []RecordsRight
<1>1. CalendarInv /\ TripInv /\ LimiterInv => RecordsRight
  BY DEF CalendarInv, TripInv, LimiterInv, RecordsRight
<1> QED
  BY <1>1, CalendarImplied, LimiterImplied, TripImplied, CalendarInvariant, LimiterInvariant,
     TripInvariant, PTL
=============================================================================
