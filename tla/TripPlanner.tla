----------------------------- MODULE TripPlanner -----------------------------
(***************************************************************************)
(* One user's itinerary and the stops saved with it, and the record of his *)
(* opening the app: two places where concurrent requests meet at READ      *)
(* COMMITTED without a lock or a unique index.                             *)
(***************************************************************************)
EXTENDS Naturals, FiniteSets

CONSTANTS
  Saves,         \* saves of the whole list of stops; each is sent once
  Positions,     \* stops of a list
  Opens,         \* requests that record an app open; each is sent once
  Cooldown,      \* ticks in which opens count once (5 minutes)
  LastMoment     \* bound: the clock

ASSUME TripAssumption == Cooldown \in Nat /\ LastMoment \in Nat

VARIABLES
  itinerary,     \* its row: the user's, nobody's since his account was deleted, or gone
  stops,         \* table itinerary_stops: pairs <<save, position>>
  save,          \* a save's transaction
  rowsSeen,      \* the rows a save's DELETE found
  moment,
  opensAt,       \* table app_opens: the moment of a request's row
  open,
  \* History, read by the properties only.
  together       \* pairs of opens that were under way at the same time; and of saves,
                 \* also those of which one was not the owner's and left the other's rows

tripVars == <<itinerary, stops, save, rowsSeen, moment, opensAt, open, together>>

-----------------------------------------------------------------------------
NoMoment == LastMoment + 1

TripTypeOK ==
  /\ itinerary \in {"owned", "anonymous", "gone"}
  /\ stops \subseteq Saves \X Positions
  /\ save \in [Saves -> {"unsent", "deleting", "inserting", "over"}]
  /\ rowsSeen \in [Saves -> SUBSET (Saves \X Positions)]
  /\ moment \in 0..LastMoment
  /\ opensAt \in [Opens -> 0..NoMoment]
  /\ open \in [Opens -> {"unsent", "checked", "over"}]
  /\ together \subseteq (Saves \X Saves) \union (Opens \X Opens)

TripInit ==
  /\ itinerary = "owned"
  /\ stops = {}
  /\ save = [x \in Saves |-> "unsent"]
  /\ rowsSeen = [x \in Saves |-> {}]
  /\ moment = 0
  /\ opensAt = [o \in Opens |-> NoMoment]
  /\ open = [o \in Opens |-> "unsent"]
  /\ together = {}

Both(x, others) == ({x} \X others) \union (others \X {x})

SavesUnderWay == {x \in Saves : save[x] \in {"deleting", "inserting"}}

OpensUnderWay == {o \in Opens : open[o] = "checked"}

\* Rows deleted by a save that has not committed.
Locked(x) == UNION {rowsSeen[y] : y \in {z \in Saves \ {x} : save[z] = "inserting"}}

-----------------------------------------------------------------------------
(* UpsertStops, and what becomes of the itinerary.                         *)

\* DELETE FROM itinerary_stops takes its snapshot: the committed rows if the
\* itinerary is the caller's, else none.  The INSERTs do not ask whose it is.
StartSave(x, mine) ==
  /\ save[x] = "unsent"
  /\ mine => itinerary = "owned"
  /\ save' = [save EXCEPT ![x] = "deleting"]
  /\ rowsSeen' = [rowsSeen EXCEPT ![x] = IF mine THEN stops ELSE {}]
  /\ together' = together \union Both(x, SavesUnderWay)
                         \union (IF mine THEN {} ELSE Both(x, {s[1] : s \in stops}))
  /\ UNCHANGED <<itinerary, stops, moment, opensAt, open>>

\* Rows another save is deleting are waited for and, once they are gone, left
\* out.  The rows that save inserted are not in the snapshot.
ClearStops(x) ==
  /\ save[x] = "deleting"
  /\ rowsSeen[x] \intersect Locked(x) = {}
  /\ save' = [save EXCEPT ![x] = "inserting"]
  /\ rowsSeen' = [rowsSeen EXCEPT ![x] = rowsSeen[x] \intersect stops]
  /\ UNCHANGED <<itinerary, stops, moment, opensAt, open, together>>

\* Mutant: every statement commits by itself.
InsertSome(x, inserted) ==
  /\ save[x] = "inserting"
  /\ itinerary # "gone"
  /\ stops' = (stops \ rowsSeen[x]) \union ({x} \X inserted)
  /\ save' = [save EXCEPT ![x] = "over"]
  /\ rowsSeen' = [rowsSeen EXCEPT ![x] = {}]
  /\ UNCHANGED <<itinerary, moment, opensAt, open, together>>

\* The INSERTs, which need the itinerary's row, and the COMMIT; nobody sees a part
\* of them.
CommitSave(x, inserted) ==
  /\ save[x] = "inserting"
  /\ itinerary # "gone"
  /\ inserted = Positions
  /\ stops' = (stops \ rowsSeen[x]) \union ({x} \X inserted)
  /\ save' = [save EXCEPT ![x] = "over"]
  /\ rowsSeen' = [rowsSeen EXCEPT ![x] = {}]
  /\ UNCHANGED <<itinerary, moment, opensAt, open, together>>

\* An INSERT failed (its destination, or the itinerary, was deleted), or the request
\* was cut off.
RollBackSave(x) ==
  /\ save[x] \in {"deleting", "inserting"}
  /\ save' = [save EXCEPT ![x] = "over"]
  /\ rowsSeen' = [rowsSeen EXCEPT ![x] = {}]
  /\ UNCHANGED <<itinerary, stops, moment, opensAt, open, together>>

\* The itinerary's owner deletes it, and the stops with it.
DeleteItinerary ==
  /\ itinerary = "owned"
  /\ itinerary' = "gone"
  /\ stops' = {}
  /\ UNCHANGED <<save, rowsSeen, moment, opensAt, open, together>>

\* The deletion of the user's account: the itinerary is anonymised and the records
\* of his opening the app are deleted.
DeleteOwner ==
  /\ itinerary' = IF itinerary = "owned" THEN "anonymous" ELSE itinerary
  /\ opensAt' = [o \in Opens |-> NoMoment]
  /\ UNCHANGED <<stops, save, rowsSeen, moment, open, together>>

-----------------------------------------------------------------------------
(* RecordAppOpen.                                                          *)

\* Mutant: only opens of this very moment count.
OpensOfNow == {o \in Opens : opensAt[o] = moment}

\* opened_at > now() - interval '5 minutes'.
RecentOpens == {o \in Opens : opensAt[o] # NoMoment /\ opensAt[o] + Cooldown > moment}

\* SELECT COUNT(*) .. of the last five minutes: an open is recorded already.
SkipOpen(o) ==
  /\ open[o] = "unsent"
  /\ RecentOpens # {}
  /\ open' = [open EXCEPT ![o] = "over"]
  /\ UNCHANGED <<itinerary, stops, save, rowsSeen, moment, opensAt, together>>

CheckOpens(o) ==
  /\ open[o] = "unsent"
  /\ RecentOpens = {}
  /\ open' = [open EXCEPT ![o] = "checked"]
  /\ together' = together \union Both(o, OpensUnderWay)
  /\ UNCHANGED <<itinerary, stops, save, rowsSeen, moment, opensAt>>

\* The INSERT, or its failure.
InsertOpen(o, inserted) ==
  /\ open[o] = "checked"
  /\ open' = [open EXCEPT ![o] = "over"]
  /\ opensAt' = IF inserted THEN [opensAt EXCEPT ![o] = moment] ELSE opensAt
  /\ UNCHANGED <<itinerary, stops, save, rowsSeen, moment, together>>

MomentPasses ==
  /\ moment < LastMoment
  /\ moment' = moment + 1
  /\ UNCHANGED <<itinerary, stops, save, rowsSeen, opensAt, open, together>>

TripNext ==
  \/ \E x \in Saves, mine \in BOOLEAN : StartSave(x, mine)
  \/ \E x \in Saves : ClearStops(x) \/ RollBackSave(x)
  \/ \E x \in Saves, inserted \in SUBSET Positions : CommitSave(x, inserted)
  \/ \E o \in Opens : SkipOpen(o) \/ CheckOpens(o) \/ \E inserted \in BOOLEAN : InsertOpen(o, inserted)
  \/ DeleteItinerary
  \/ DeleteOwner
  \/ MomentPasses

TripSpec == TripInit /\ [][TripNext]_tripVars

-----------------------------------------------------------------------------
(* Properties.                                                             *)

\* The stops are those of one save, all of them.  Stops of two saves are listed
\* together only if these were under way at the same time, or if the DELETE of one,
\* not sent by the itinerary's owner, left the list of the other
\* (itinerary_stops.go:64).
StopsOfOneSave ==
  /\ \A s \in stops : {s[1]} \X Positions \subseteq stops
  /\ \A s, t \in stops : s[1] = t[1] \/ <<s[1], t[1]>> \in together

\* Opens within the cooldown are recorded twice only by requests that were under
\* way at the same time (actions.go:234).
OpensSpaced ==
  \A o, p \in Opens :
    /\ o # p /\ NoMoment \notin {opensAt[o], opensAt[p]}
    /\ opensAt[o] <= opensAt[p] /\ opensAt[p] < opensAt[o] + Cooldown
    => <<o, p>> \in together

-----------------------------------------------------------------------------
(* The inductive invariant.                                                *)

\* What a DELETE found are whole lists.  Whatever is listed beside them by now was
\* saved by a transaction that overlapped, or the itinerary is not the caller's
\* (itinerary_stops.go:64).
SavesInv ==
  \A x \in SavesUnderWay :
    /\ \A s \in rowsSeen[x] : {s[1]} \X Positions \subseteq rowsSeen[x]
    /\ \A s \in stops : s \in rowsSeen[x] \/ Both(x, {s[1]}) \subseteq together
    /\ \A y \in SavesUnderWay \ {x} : <<x, y>> \in together

\* When an open has been checked, what is recorded was recorded a cooldown ago, or
\* by a request that overlapped (actions.go:234).
OpensInv ==
  /\ \A o \in Opens : opensAt[o] # NoMoment => opensAt[o] <= moment
  /\ \A p \in OpensUnderWay :
       /\ \A o \in Opens : opensAt[o] # NoMoment =>
            opensAt[o] + Cooldown <= moment \/ Both(p, {o}) \subseteq together
       /\ \A o \in OpensUnderWay \ {p} : <<o, p>> \in together

TripInv ==
  /\ TripTypeOK
  /\ StopsOfOneSave
  /\ OpensSpaced
  /\ SavesInv
  /\ OpensInv
=============================================================================
