---------------------------- MODULE EventCalendar ----------------------------
(***************************************************************************)
(* Events: the status administrators give them, and the users' answers.    *)
(*                                                                         *)
(* PATCH /status reads the status, checks the transition and writes, in    *)
(* two statements; PATCH on the event itself and DELETE write a status     *)
(* unchecked.                                                              *)
(***************************************************************************)
EXTENDS Naturals, FiniteSets

CONSTANTS
  Events,
  Guests,
  StatusRequests, \* concurrent status changes
  NoEvent

ASSUME CalendarAssumption == NoEvent \notin Events

VARIABLES
  status,         \* table events; "none" before the event is created
  attendees,      \* table event_attendees
  saves,          \* table event_saves
  accounts,       \* users whose account exists
  erasing,        \* account deletions before their COMMIT: the saves they delete
  statusRequest,  \* a change between its SELECT and its UPDATE
  \* History, read by the properties only.
  overtaken,      \* changes whose event was cancelled after they read it
  answer,         \* what a user told an event last
  lateSaves       \* saves inserted while their user's account was being deleted, or after

calendarVars == <<status, attendees, saves, accounts, erasing, statusRequest, overtaken, answer,
                  lateSaves>>

-----------------------------------------------------------------------------
Statuses == {"scheduled", "postponed", "cancelled"}

Answers == {"joined", "interested", "waitlist"}

\* erasing[u] when no deletion of u's account is going on.
NoSave == <<NoEvent, NoEvent>>

NoChange == [event |-> NoEvent, to |-> "scheduled"]

CalendarTypeOK ==
  /\ status \in [Events -> Statuses \union {"none"}]
  /\ attendees \subseteq Guests \X Events \X Answers
  /\ saves \subseteq Guests \X Events
  /\ accounts \subseteq Guests
  /\ statusRequest \in [StatusRequests -> [event : Events \union {NoEvent}, to : Statuses]]
  /\ overtaken \subseteq StatusRequests
  /\ answer \in [Guests \X Events -> Answers \union {"none"}]
  /\ erasing \in [Guests -> (SUBSET saves) \union {{NoSave}}]
  /\ lateSaves \subseteq Guests \X Events

CalendarInit ==
  /\ status = [e \in Events |-> "none"]
  /\ attendees = {}
  /\ saves = {}
  /\ accounts = Guests
  /\ statusRequest = [r \in StatusRequests |-> NoChange]
  /\ overtaken = {}
  /\ answer = [x \in Guests \X Events |-> "none"]
  /\ erasing = [u \in Guests |-> {NoSave}]
  /\ lateSaves = {}

Created(e) == status[e] # "none"

\* Changes that have read e's status and not written yet.
Reading(e) == {r \in StatusRequests : statusRequest[r].event = e}

SetStatus(e, s) ==
  /\ status' = [status EXCEPT ![e] = s]
  /\ overtaken' = IF s = "cancelled" THEN overtaken \union Reading(e) ELSE overtaken

-----------------------------------------------------------------------------
CreateEvent(e) ==
  /\ ~Created(e)
  /\ status' = [status EXCEPT ![e] = "scheduled"]
  /\ UNCHANGED <<attendees, saves, accounts, erasing, statusRequest, overtaken, answer, lateSaves>>

\* Update writes the status it is given.
UpdateEvent(e, s) ==
  /\ Created(e)
  /\ SetStatus(e, s)
  /\ UNCHANGED <<attendees, saves, accounts, erasing, statusRequest, answer, lateSaves>>

\* Delete keeps the row, and the answers.
DeleteEvent(e) ==
  /\ Created(e)
  /\ SetStatus(e, "cancelled")
  /\ UNCHANGED <<attendees, saves, accounts, erasing, statusRequest, answer, lateSaves>>

\* Mutant: the table of transitions lets a cancelled event be scheduled again.
LooseTransitions(s) ==
  CASE s = "scheduled" -> {"postponed"}
    [] s = "postponed" -> {"scheduled", "cancelled"}
    [] s = "cancelled" -> {"scheduled"}
    [] OTHER -> {}

validTransitions(s) ==
  CASE s = "scheduled" -> {"postponed"}
    [] s = "postponed" -> {"scheduled", "cancelled"}
    [] OTHER -> {}

\* UpdateStatus: the SELECT and the check of the transition.
CheckStatus(r, e, s) ==
  /\ statusRequest[r] = NoChange
  /\ s \in validTransitions(status[e])
  /\ statusRequest' = [statusRequest EXCEPT ![r] = [event |-> e, to |-> s]]
  /\ overtaken' = overtaken \ {r}
  /\ UNCHANGED <<status, attendees, saves, accounts, erasing, answer, lateSaves>>

\* The UPDATE, which looks at the status no more, or fails.
WriteStatus(r, written) ==
  LET e == statusRequest[r].event IN
  /\ statusRequest[r] # NoChange
  /\ statusRequest' = [statusRequest EXCEPT ![r] = NoChange]
  /\ status' = IF written THEN [status EXCEPT ![e] = statusRequest[r].to] ELSE status
  /\ overtaken' = (IF written /\ statusRequest[r].to = "cancelled"
                   THEN overtaken \union Reading(e) ELSE overtaken) \ {r}
  /\ UNCHANGED <<attendees, saves, accounts, erasing, answer, lateSaves>>

-----------------------------------------------------------------------------
\* AttendEvent inserts one row per answer, whatever the event's status; the
\* row's user must exist.
AttendEvent(u, e, a) ==
  /\ Created(e)
  /\ u \in accounts
  /\ attendees' = attendees \union {<<u, e, a>>}
  /\ answer' = [answer EXCEPT ![<<u, e>>] = a]
  /\ UNCHANGED <<status, saves, accounts, erasing, statusRequest, overtaken, lateSaves>>

\* Mutant: only the row of the last answer is deleted.
LeaveLastAnswer(u, e) ==
  /\ attendees' = attendees \ {<<u, e, answer[<<u, e>>]>>}
  /\ answer' = [answer EXCEPT ![<<u, e>>] = "none"]
  /\ UNCHANGED <<status, saves, accounts, erasing, statusRequest, overtaken, lateSaves>>

\* LeaveEvent deletes all rows of the user.
LeaveEvent(u, e) ==
  /\ attendees' = {x \in attendees : ~(x[1] = u /\ x[2] = e)}
  /\ answer' = [answer EXCEPT ![<<u, e>>] = "none"]
  /\ UNCHANGED <<status, saves, accounts, erasing, statusRequest, overtaken, lateSaves>>

\* SaveEvent.  event_saves does not refer to users: a token that is still good
\* saves for an account that is gone.  The INSERT waits for a deletion that has
\* its row.
SaveEvent(u, e) ==
  /\ Created(e)
  /\ <<u, e>> \notin erasing[u]
  /\ saves' = saves \union {<<u, e>>}
  /\ lateSaves' = IF <<u, e>> \notin saves /\ (u \notin accounts \/ erasing[u] # {NoSave})
                  THEN lateSaves \union {<<u, e>>} ELSE lateSaves
  /\ UNCHANGED <<status, attendees, accounts, erasing, statusRequest, overtaken, answer>>

\* The account's deletion, one transaction: DELETE FROM event_saves ..
EraseSaves(u) ==
  /\ u \in accounts
  /\ erasing[u] = {NoSave}
  /\ erasing' = [erasing EXCEPT ![u] = {x \in saves : x[1] = u}]
  /\ UNCHANGED <<status, attendees, saves, accounts, statusRequest, overtaken, answer, lateSaves>>

\* Mutant: event_saves is forgotten.
DeleteUserOnly(u) ==
  /\ erasing[u] # {NoSave}
  /\ erasing' = [erasing EXCEPT ![u] = {NoSave}]
  /\ saves' = saves
  /\ accounts' = accounts \ {u}
  /\ attendees' = {x \in attendees : x[1] # u}
  /\ answer' = [x \in DOMAIN answer |-> IF x[1] = u THEN "none" ELSE answer[x]]
  /\ UNCHANGED <<status, statusRequest, overtaken, lateSaves>>

\* .. and DELETE FROM users, which takes the answers with it, and COMMIT.
DeleteUser(u) ==
  /\ erasing[u] # {NoSave}
  /\ erasing' = [erasing EXCEPT ![u] = {NoSave}]
  /\ saves' = saves \ erasing[u]
  /\ accounts' = accounts \ {u}
  /\ attendees' = {x \in attendees : x[1] # u}
  /\ answer' = [x \in DOMAIN answer |-> IF x[1] = u THEN "none" ELSE answer[x]]
  /\ UNCHANGED <<status, statusRequest, overtaken, lateSaves>>

\* A statement failed, or the request was cut off.
RollBackDeletion(u) ==
  /\ erasing[u] # {NoSave}
  /\ erasing' = [erasing EXCEPT ![u] = {NoSave}]
  /\ UNCHANGED <<status, attendees, saves, accounts, statusRequest, overtaken, answer, lateSaves>>

CalendarNext ==
  \/ \E e \in Events :
       \/ CreateEvent(e) \/ DeleteEvent(e)
       \/ \E s \in Statuses : UpdateEvent(e, s)
       \/ \E r \in StatusRequests, s \in Statuses : CheckStatus(r, e, s)
       \/ \E u \in Guests : LeaveEvent(u, e) \/ SaveEvent(u, e) \/ \E a \in Answers : AttendEvent(u, e, a)
  \/ \E r \in StatusRequests, written \in BOOLEAN : WriteStatus(r, written)
  \/ \E u \in Guests : EraseSaves(u) \/ DeleteUser(u) \/ RollBackDeletion(u)

CalendarSpec == CalendarInit /\ [][CalendarNext]_calendarVars

-----------------------------------------------------------------------------
(* Properties.                                                             *)

\* A cancelled event stays cancelled: it comes back by an edit of the event, or
\* by a status change that had read the status before it was cancelled
\* (events.go:642).
CancelledStays ==
  [][\A e \in Events : status[e] = "cancelled" /\ status'[e] # "cancelled" =>
       \/ statusRequest' = statusRequest
       \/ \E r \in overtaken : statusRequest[r].event = e /\ statusRequest'[r] = NoChange]_calendarVars

\* A user's last answer is among his rows, and one who left, or whose account is
\* gone, has none: neither is counted (actions.go:478).
AnswersKept ==
  \A u \in Guests, e \in Events :
    IF answer[<<u, e>>] = "none" THEN \A a \in Answers : <<u, e, a>> \notin attendees
    ELSE <<u, e, answer[<<u, e>>]>> \in attendees /\ u \in accounts

\* A deleted account leaves no saves but those inserted during its deletion, or
\* afterwards with a token that is still good (account.go:78).
DeletionErases ==
  \A x \in saves : x[1] \in accounts \/ x \in lateSaves

-----------------------------------------------------------------------------
(* The inductive invariant.                                                *)

\* A change that has read an event which is cancelled by now is on record as
\* overtaken: a cancelled event has no transitions (events.go:642).
OvertakenInv ==
  \A r \in StatusRequests, e \in Events :
    statusRequest[r].event = e /\ status[e] = "cancelled" => r \in overtaken

\* A deletion of an account that is still there holds saves of its user, and all
\* of them that were not inserted since (account.go:78).
ErasingInv ==
  \A u \in Guests : erasing[u] # {NoSave} =>
    /\ u \in accounts
    /\ \A x \in erasing[u] : x[1] = u
    /\ \A x \in saves : x[1] = u => x \in erasing[u] \/ x \in lateSaves

CalendarInv ==
  /\ CalendarTypeOK
  /\ OvertakenInv
  /\ ErasingInv
  /\ AnswersKept
  /\ DeletionErases
=============================================================================
