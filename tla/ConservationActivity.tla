----------------------- MODULE ConservationActivity -----------------------
(***************************************************************************)
(* Conservation activities: joining and leaving under a participant limit, *)
(* evidence of participation, its review and the badge it awards, and what *)
(* account deletion does to the rows.                                      *)
(*                                                                         *)
(* A step is one SQL statement, except for account deletion, which is one  *)
(* transaction.  Joining takes up to three statements, leaving two and a   *)
(* review three; other requests run between them.                          *)
(***************************************************************************)
EXTENDS Naturals, Sequences, FiniteSets

CONSTANTS
  Users,
  Nobody,      \* user_id NULL, as account deletion leaves it
  Activities,
  Limits,      \* values of participant_limit
  NoLimit,     \* participant_limit NULL
  Requests,    \* concurrent JoinConservation and LeaveConservation requests
  Reviews,     \* concurrent ReviewEvidence requests
  ListLimit,   \* LIMIT of the moderators' list
  MaxRows,     \* bound: how many conservation_evidence rows are ever inserted
  MaxCount     \* bound: no join starts at a current_participants as high as this

ASSUME ConservationAssumption ==
  /\ Nobody \notin Users
  /\ Limits \subseteq Nat
  /\ NoLimit \notin Limits
  /\ IsFiniteSet(Users)
  /\ IsFiniteSet(Requests)
  /\ ListLimit \in Nat \ {0}
  /\ MaxRows \in Nat
  /\ MaxCount \in Nat

VARIABLES
  \* Table conservation_activities.
  created,       \* the rows there are
  limit,         \* participant_limit
  count,         \* current_participants
  badgeNamed,    \* badge_name is neither NULL nor empty
  \* The other tables.
  participants,  \* pairs <<user_id, activity_id>>
  evidence,      \* rows in the order of created_at
  badges,        \* pairs <<user_id, source_id>>
  \* Requests.
  request,       \* joining and leaving
  shown,         \* evidence that has been on some moderator's screen
  review,        \* ReviewEvidence
  \* History: what happened, read by no action.
  relimited,     \* activities whose limit was changed after their creation
  undercounted,  \* activities of which an increment was lost
  approved,      \* pairs <<user, activity>> a moderator has approved
  excused        \* rows of which a review was broken off or found no badge

activityVars == <<created, limit, badgeNamed, relimited>>
capacityVars == <<count, participants, request, undercounted>>
evidenceVars == <<evidence, badges, shown, review, approved, excused>>
vars == <<activityVars, capacityVars, evidenceVars>>

-----------------------------------------------------------------------------
(* Types.                                                                  *)

EvidenceStatus == {"pending", "in_progress", "approved", "rejected"}

EvidenceRow == [owner : Users \union {Nobody},
                activity : Activities,
                status : EvidenceStatus]

Request == [at : {"idle"}]
           \union [at : {"insert", "increment", "decrement"},  \* the next statement
                   user : Users, activity : Activities]

Review == [at : {"idle", "lookup", "award"},   \* the next statement
           row : Nat,                          \* 0 when idle
           user : Users \union {Nobody}]

NoRequest == [at |-> "idle"]
NoReview  == [at |-> "idle", row |-> 0, user |-> Nobody]

CapacityTypeOK ==
  /\ created \subseteq Activities
  /\ limit \in [Activities -> Limits \union {NoLimit}]
  /\ count \in [Activities -> Nat]
  /\ badgeNamed \in [Activities -> BOOLEAN]
  /\ participants \subseteq Users \X Activities
  /\ request \in [Requests -> Request]
  /\ relimited \subseteq Activities
  /\ undercounted \subseteq Activities

EvidenceTypeOK ==
  /\ evidence \in Seq(EvidenceRow)
  /\ badges \subseteq Users \X Activities
  /\ shown \subseteq DOMAIN evidence
  /\ review \in [Reviews -> Review]
  /\ approved \subseteq Users \X Activities
  /\ excused \subseteq DOMAIN evidence

TypeOK == CapacityTypeOK /\ EvidenceTypeOK

Init ==
  /\ created = {}
  /\ limit = [a \in Activities |-> NoLimit]
  /\ count = [a \in Activities |-> 0]
  /\ badgeNamed = [a \in Activities |-> FALSE]
  /\ participants = {}
  /\ evidence = <<>>
  /\ badges = {}
  /\ request = [r \in Requests |-> NoRequest]
  /\ shown = {}
  /\ review = [v \in Reviews |-> NoReview]
  /\ relimited = {}
  /\ undercounted = {}
  /\ approved = {}
  /\ excused = {}

-----------------------------------------------------------------------------
(* Administration of activities.                                           *)

Create(a, l, named) ==
  /\ a \notin created
  /\ created' = created \union {a}
  /\ limit' = [limit EXCEPT ![a] = l]
  /\ badgeNamed' = [badgeNamed EXCEPT ![a] = named]
  /\ UNCHANGED <<relimited, capacityVars, evidenceVars>>

\* Update: a limit can be set or changed but not taken away, a badge name can
\* be replaced by an empty one.  Nothing looks at the activity's status.
Update(a, l, named) ==
  /\ a \in created
  /\ l = limit[a] \/ l # NoLimit
  /\ limit' = [limit EXCEPT ![a] = l]
  /\ badgeNamed' = [badgeNamed EXCEPT ![a] = named]
  /\ relimited' = IF l = limit[a] THEN relimited ELSE relimited \union {a}
  /\ UNCHANGED <<created, capacityVars, evidenceVars>>

-----------------------------------------------------------------------------
(* Joining and leaving.                                                    *)

\* Request r goes on to statement s for the user and activity it began with.
GoTo(r, s) == [request EXCEPT ![r] =
                 [at |-> s, user |-> request[r].user, activity |-> request[r].activity]]

Finish(r) == [request EXCEPT ![r] = NoRequest]

\* Mutant: the limit is compared with > instead of >=.
JoinCheckOffByOne(r, u, a) ==
  /\ request[r].at = "idle"
  /\ a \in created
  /\ limit[a] # NoLimit => count[a] <= limit[a]
  /\ count[a] < MaxCount
  /\ request' = [request EXCEPT ![r] = [at |-> "insert", user |-> u, activity |-> a]]
  /\ UNCHANGED <<count, participants, undercounted, activityVars, evidenceVars>>

\* JoinConservation's SELECT: an activity that is full, or not there, ends it.
JoinCheck(r, u, a) ==
  /\ request[r].at = "idle"
  /\ a \in created
  /\ limit[a] # NoLimit => count[a] < limit[a]
  /\ count[a] < MaxCount
  /\ request' = [request EXCEPT ![r] = [at |-> "insert", user |-> u, activity |-> a]]
  /\ UNCHANGED <<count, participants, undercounted, activityVars, evidenceVars>>

\* INSERT .. ON CONFLICT DO NOTHING: no increment for who was there already.
JoinInsert(r) ==
  /\ request[r].at = "insert"
  /\ LET pair == <<request[r].user, request[r].activity>> IN
       /\ participants' = participants \union {pair}
       /\ request' = IF pair \in participants THEN Finish(r) ELSE GoTo(r, "increment")
  /\ UNCHANGED <<count, undercounted, activityVars, evidenceVars>>

Increment(r) ==
  /\ request[r].at = "increment"
  /\ count' = [count EXCEPT ![request[r].activity] = count[request[r].activity] + 1]
  /\ request' = Finish(r)
  /\ UNCHANGED <<participants, undercounted, activityVars, evidenceVars>>

\* Mutant: RowsAffected is not looked at.
LeaveAnyway(r, u, a) ==
  /\ request[r].at = "idle"
  /\ a \in created
  /\ participants' = participants \ {<<u, a>>}
  /\ request' = [request EXCEPT ![r] = [at |-> "decrement", user |-> u, activity |-> a]]
  /\ UNCHANGED <<count, undercounted, activityVars, evidenceVars>>

\* LeaveConservation's DELETE: who was not there gets "not joined".
Leave(r, u, a) ==
  /\ request[r].at = "idle"
  /\ <<u, a>> \in participants
  /\ participants' = participants \ {<<u, a>>}
  /\ request' = [request EXCEPT ![r] = [at |-> "decrement", user |-> u, activity |-> a]]
  /\ UNCHANGED <<count, undercounted, activityVars, evidenceVars>>

\* GREATEST(current_participants - 1, 0).
Decrement(r) ==
  /\ request[r].at = "decrement"
  /\ LET c == count[request[r].activity] IN
       count' = [count EXCEPT ![request[r].activity] = IF c = 0 THEN 0 ELSE c - 1]
  /\ request' = Finish(r)
  /\ UNCHANGED <<participants, undercounted, activityVars, evidenceVars>>

\* The request is cut (60 s timeout, client gone, restart) or its next
\* statement fails; the errors of Increment and Decrement are dropped.
CutOff(r) ==
  /\ request[r].at # "idle"
  /\ request' = Finish(r)
  /\ undercounted' = IF request[r].at = "increment"
                     THEN undercounted \union {request[r].activity} ELSE undercounted
  /\ UNCHANGED <<count, participants, activityVars, evidenceVars>>

-----------------------------------------------------------------------------
(* Evidence.                                                               *)

\* The row of (user_id, activity_id): the pair has a unique index.
RowsOf(u, a) == {i \in DOMAIN evidence : evidence[i].owner = u /\ evidence[i].activity = a}

\* SubmitConservationEvidence: insert, or reset the row there is, whatever its
\* status.  It does not look at conservation_participants.
Submit(u, a) ==
  /\ a \in created
  /\ \/ /\ RowsOf(u, a) = {}
        /\ Len(evidence) < MaxRows
        /\ evidence' = Append(evidence, [owner |-> u, activity |-> a, status |-> "pending"])
     \/ \E i \in RowsOf(u, a) :
          evidence' = [evidence EXCEPT ![i] = [evidence[i] EXCEPT !.status = "pending"]]
  /\ UNCHANGED <<badges, shown, review, approved, excused, activityVars, capacityVars>>

\* AccountHandler.Delete: the evidence is anonymised, participants, their
\* counters and badges stay.  The user's token goes on being valid.
DeleteAccount(u) ==
  /\ evidence' = [i \in DOMAIN evidence |->
                    IF evidence[i].owner = u THEN [evidence[i] EXCEPT !.owner = Nobody]
                    ELSE evidence[i]]
  /\ UNCHANGED <<badges, shown, review, approved, excused, activityVars, capacityVars>>

\* ListEvidence: the newest rows of every status.  A NULL user_id cannot be
\* scanned into a string: the row is listed by its id alone, and the failed
\* Scan closes the rows, so that older ones are dropped.
Listed == {i \in DOMAIN evidence :
             /\ Len(evidence) - i < ListLimit
             /\ \A k \in DOMAIN evidence : k > i => evidence[k].owner # Nobody}

\* A moderator may act on what the list showed at any later time.
OpenList ==
  /\ shown' = shown \union Listed
  /\ UNCHANGED <<evidence, badges, review, approved, excused, activityVars, capacityVars>>

\* Mutant: every decision but a rejection goes on to the badge.
DecideOpenly(v, i, s) ==
  /\ review[v].at = "idle"
  /\ i \in shown
  /\ evidence' = [evidence EXCEPT ![i] = [evidence[i] EXCEPT !.status = s]]
  /\ approved' = IF s = "approved"
                 THEN approved \union ({<<evidence[i].owner, evidence[i].activity>>}
                                        \cap (Users \X Activities))
                 ELSE approved
  /\ review' = IF s = "rejected" THEN review
               ELSE [review EXCEPT ![v] = [at |-> "lookup", row |-> i, user |-> Nobody]]
  /\ UNCHANGED <<badges, shown, excused, activityVars, capacityVars>>

\* Mutant: the action is stored as it came.
DecideByName(v, i, s) ==
  /\ review[v].at = "idle"
  /\ i \in shown
  /\ evidence' = [evidence EXCEPT ![i] = [evidence[i] EXCEPT !.status = "approve"]]
  /\ UNCHANGED <<badges, shown, review, approved, excused, activityVars, capacityVars>>

\* ReviewEvidence's UPDATE, whatever the row's status is by now: "approve",
\* "reject", and "in_progress" for any other action.
Decide(v, i, s) ==
  /\ review[v].at = "idle"
  /\ i \in shown
  /\ evidence' = [evidence EXCEPT ![i] = [evidence[i] EXCEPT !.status = s]]
  /\ approved' = IF s = "approved"
                 THEN approved \union ({<<evidence[i].owner, evidence[i].activity>>}
                                        \cap (Users \X Activities))
                 ELSE approved
  /\ review' = IF s = "approved"
               THEN [review EXCEPT ![v] = [at |-> "lookup", row |-> i, user |-> Nobody]]
               ELSE review
  /\ UNCHANGED <<badges, shown, excused, activityVars, capacityVars>>

\* Mutant: the look-up joins conservation_participants.
LookupParticipant(v) ==
  /\ review[v].at = "lookup"
  /\ LET e == evidence[review[v].row] IN
       /\ review' = [review EXCEPT ![v] =
            IF <<e.owner, e.activity>> \in participants /\ badgeNamed[e.activity]
            THEN [at |-> "award", row |-> review[v].row, user |-> e.owner]
            ELSE NoReview]
       /\ excused' = IF badgeNamed[e.activity] THEN excused
                     ELSE excused \union {review[v].row}
  /\ UNCHANGED <<evidence, badges, shown, approved, activityVars, capacityVars>>

\* SELECT of the owner and the badge.  A row anonymised meanwhile cannot be
\* scanned; AwardBadge returns at once if the activity has no badge.
Lookup(v) ==
  /\ review[v].at = "lookup"
  /\ LET e == evidence[review[v].row] IN
       /\ review' = [review EXCEPT ![v] =
            IF e.owner \in Users /\ badgeNamed[e.activity]
            THEN [at |-> "award", row |-> review[v].row, user |-> e.owner]
            ELSE NoReview]
       /\ excused' = IF badgeNamed[e.activity] THEN excused
                     ELSE excused \union {review[v].row}
  /\ UNCHANGED <<evidence, badges, shown, approved, activityVars, capacityVars>>

\* AwardBadge: INSERT .. ON CONFLICT DO NOTHING.
Award(v) ==
  /\ review[v].at = "award"
  /\ badges' = badges \union {<<review[v].user, evidence[review[v].row].activity>>}
  /\ review' = [review EXCEPT ![v] = NoReview]
  /\ UNCHANGED <<evidence, shown, approved, excused, activityVars, capacityVars>>

\* The review is cut off, or the look-up or the insert fails silently.
BreakOff(v) ==
  /\ review[v].at # "idle"
  /\ review' = [review EXCEPT ![v] = NoReview]
  /\ excused' = excused \union {review[v].row}
  /\ UNCHANGED <<evidence, badges, shown, approved, activityVars, capacityVars>>

-----------------------------------------------------------------------------
Administer ==
  \E a \in Activities, l \in Limits \union {NoLimit}, named \in BOOLEAN :
    Create(a, l, named) \/ Update(a, l, named)

Participate ==
  \/ \E r \in Requests, u \in Users, a \in Activities : JoinCheck(r, u, a)
  \/ \E r \in Requests, u \in Users, a \in Activities : Leave(r, u, a)
  \/ \E r \in Requests : JoinInsert(r) \/ Increment(r) \/ Decrement(r) \/ CutOff(r)

Moderate ==
  \/ OpenList
  \/ \E v \in Reviews, i \in shown, s \in EvidenceStatus \ {"pending"} : Decide(v, i, s)
  \/ \E v \in Reviews : Lookup(v) \/ Award(v) \/ BreakOff(v)

Next ==
  \/ Administer
  \/ Participate
  \/ \E u \in Users, a \in Activities : Submit(u, a)
  \/ \E u \in Users : DeleteAccount(u)
  \/ Moderate

Spec == Init /\ [][Next]_vars

-----------------------------------------------------------------------------
(* Properties.                                                             *)

Participants(a) == {u \in Users : <<u, a>> \in participants}
RequestsAt(a, s) == {r \in Requests : request[r].at = s /\ request[r].activity = a}

\* current_participants never falls below the participants there are, apart
\* from the increments still to come, in whatever order the statements of
\* joins and leaves run (actions.go:186, 638): the limit is never compared
\* with too small a number.  It may be too large for good: GREATEST drops the
\* decrement of a user who leaves before their own increment has run.
CountNeverLow ==
  \A a \in Activities \ undercounted :
    Cardinality(Participants(a)) + Cardinality(RequestsAt(a, "decrement"))
      <= count[a] + Cardinality(RequestsAt(a, "increment"))

\* The limit is read and compared before the insert (actions.go:163-171), so
\* concurrent joins overrun it, but never by more than one less than their
\* number, unless the limit was changed or an increment lost.
OverrunIsBounded ==
  \A a \in created \ (relimited \union undercounted) :
    /\ limit[a] # NoLimit
    /\ Participants(a) # {}
    => Cardinality(Participants(a)) + 1 <= limit[a] + Cardinality(Requests)

\* Approved evidence has its badge, or a review about to award it, unless a
\* review of it was broken off, found no badge to award (conservation.go:270)
\* or the account is gone: neither resubmission nor another moderator's
\* decision between the three statements loses one.
ApprovedRowHasBadge ==
  \A i \in DOMAIN evidence :
    /\ evidence[i].status = "approved"
    /\ evidence[i].owner # Nobody
    /\ i \notin excused
    => \/ <<evidence[i].owner, evidence[i].activity>> \in badges
       \/ \E v \in Reviews : review[v].at # "idle" /\ review[v].row = i

\* Badges are given for approvals only and stay (conservation.go:261-273).
Ledger == INSTANCE BadgeLedger WITH
            Sources <- Activities, earned <- approved, given <- badges
ImplementsBadgeLedger == Ledger!Spec

-----------------------------------------------------------------------------
(* The inductive invariant behind the two properties of the limit.         *)

\* Participants and requests belong to activities that exist.
ExistInv ==
  /\ \A pair \in participants : pair[2] \in created
  /\ \A r \in Requests : request[r].at # "idle" => request[r].activity \in created

\* Joins that have passed the check count as participants already.
OverrunInv ==
  \A a \in created \ (relimited \union undercounted) :
    /\ limit[a] # NoLimit
    /\ Participants(a) # {} \/ RequestsAt(a, "insert") # {}
    => Cardinality(Participants(a)) + Cardinality(RequestsAt(a, "insert")) + 1
         <= limit[a] + Cardinality(Requests)

CapacityInv == ExistInv /\ CountNeverLow /\ OverrunInv

(* The inductive invariant behind badges.                                  *)

\* A review between its statements works on an approved pair whose owner is
\* the one looked up, or nobody any more.
ReviewInv ==
  \A v \in Reviews : review[v].at # "idle" =>
    LET e == evidence[review[v].row] IN
      /\ review[v].row \in DOMAIN evidence
      /\ e.owner # Nobody => <<e.owner, e.activity>> \in approved
      /\ review[v].at = "award" =>
           /\ review[v].user \in Users
           /\ <<review[v].user, e.activity>> \in approved
           /\ e.owner \in {review[v].user, Nobody}

BadgeInv == ReviewInv /\ ApprovedRowHasBadge
=============================================================================
