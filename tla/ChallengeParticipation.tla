----------------------- MODULE ChallengeParticipation -----------------------
(***************************************************************************)
(* Challenges: their administration, joining them, submitting evidence,    *)
(* the moderators' queue, the review of evidence and the badge it awards,  *)
(* and what account deletion does to the participants' rows.               *)
(*                                                                         *)
(* A step is one SQL statement, except for account deletion, which is one  *)
(* transaction; ReviewEvidence takes up to three statements, and other     *)
(* requests run between them.                                              *)
(***************************************************************************)
EXTENDS Naturals, Sequences, FiniteSets

CONSTANTS
  Users,
  Nobody,      \* user_id NULL, as account deletion leaves it
  Challenges,
  Reviews,     \* concurrent ReviewEvidence requests
  ListLimit,   \* LIMIT of the moderators' queue
  MaxRows      \* bound: how many challenge_progress rows are ever inserted

ASSUME ChallengeAssumption ==
  /\ Nobody \notin Users
  /\ ListLimit \in Nat \ {0}
  /\ MaxRows \in Nat

VARIABLES
  \* Tables challenges, challenge_progress and badges.
  challengeStatus,  \* "none" while the challenge does not exist
  progress,         \* rows in the order of created_at
  badges,           \* pairs <<user_id, source_id>>
  \* Moderators.
  shown,            \* rows that have been on some moderator's screen
  review,           \* the ReviewEvidence requests
  \* History: what happened, read by no action.
  approved,         \* pairs <<user, challenge>> a moderator has approved
  brokenOff         \* rows of which a review ended before its last statement

vars == <<challengeStatus, progress, badges, shown, review, approved, brokenOff>>

-----------------------------------------------------------------------------
(* Types.                                                                  *)

ProgressStatus == {"joined", "in_progress", "submitted", "approved", "rejected"}

ProgressRow == [owner : Users \union {Nobody},
                challenge : Challenges,
                status : ProgressStatus,
                evidence : BOOLEAN,   \* evidence IS NOT NULL
                awarded : BOOLEAN]    \* badge_awarded_at IS NOT NULL

Review == [at : {"idle", "lookup", "award"},   \* the next statement
           row : Nat,                          \* 0 when idle
           user : Users \union {Nobody}]

Idle == [at |-> "idle", row |-> 0, user |-> Nobody]

TypeOK ==
  /\ challengeStatus \in [Challenges -> {"none", "draft", "active", "ended"}]
  /\ progress \in Seq(ProgressRow)
  /\ badges \subseteq Users \X Challenges
  /\ shown \subseteq DOMAIN progress
  /\ review \in [Reviews -> Review]
  /\ approved \subseteq Users \X Challenges
  /\ brokenOff \subseteq DOMAIN progress

Init ==
  /\ challengeStatus = [c \in Challenges |-> "none"]
  /\ progress = <<>>
  /\ badges = {}
  /\ shown = {}
  /\ review = [v \in Reviews |-> Idle]
  /\ approved = {}
  /\ brokenOff = {}

-----------------------------------------------------------------------------
(* Helpers.                                                                *)

\* The row of (user_id, challenge_id): the pair has a unique index, which frees
\* the place of an anonymised row.
RowsOf(u, c) == {i \in DOMAIN progress : progress[i].owner = u /\ progress[i].challenge = c}

Submitted == {i \in DOMAIN progress : progress[i].status = "submitted"}

\* ORDER BY created_at DESC LIMIT ListLimit.
NewestOf(S) == {i \in S : Cardinality({k \in S : k > i}) < ListLimit}

\* A NULL user_id cannot be scanned into a string: the row is listed by its id
\* alone, and the failed Scan closes the rows, so that older ones are dropped.
ScannedOf(S) == {i \in S : \A k \in S : k > i => progress[k].owner # Nobody}

\* Mutant: the queue is not filtered by status.
QueueOfAll == ScannedOf(NewestOf(DOMAIN progress))

\* What ListEvidence answers.
Queue == ScannedOf(NewestOf(Submitted))

\* UPDATE challenge_progress .. WHERE id = i, setting the status to s.
SetStatusOf(i, s) == [progress EXCEPT ![i] = [progress[i] EXCEPT !.status = s]]

-----------------------------------------------------------------------------
(* Administration of challenges.                                           *)

Create(c) ==
  /\ challengeStatus[c] = "none"
  /\ challengeStatus' = [challengeStatus EXCEPT ![c] = "draft"]
  /\ UNCHANGED <<progress, badges, shown, review, approved, brokenOff>>

\* Update accepts every status at any time; Delete sets "ended".
SetStatus(c, s) ==
  /\ challengeStatus[c] # "none"
  /\ challengeStatus' = [challengeStatus EXCEPT ![c] = s]
  /\ UNCHANGED <<progress, badges, shown, review, approved, brokenOff>>

-----------------------------------------------------------------------------
(* Participants.                                                           *)

\* JoinChallenge: INSERT .. ON CONFLICT DO NOTHING.  The foreign key wants
\* the challenge to exist; its status is not looked at.
Join(u, c) ==
  /\ challengeStatus[c] # "none"
  /\ RowsOf(u, c) = {}
  /\ Len(progress) < MaxRows
  /\ progress' = Append(progress, [owner |-> u, challenge |-> c, status |-> "joined",
                                   evidence |-> FALSE, awarded |-> FALSE])
  /\ UNCHANGED <<challengeStatus, badges, shown, review, approved, brokenOff>>

\* SubmitChallengeEvidence: whatever the row's status is.
Submit(u, c) ==
  /\ \E i \in RowsOf(u, c) :
       progress' = [progress EXCEPT ![i] =
                      [progress[i] EXCEPT !.status = "submitted", !.evidence = TRUE]]
  /\ UNCHANGED <<challengeStatus, badges, shown, review, approved, brokenOff>>

\* AccountHandler.Delete, as far as it concerns challenges: the rows are
\* anonymised, the badges stay.  The user's token goes on being valid.
DeleteAccount(u) ==
  /\ progress' = [i \in DOMAIN progress |->
                    IF progress[i].owner = u THEN [progress[i] EXCEPT !.owner = Nobody]
                    ELSE progress[i]]
  /\ UNCHANGED <<challengeStatus, badges, shown, review, approved, brokenOff>>

-----------------------------------------------------------------------------
(* Moderators.                                                             *)

\* ListEvidence: a moderator may act on what it answered at any later time.
OpenQueue ==
  /\ shown' = shown \union Queue
  /\ UNCHANGED <<challengeStatus, progress, badges, review, approved, brokenOff>>

\* ReviewEvidence with action "approve": the UPDATE, whatever the row's status
\* is by now.
Approve(v, i) ==
  /\ review[v].at = "idle"
  /\ i \in shown
  /\ progress' = [progress EXCEPT ![i] =
                    [progress[i] EXCEPT !.status = "approved", !.awarded = TRUE]]
  /\ approved' = approved \union ({<<progress[i].owner, progress[i].challenge>>}
                                   \cap (Users \X Challenges))
  /\ review' = [review EXCEPT ![v] = [at |-> "lookup", row |-> i, user |-> Nobody]]
  /\ UNCHANGED <<challengeStatus, badges, shown, brokenOff>>

\* Mutant: stores the action where the status belongs.
RejectByName(v, i) ==
  /\ review[v].at = "idle"
  /\ i \in shown
  /\ progress' = SetStatusOf(i, "reject")
  /\ UNCHANGED <<challengeStatus, badges, shown, review, approved, brokenOff>>

\* Mutant: the look-up and the badge are not limited to approvals.
RejectFallsThrough(v, i) ==
  /\ review[v].at = "idle"
  /\ i \in shown
  /\ progress' = SetStatusOf(i, "in_progress")
  /\ review' = [review EXCEPT ![v] = [at |-> "lookup", row |-> i, user |-> Nobody]]
  /\ UNCHANGED <<challengeStatus, badges, shown, approved, brokenOff>>

\* ReviewEvidence with action "reject": the participant may submit again.
Reject(v, i) ==
  /\ review[v].at = "idle"
  /\ i \in shown
  /\ progress' = SetStatusOf(i, "in_progress")
  /\ UNCHANGED <<challengeStatus, badges, shown, review, approved, brokenOff>>

\* Mutant: the look-up joins active challenges only.
LookupActive(v) ==
  /\ review[v].at = "lookup"
  /\ LET r == progress[review[v].row] IN
       review' = [review EXCEPT ![v] =
         IF r.owner \in Users /\ challengeStatus[r.challenge] = "active"
         THEN [at |-> "award", row |-> review[v].row, user |-> r.owner]
         ELSE Idle]
  /\ UNCHANGED <<challengeStatus, progress, badges, shown, approved, brokenOff>>

\* SELECT of the row's owner and challenge.  A row anonymised meanwhile cannot
\* be scanned, and the review ends without a badge.
Lookup(v) ==
  /\ review[v].at = "lookup"
  /\ LET r == progress[review[v].row] IN
       review' = [review EXCEPT ![v] =
         IF r.owner \in Users
         THEN [at |-> "award", row |-> review[v].row, user |-> r.owner]
         ELSE Idle]
  /\ UNCHANGED <<challengeStatus, progress, badges, shown, approved, brokenOff>>

\* AwardBadge: INSERT .. ON CONFLICT DO NOTHING.  A challenge always has the
\* badge name that AwardBadge wants: Create and Update insist on one.
Award(v) ==
  /\ review[v].at = "award"
  /\ badges' = badges \union {<<review[v].user, progress[review[v].row].challenge>>}
  /\ review' = [review EXCEPT ![v] = Idle]
  /\ UNCHANGED <<challengeStatus, progress, shown, approved, brokenOff>>

\* The request is cut (60 s timeout, client gone, restart) or a statement
\* fails: the errors of the look-up and of the insert are dropped.
BreakOff(v) ==
  /\ review[v].at # "idle"
  /\ review' = [review EXCEPT ![v] = Idle]
  /\ brokenOff' = brokenOff \union {review[v].row}
  /\ UNCHANGED <<challengeStatus, progress, badges, shown, approved>>

-----------------------------------------------------------------------------
Next ==
  \/ \E c \in Challenges : Create(c)
  \/ \E c \in Challenges, s \in {"draft", "active", "ended"} : SetStatus(c, s)
  \/ \E u \in Users, c \in Challenges : Join(u, c)
  \/ \E u \in Users, c \in Challenges : Submit(u, c)
  \/ \E u \in Users : DeleteAccount(u)
  \/ OpenQueue
  \/ \E v \in Reviews, i \in shown : Approve(v, i)
  \/ \E v \in Reviews, i \in shown : Reject(v, i)
  \/ \E v \in Reviews : Lookup(v)
  \/ \E v \in Reviews : Award(v)
  \/ \E v \in Reviews : BreakOff(v)

Spec == Init /\ [][Next]_vars

-----------------------------------------------------------------------------
(* Properties.                                                             *)

\* Nothing is approved without evidence, although the review looks at no
\* status and no evidence (challenges.go:530): what a moderator can name has
\* been in the queue, and evidence once given stays.
ApprovedHasEvidence ==
  \A i \in DOMAIN progress : progress[i].awarded => progress[i].evidence

\* A row that says when its badge was awarded (challenges.go:530) has that
\* badge, or a review that is about to award it, unless a review of it was
\* broken off or the row has no user any more: no interleaving of reviews,
\* resubmissions, deletions and endings of challenges loses one.
AwardedRowHasBadge ==
  \A i \in DOMAIN progress :
    /\ progress[i].awarded
    /\ progress[i].owner # Nobody
    /\ i \notin brokenOff
    => \/ <<progress[i].owner, progress[i].challenge>> \in badges
       \/ \E v \in Reviews : review[v].at # "idle" /\ review[v].row = i

\* Badges are given for approvals only and stay, whatever overtakes the two
\* statements after the approval (challenges.go:541-552).
Ledger == INSTANCE BadgeLedger WITH
            Sources <- Challenges, earned <- approved, given <- badges
ImplementsBadgeLedger == Ledger!Spec

\* CONTEXT.md: only active challenges accept participation, be it joining or
\* submitting evidence.
OnlyActiveAccept ==
  [][\A i \in DOMAIN progress' :
       \/ i \notin DOMAIN progress
       \/ progress'[i].status = "submitted" /\ progress[i].status # "submitted"
       => challengeStatus[progress'[i].challenge] = "active"]_vars

\* CONTEXT.md: submitted evidence is visible to administrators for review, as
\* far as the limit of the queue goes.
SubmittedIsVisible == NewestOf(Submitted) \subseteq Queue

-----------------------------------------------------------------------------
(* The inductive invariant behind the properties above.                    *)

\* Whatever was ever in the queue carries evidence.
EvidenceInv ==
  /\ \A i \in Submitted \union shown : progress[i].evidence
  /\ ApprovedHasEvidence

\* A review between its statements works on an approved row; once it has
\* looked the user up, the row is still theirs or anonymous.
ReviewInv ==
  \A v \in Reviews :
    review[v].at # "idle" =>
      LET r == progress[review[v].row] IN
        /\ review[v].row \in DOMAIN progress
        /\ r.owner # Nobody => <<r.owner, r.challenge>> \in approved
        /\ review[v].at = "award" =>
             /\ review[v].user \in Users
             /\ <<review[v].user, r.challenge>> \in approved
             /\ r.owner \in {review[v].user, Nobody}

BadgeInv ==
  /\ EvidenceInv
  /\ ReviewInv
  /\ AwardedRowHasBadge
=============================================================================
