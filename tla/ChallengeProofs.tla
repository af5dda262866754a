--------------------------- MODULE ChallengeProofs ---------------------------
(***************************************************************************)
(* Theorems about ChallengeParticipation, for any number of users,         *)
(* challenges and concurrent reviews and any length of the queue.          *)
(***************************************************************************)
EXTENDS ChallengeParticipation, SequenceTheorems, TLAPS

-----------------------------------------------------------------------------
(* Rows.                                                                   *)

LEMMA Rows ==
  ASSUME TypeOK
  PROVE  /\ Len(progress) \in Nat
         /\ DOMAIN progress = 1..Len(progress)
         /\ progress \in [1..Len(progress) -> ProgressRow]
BY LenProperties DEF TypeOK

\* An UPDATE of one row.
LEMMA RowUpdate ==
  ASSUME TypeOK, NEW i \in DOMAIN progress, NEW r \in ProgressRow,
         progress' = [progress EXCEPT ![i] = r]
  PROVE  /\ progress' \in Seq(ProgressRow)
         /\ DOMAIN progress' = DOMAIN progress
         /\ \A k \in DOMAIN progress : progress'[k] = IF k = i THEN r ELSE progress[k]
BY Rows, ExceptSeq, LenProperties DEF TypeOK

\* An INSERT.
LEMMA RowInsert ==
  ASSUME TypeOK, NEW r \in ProgressRow, progress' = Append(progress, r)
  PROVE  /\ progress' \in Seq(ProgressRow)
         /\ DOMAIN progress' = DOMAIN progress \union {Len(progress) + 1}
         /\ \A k \in DOMAIN progress : progress'[k] = progress[k]
         /\ progress'[Len(progress) + 1] = r
BY Rows, AppendProperties, LenProperties DEF TypeOK

\* What a step may do to a row that is there: the owner stays or becomes
\* NULL, the challenge stays, evidence and an award stay.
RowMoves(r, s) ==
  /\ s \in ProgressRow
  /\ s.owner \in {r.owner, Nobody}
  /\ s.challenge = r.challenge
  /\ r.evidence => s.evidence
  /\ r.awarded => s.awarded
  /\ s.status = "submitted" => r.status = "submitted" \/ s.evidence

LEMMA JoinRow ==
  ASSUME TypeOK, NEW u \in Users, NEW c \in Challenges, Join(u, c)
  PROVE  LET n == Len(progress) + 1 IN
         /\ progress' \in Seq(ProgressRow)
         /\ DOMAIN progress' = DOMAIN progress \union {n}
         /\ n \notin DOMAIN progress
         /\ \A k \in DOMAIN progress : progress'[k] = progress[k]
         /\ progress'[n].owner = u /\ progress'[n].challenge = c
         /\ progress'[n].status = "joined" /\ ~ progress'[n].awarded
<1> DEFINE new == [owner |-> u, challenge |-> c, status |-> "joined",
                   evidence |-> FALSE, awarded |-> FALSE]
<1>1. new \in ProgressRow
  BY DEF ProgressRow, ProgressStatus
<1>2. progress' = Append(progress, new)
  BY DEF Join
<1>3. /\ progress' \in Seq(ProgressRow)
      /\ DOMAIN progress' = DOMAIN progress \union {Len(progress) + 1}
      /\ \A k \in DOMAIN progress : progress'[k] = progress[k]
      /\ progress'[Len(progress) + 1] = new
  BY <1>1, <1>2, RowInsert
<1>4. Len(progress) + 1 \notin DOMAIN progress
  BY Rows
<1> QED BY <1>3, <1>4

\* Every other step leaves the rows there are, and moves them.
Updates ==
  \/ \E u \in Users, c \in Challenges : Submit(u, c)
  \/ \E u \in Users : DeleteAccount(u)
  \/ \E v \in Reviews, i \in shown : Approve(v, i) \/ Reject(v, i)
  \/ UNCHANGED progress

LEMMA UpdateRows ==
  ASSUME TypeOK, Updates
  PROVE  /\ progress' \in Seq(ProgressRow)
         /\ DOMAIN progress' = DOMAIN progress
         /\ \A k \in DOMAIN progress : RowMoves(progress[k], progress'[k])
<1>1. \A k \in DOMAIN progress : progress[k] \in ProgressRow
  BY Rows
<1>2. \A k \in DOMAIN progress : RowMoves(progress[k], progress[k])
  BY <1>1 DEF RowMoves
<1>3. ASSUME NEW i \in DOMAIN progress, NEW r, RowMoves(progress[i], r),
             progress' = [progress EXCEPT ![i] = r]
      PROVE  /\ progress' \in Seq(ProgressRow)
             /\ DOMAIN progress' = DOMAIN progress
             /\ \A k \in DOMAIN progress : RowMoves(progress[k], progress'[k])
  <2>1. r \in ProgressRow
    BY <1>3 DEF RowMoves
  <2> QED BY <1>2, <1>3, <2>1, RowUpdate
<1>4. ASSUME NEW u \in Users, NEW c \in Challenges, Submit(u, c)
      PROVE  \E i \in DOMAIN progress : \E r :
               RowMoves(progress[i], r) /\ progress' = [progress EXCEPT ![i] = r]
  <2>1. PICK i \in RowsOf(u, c) : progress' = [progress EXCEPT ![i] =
                      [progress[i] EXCEPT !.status = "submitted", !.evidence = TRUE]]
    BY <1>4 DEF Submit
  <2>2. i \in DOMAIN progress
    BY DEF RowsOf
  <2>3. RowMoves(progress[i], [progress[i] EXCEPT !.status = "submitted", !.evidence = TRUE])
    BY <1>1, <2>2 DEF RowMoves, ProgressRow, ProgressStatus
  <2> QED BY <2>1, <2>2, <2>3
<1>5. ASSUME NEW v \in Reviews, NEW i \in shown, Approve(v, i) \/ Reject(v, i)
      PROVE  \E k \in DOMAIN progress : \E r :
               RowMoves(progress[k], r) /\ progress' = [progress EXCEPT ![k] = r]
  <2>1. i \in DOMAIN progress
    BY DEF TypeOK
  <2>2. CASE Approve(v, i)
    <3>1. RowMoves(progress[i], [progress[i] EXCEPT !.status = "approved", !.awarded = TRUE])
      BY <1>1, <2>1 DEF RowMoves, ProgressRow, ProgressStatus
    <3> QED BY <2>1, <2>2, <3>1 DEF Approve
  <2>3. CASE Reject(v, i)
    <3>1. RowMoves(progress[i], [progress[i] EXCEPT !.status = "in_progress"])
      BY <1>1, <2>1 DEF RowMoves, ProgressRow, ProgressStatus
    <3> QED BY <2>1, <2>3, <3>1 DEF Reject, SetStatusOf
  <2> QED BY <1>5, <2>2, <2>3
<1>6. ASSUME NEW u \in Users, DeleteAccount(u)
      PROVE  /\ progress' \in Seq(ProgressRow)
             /\ DOMAIN progress' = DOMAIN progress
             /\ \A k \in DOMAIN progress : RowMoves(progress[k], progress'[k])
  <2>1. /\ DOMAIN progress' = DOMAIN progress
        /\ \A k \in DOMAIN progress : progress'[k] = IF progress[k].owner = u
             THEN [progress[k] EXCEPT !.owner = Nobody] ELSE progress[k]
        /\ progress' = [k \in DOMAIN progress |-> progress'[k]]
    BY <1>6 DEF DeleteAccount
  <2>2. \A k \in DOMAIN progress : RowMoves(progress[k], progress'[k])
    BY <1>1, <2>1 DEF RowMoves, ProgressRow
  <2>3. \A k \in DOMAIN progress : progress'[k] \in ProgressRow
    BY <2>2 DEF RowMoves
  <2>4. progress' \in [1..Len(progress) -> ProgressRow]
    BY <2>1, <2>3, Rows
  <2>5. progress' \in Seq(ProgressRow)
    BY <2>4, Rows, SeqDef
  <2> QED BY <2>1, <2>2, <2>5
<1>7. CASE UNCHANGED progress
  BY <1>2, <1>7 DEF TypeOK
<1> QED BY <1>3, <1>4, <1>5, <1>6, <1>7 DEF Updates

LEMMA JoinOrUpdate ==
  ASSUME [Next]_vars
  PROVE  Updates \/ \E u \in Users, c \in Challenges : Join(u, c)
BY DEF Next, vars, Updates, Create, SetStatus, OpenQueue, Lookup, Award, BreakOff

\* What any step does to the rows.
LEMMA StepRows ==
  ASSUME TypeOK, [Next]_vars
  PROVE  /\ progress' \in Seq(ProgressRow)
         /\ DOMAIN progress \subseteq DOMAIN progress'
         /\ \A k \in DOMAIN progress : RowMoves(progress[k], progress'[k])
         /\ \A k \in DOMAIN progress' \ DOMAIN progress :
              /\ progress'[k].status = "joined" /\ ~ progress'[k].awarded
              /\ \A i \in DOMAIN progress' \ {k} :
                   ~ (/\ progress'[i].owner = progress'[k].owner
                      /\ progress'[i].challenge = progress'[k].challenge)
<1>1. CASE Updates
  BY <1>1, UpdateRows
<1>2. ASSUME NEW u \in Users, NEW c \in Challenges, Join(u, c)
      PROVE  /\ progress' \in Seq(ProgressRow)
             /\ DOMAIN progress \subseteq DOMAIN progress'
             /\ \A k \in DOMAIN progress : RowMoves(progress[k], progress'[k])
             /\ \A k \in DOMAIN progress' \ DOMAIN progress :
                  /\ progress'[k].status = "joined" /\ ~ progress'[k].awarded
                  /\ \A i \in DOMAIN progress' \ {k} :
                       ~ (/\ progress'[i].owner = progress'[k].owner
                          /\ progress'[i].challenge = progress'[k].challenge)
  <2> DEFINE n == Len(progress) + 1
  <2>1. /\ progress' \in Seq(ProgressRow)
        /\ DOMAIN progress' = DOMAIN progress \union {n}
        /\ n \notin DOMAIN progress
        /\ \A k \in DOMAIN progress : progress'[k] = progress[k]
        /\ progress'[n].owner = u /\ progress'[n].challenge = c
        /\ progress'[n].status = "joined" /\ ~ progress'[n].awarded
    BY <1>2, JoinRow
  <2>2. \A k \in DOMAIN progress : RowMoves(progress[k], progress'[k])
    BY <2>1, Rows DEF RowMoves
  <2>3. \A k \in DOMAIN progress : ~ (progress[k].owner = u /\ progress[k].challenge = c)
    BY <1>2 DEF Join, RowsOf
  <2> QED BY <2>1, <2>2, <2>3
<1> QED BY <1>1, <1>2, JoinOrUpdate

\* A row is awarded by the approval of a row that was on a screen.
LEMMA NewAward ==
  ASSUME TypeOK, [Next]_vars, NEW k \in DOMAIN progress',
         progress'[k].awarded, ~ (k \in DOMAIN progress /\ progress[k].awarded)
  PROVE  k \in shown /\ \E v \in Reviews : Approve(v, k)
<1>1. k \in DOMAIN progress /\ ~ progress[k].awarded
  BY StepRows
<1>2. \A i \in DOMAIN progress : progress[i] \in ProgressRow
  BY Rows
<1>3. ~ \E u \in Users, c \in Challenges : Join(u, c)
  BY <1>1, JoinRow
<1>4. ~ \E u \in Users, c \in Challenges : Submit(u, c)
  BY <1>1, <1>2 DEF Submit, RowsOf, ProgressRow
<1>5. ~ \E u \in Users : DeleteAccount(u)
  BY <1>1, <1>2 DEF DeleteAccount, ProgressRow
<1>6. ~ \E v \in Reviews, i \in shown : Reject(v, i)
  BY <1>1, <1>2 DEF Reject, SetStatusOf, ProgressRow
<1>7. \A v \in Reviews : \A i \in shown \ {k} : ~ Approve(v, i)
  BY <1>1, <1>2 DEF Approve, ProgressRow
<1>8. progress' # progress
  BY <1>1
<1> QED BY <1>3, <1>4, <1>5, <1>6, <1>7, <1>8, JoinOrUpdate DEF Updates, Approve

-----------------------------------------------------------------------------
(* Types.                                                                  *)

LEMMA QueueInDomain == Queue \subseteq Submitted /\ Submitted \subseteq DOMAIN progress
BY DEF Queue, ScannedOf, NewestOf, Submitted

LEMMA TypeInductive ==
  ASSUME TypeOK, ReviewInv, [Next]_vars
  PROVE  TypeOK'
<1>1. /\ progress' \in Seq(ProgressRow)
      /\ DOMAIN progress \subseteq DOMAIN progress'
  BY StepRows
<1>2. challengeStatus' \in [Challenges -> {"none", "draft", "active", "ended"}]
  BY DEF TypeOK, Next, vars, Create, SetStatus, Join, Submit, DeleteAccount, OpenQueue,
         Approve, Reject, Lookup, Award, BreakOff
<1>3. shown' \subseteq DOMAIN progress'
  BY <1>1, QueueInDomain
     DEF TypeOK, Next, vars, Create, SetStatus, Join, Submit, DeleteAccount, OpenQueue,
         Approve, Reject, Lookup, Award, BreakOff
<1>4. \A i \in DOMAIN progress : progress[i] \in ProgressRow /\ i \in Nat
  BY Rows
<1>5. \A v \in Reviews : review[v].row \in Nat
  BY DEF TypeOK, Review
<1>6. review' \in [Reviews -> Review]
  <2>1. ASSUME NEW v \in Reviews, NEW i \in shown, Approve(v, i)
        PROVE  review' \in [Reviews -> Review]
    BY <1>4, <2>1 DEF TypeOK, Approve, Review
  <2>2. ASSUME NEW v \in Reviews, Lookup(v)
        PROVE  review' \in [Reviews -> Review]
    BY <1>5, <2>2 DEF TypeOK, Lookup, Review, Idle
  <2>3. ASSUME NEW v \in Reviews, Award(v) \/ BreakOff(v)
        PROVE  review' \in [Reviews -> Review]
    BY <2>3 DEF TypeOK, Award, BreakOff, Review, Idle
  <2>4. \/ UNCHANGED review
        \/ \E v \in Reviews, i \in shown : Approve(v, i)
        \/ \E v \in Reviews : Lookup(v) \/ Award(v) \/ BreakOff(v)
    BY DEF Next, vars, Create, SetStatus, Join, Submit, DeleteAccount, OpenQueue, Reject
  <2> QED BY <2>1, <2>2, <2>3, <2>4 DEF TypeOK
<1>7. approved' \subseteq Users \X Challenges
  BY DEF TypeOK, Next, vars, Create, SetStatus, Join, Submit, DeleteAccount, OpenQueue,
         Approve, Reject, Lookup, Award, BreakOff
<1>8. \A v \in Reviews : review[v].at # "idle" =>
        /\ review[v].row \in DOMAIN progress
        /\ progress[review[v].row].challenge \in Challenges
        /\ review[v].at = "award" => review[v].user \in Users
  BY <1>4 DEF ReviewInv, ProgressRow
<1>9. badges' \subseteq Users \X Challenges
  <2>1. ASSUME NEW v \in Reviews, Award(v) PROVE badges' \subseteq Users \X Challenges
    BY <1>8, <2>1 DEF TypeOK, Award
  <2>2. UNCHANGED badges \/ \E v \in Reviews : Award(v)
    BY DEF Next, vars, Create, SetStatus, Join, Submit, DeleteAccount, OpenQueue,
           Approve, Reject, Lookup, BreakOff
  <2> QED BY <2>1, <2>2 DEF TypeOK
<1>10. brokenOff' \subseteq DOMAIN progress'
  <2>1. ASSUME NEW v \in Reviews, BreakOff(v) PROVE brokenOff' \subseteq DOMAIN progress'
    BY <1>1, <1>8, <2>1 DEF TypeOK, BreakOff
  <2>2. UNCHANGED brokenOff \/ \E v \in Reviews : BreakOff(v)
    BY DEF Next, vars, Create, SetStatus, Join, Submit, DeleteAccount, OpenQueue,
           Approve, Reject, Lookup, Award
  <2> QED BY <1>1, <2>1, <2>2 DEF TypeOK
<1> QED BY <1>1, <1>2, <1>3, <1>6, <1>7, <1>9, <1>10 DEF TypeOK

-----------------------------------------------------------------------------
(* The invariant.                                                          *)

LEMMA EvidenceInductive ==
  ASSUME TypeOK, EvidenceInv, [Next]_vars
  PROVE  EvidenceInv'
<1>1. \A i \in DOMAIN progress : progress[i].evidence => progress'[i].evidence
  BY StepRows DEF RowMoves
<1>2. ASSUME NEW i \in Submitted' PROVE progress'[i].evidence
  <2>1. i \in DOMAIN progress' /\ progress'[i].status = "submitted"
    BY DEF Submitted
  <2>2. i \in DOMAIN progress /\ RowMoves(progress[i], progress'[i])
    BY <2>1, StepRows
  <2> QED BY <1>1, <2>1, <2>2 DEF RowMoves, EvidenceInv, Submitted
<1>3. ASSUME NEW i \in shown' PROVE progress'[i].evidence
  <2>1. i \in shown \/ i \in Submitted
    BY <1>3, QueueInDomain
       DEF Next, vars, Create, SetStatus, Join, Submit, DeleteAccount, OpenQueue,
           Approve, Reject, Lookup, Award, BreakOff
  <2>2. i \in DOMAIN progress /\ progress[i].evidence
    BY <2>1, QueueInDomain DEF EvidenceInv, TypeOK
  <2> QED BY <1>1, <2>2
<1>4. ASSUME NEW i \in DOMAIN progress', progress'[i].awarded PROVE progress'[i].evidence
  <2>1. CASE i \in DOMAIN progress /\ progress[i].awarded
    BY <1>1, <2>1 DEF EvidenceInv, ApprovedHasEvidence
  <2>2. CASE ~ (i \in DOMAIN progress /\ progress[i].awarded)
    <3>1. i \in shown
      BY <1>4, <2>2, NewAward
    <3> QED BY <1>1, <3>1 DEF EvidenceInv, TypeOK
  <2> QED BY <2>1, <2>2
<1> QED BY <1>2, <1>3, <1>4 DEF EvidenceInv, ApprovedHasEvidence

\* ReviewInv for one review.
Holds(v) ==
  LET r == progress[review[v].row] IN
    /\ review[v].row \in DOMAIN progress
    /\ r.owner # Nobody => <<r.owner, r.challenge>> \in approved
    /\ review[v].at = "award" =>
         /\ review[v].user \in Users
         /\ <<review[v].user, r.challenge>> \in approved
         /\ r.owner \in {review[v].user, Nobody}

LEMMA ReviewInductive ==
  ASSUME TypeOK, ReviewInv, [Next]_vars
  PROVE  ReviewInv'
<1>1. /\ \A v \in Reviews : review[v].at # "idle" => Holds(v)
      /\ ReviewInv' <=> \A v \in Reviews : (review[v].at # "idle" => Holds(v))'
  BY DEF ReviewInv, Holds
<1>2. approved \subseteq approved'
  BY DEF Next, vars, Create, SetStatus, Join, Submit, DeleteAccount, OpenQueue,
         Approve, Reject, Lookup, Award, BreakOff
<1>3. /\ DOMAIN progress \subseteq DOMAIN progress'
      /\ \A i \in DOMAIN progress : /\ progress[i] \in ProgressRow
                                    /\ progress'[i].owner \in {progress[i].owner, Nobody}
                                    /\ progress'[i].challenge = progress[i].challenge
  BY StepRows, Rows DEF RowMoves
\* A review that takes no step keeps what it relies on.
<1>4. ASSUME NEW v \in Reviews, Holds(v), review'[v] = review[v] PROVE Holds(v)'
  BY <1>2, <1>3, <1>4 DEF Holds
<1>5. ASSUME NEW v \in Reviews, NEW i \in shown, Approve(v, i)
      PROVE  \A w \in Reviews : (review[w].at # "idle" => Holds(w))'
  <2>1. /\ review'[v].row = i /\ review'[v].at = "lookup"
        /\ \A w \in Reviews \ {v} : review'[w] = review[w]
    BY <1>5 DEF Approve, TypeOK
  <2>2. i \in DOMAIN progress
    BY DEF TypeOK
  <2>3. progress'[i].owner # Nobody => <<progress'[i].owner, progress'[i].challenge>> \in approved'
    BY <1>3, <1>5, <2>2 DEF Approve, ProgressRow
  <2>4. Holds(v)'
    BY <1>3, <2>1, <2>2, <2>3 DEF Holds
  <2> QED BY <1>1, <1>4, <2>1, <2>4
<1>6. ASSUME NEW v \in Reviews, Lookup(v)
      PROVE  \A w \in Reviews : (review[w].at # "idle" => Holds(w))'
  <2>1. \A w \in Reviews \ {v} : review'[w] = review[w]
    BY <1>6 DEF Lookup, TypeOK
  <2>2. Holds(v) /\ review[v].at = "lookup" /\ UNCHANGED <<progress, approved>>
    BY <1>1, <1>6 DEF Lookup
  <2> DEFINE r == progress[review[v].row]
  <2>3. CASE r.owner \in Users
    <3>1. /\ review'[v].at = "award" /\ review'[v].row = review[v].row
          /\ review'[v].user = r.owner
      BY <1>6, <2>3 DEF Lookup, TypeOK
    <3>2. r.owner # Nobody
      BY <2>3, ChallengeAssumption
    <3>3. Holds(v)'
      BY <2>2, <2>3, <3>1, <3>2 DEF Holds
    <3> QED BY <1>1, <1>4, <2>1, <3>3
  <2>4. CASE r.owner \notin Users
    <3>1. review'[v].at = "idle"
      BY <1>6, <2>4 DEF Lookup, TypeOK, Idle
    <3> QED BY <1>1, <1>4, <2>1, <3>1
  <2> QED BY <2>3, <2>4
<1>7. ASSUME NEW v \in Reviews, Award(v) \/ BreakOff(v)
      PROVE  \A w \in Reviews : (review[w].at # "idle" => Holds(w))'
  <2>1. review'[v].at = "idle" /\ \A w \in Reviews \ {v} : review'[w] = review[w]
    BY <1>7 DEF Award, BreakOff, TypeOK, Idle
  <2> QED BY <1>1, <1>4, <2>1
<1>8. \/ UNCHANGED review
      \/ \E v \in Reviews, i \in shown : Approve(v, i)
      \/ \E v \in Reviews : Lookup(v) \/ Award(v) \/ BreakOff(v)
  BY DEF Next, vars, Create, SetStatus, Join, Submit, DeleteAccount, OpenQueue, Reject
<1> QED BY <1>1, <1>4, <1>5, <1>6, <1>7, <1>8

\* What keeps the award of row i from being lost.
Covered(i) ==
  \/ <<progress[i].owner, progress[i].challenge>> \in badges
  \/ i \in brokenOff
  \/ \E v \in Reviews : review[v].at # "idle" /\ review[v].row = i

LEMMA AwardInductive ==
  ASSUME TypeOK, ReviewInv, AwardedRowHasBadge, [Next]_vars
  PROVE  AwardedRowHasBadge'
<1>1. SUFFICES ASSUME NEW i \in DOMAIN progress', progress'[i].awarded,
                      progress'[i].owner # Nobody
               PROVE  Covered(i)'
  BY DEF AwardedRowHasBadge, Covered
<1>2. CASE ~ (i \in DOMAIN progress /\ progress[i].awarded)
  <2>1. PICK v \in Reviews : Approve(v, i)
    BY <1>1, <1>2, NewAward
  <2>2. review'[v].at # "idle" /\ review'[v].row = i
    BY <2>1 DEF Approve, TypeOK
  <2> QED BY <2>2 DEF Covered
<1>3. CASE i \in DOMAIN progress /\ progress[i].awarded
  <2>1. /\ progress'[i].owner = progress[i].owner
        /\ progress'[i].challenge = progress[i].challenge
        /\ progress[i].owner # Nobody
        /\ progress[i] \in ProgressRow
    BY <1>1, <1>3, StepRows, Rows DEF RowMoves
  <2>2. Covered(i)
    BY <1>3, <2>1 DEF AwardedRowHasBadge, Covered
  <2>3. badges \subseteq badges' /\ brokenOff \subseteq brokenOff'
    BY DEF Next, vars, Create, SetStatus, Join, Submit, DeleteAccount, OpenQueue,
           Approve, Reject, Lookup, Award, BreakOff
  <2>4. CASE <<progress[i].owner, progress[i].challenge>> \in badges \/ i \in brokenOff
    BY <2>1, <2>3, <2>4 DEF Covered
  <2>5. ASSUME NEW v \in Reviews, review[v].at # "idle", review[v].row = i
        PROVE  Covered(i)'
    <3>1. CASE review'[v] = review[v]
      BY <2>5, <3>1 DEF Covered
    <3>2. CASE Lookup(v)
      <4>1. progress[i].owner \in Users
        BY <2>1 DEF ProgressRow
      <4>2. review'[v].at = "award" /\ review'[v].row = i
        BY <2>5, <3>2, <4>1 DEF Lookup, TypeOK
      <4> QED BY <4>2 DEF Covered
    <3>3. CASE Award(v)
      <4>1. progress[i].owner = review[v].user
        BY <2>1, <2>5, <3>3 DEF Award, ReviewInv
      <4>2. <<progress[i].owner, progress[i].challenge>> \in badges'
        BY <2>5, <3>3, <4>1 DEF Award
      <4> QED BY <2>1, <4>2 DEF Covered
    <3>4. CASE BreakOff(v)
      BY <2>5, <3>4 DEF BreakOff, Covered
    <3>5. \/ review'[v] = review[v]
          \/ Lookup(v) \/ Award(v) \/ BreakOff(v)
      <4>1. ASSUME NEW w \in Reviews \ {v}, Lookup(w) \/ Award(w) \/ BreakOff(w)
            PROVE  review'[v] = review[v]
        BY <4>1 DEF Lookup, Award, BreakOff, TypeOK
      <4>2. ASSUME NEW w \in Reviews, NEW k \in shown, Approve(w, k)
            PROVE  review'[v] = review[v]
        BY <2>5, <4>2 DEF Approve, TypeOK
      <4> QED BY <4>1, <4>2 DEF Next, vars, Create, SetStatus, Join, Submit, DeleteAccount,
                                OpenQueue, Reject
    <3> QED BY <3>1, <3>2, <3>3, <3>4, <3>5
  <2> QED BY <2>2, <2>4, <2>5 DEF Covered
<1> QED BY <1>2, <1>3

LEMMA Initially == Init => TypeOK /\ BadgeInv
BY DEF Init, TypeOK, Idle, Review, BadgeInv, EvidenceInv, ApprovedHasEvidence,
       ReviewInv, AwardedRowHasBadge, Submitted

LEMMA Invariance == TypeOK /\ BadgeInv /\ [Next]_vars => (TypeOK /\ BadgeInv)'
BY TypeInductive, EvidenceInductive, ReviewInductive, AwardInductive
   DEF BadgeInv

-----------------------------------------------------------------------------
(* The theorems.                                                           *)

LEMMA Invariant == Spec => [](TypeOK /\ BadgeInv)
BY Initially, Invariance, PTL DEF Spec

\* Every reachable state is well typed; what a review looks up exists.
THEOREM TypeCorrect == Spec => []TypeOK
BY Invariant, PTL

\* Nothing is approved that never carried evidence, although ReviewEvidence
\* checks neither status nor evidence.
THEOREM EvidenceFirst == Spec => []ApprovedHasEvidence
<1>1. BadgeInv => ApprovedHasEvidence
  BY DEF BadgeInv, EvidenceInv
<1> QED BY <1>1, Invariant, PTL

\* No award is lost unless its review breaks off or its user is gone.
THEOREM AwardKept == Spec => []AwardedRowHasBadge
<1>1. BadgeInv => AwardedRowHasBadge
  BY DEF BadgeInv
<1> QED BY <1>1, Invariant, PTL

\* Challenges implement the badge ledger: a badge is given for an approval
\* only, and for good.
THEOREM Implementation == Spec => ImplementsBadgeLedger
<1>1. Init => Ledger!Init
  BY DEF Init, Ledger!Init
<1>2. TypeOK /\ BadgeInv /\ [Next]_vars => [Ledger!Next]_(Ledger!ledgerVars)
  <2> SUFFICES ASSUME TypeOK, BadgeInv, [Next]_vars
               PROVE  [Ledger!Next]_(Ledger!ledgerVars)
    OBVIOUS
  <2>1. \A i \in DOMAIN progress : progress[i] \in ProgressRow
    BY Rows
  <2>2. ASSUME NEW v \in Reviews, NEW i \in shown, Approve(v, i)
        PROVE  [Ledger!Next]_(Ledger!ledgerVars)
    <3>1. progress[i].challenge \in Challenges /\ progress[i].owner \in Users \union {Nobody}
      BY <2>1 DEF TypeOK, ProgressRow
    <3>2. UNCHANGED badges
      BY <2>2 DEF Approve
    <3>3. CASE progress[i].owner \in Users
      <4>1. approved' = approved \union {<<progress[i].owner, progress[i].challenge>>}
        BY <2>2, <3>1, <3>3 DEF Approve
      <4> QED BY <3>1, <3>2, <3>3, <4>1 DEF Ledger!Next, Ledger!Earn
    <3>4. CASE progress[i].owner = Nobody
      <4>1. approved' = approved
        BY <2>2, <3>4, ChallengeAssumption DEF Approve
      <4> QED BY <3>2, <4>1 DEF Ledger!ledgerVars
    <3> QED BY <3>1, <3>3, <3>4
  <2>3. ASSUME NEW v \in Reviews, Award(v)
        PROVE  Ledger!Next
    <3> DEFINE c == progress[review[v].row].challenge
    <3>1. /\ review[v].user \in Users /\ <<review[v].user, c>> \in approved
          /\ review[v].row \in DOMAIN progress
      BY <2>3 DEF Award, BadgeInv, ReviewInv
    <3>2. c \in Challenges
      BY <2>1, <3>1 DEF ProgressRow
    <3>3. Ledger!Give(review[v].user, c)
      BY <2>3, <3>1 DEF Award, Ledger!Give
    <3> QED BY <3>1, <3>2, <3>3 DEF Ledger!Next
  <2>4. \/ UNCHANGED <<approved, badges>>
        \/ \E v \in Reviews, i \in shown : Approve(v, i)
        \/ \E v \in Reviews : Award(v)
    BY DEF Next, vars, Create, SetStatus, Join, Submit, DeleteAccount, OpenQueue, Reject,
           Lookup, BreakOff
  <2>5. UNCHANGED <<approved, badges>> => UNCHANGED Ledger!ledgerVars
    BY DEF Ledger!ledgerVars
  <2> QED BY <2>2, <2>3, <2>4, <2>5
<1> QED BY <1>1, <1>2, Invariant, PTL DEF Spec, ImplementsBadgeLedger, Ledger!Spec
=============================================================================
