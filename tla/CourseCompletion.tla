-------------------------- MODULE CourseCompletion --------------------------
(***************************************************************************)
(* Courses: lessons marked complete, quiz attempts, and what their         *)
(* completion brings: completed_at, a certificate in the object store and  *)
(* a badge.                                                                *)
(*                                                                         *)
(* A step is one SQL statement or one upload.  Marking a lesson and        *)
(* submitting a quiz both go on to tryCompleteCourse, seven steps that     *)
(* other requests of the same user run between, while administrators edit  *)
(* the course.                                                             *)
(***************************************************************************)
EXTENDS Naturals, Sequences, FiniteSets

CONSTANTS
  Users,
  Nobody,      \* user_id NULL after account deletion, or the row is gone
  Courses,
  LessonIds,
  QuizForms,   \* what administrators store: records of questions and threshold
  NoQuiz,      \* the course has no row in quizzes
  Requests,    \* concurrent MarkLessonComplete and SubmitQuiz requests
  MaxSecond,   \* bound: seconds the clock runs
  MaxEdits,    \* bound: how many changes administrators make to what they created
  MaxRows      \* bound: how many course_enrollments rows are ever inserted

ASSUME CourseAssumption ==
  /\ Nobody \notin Users
  /\ Courses # {}
  /\ QuizForms \subseteq [questions : Nat \ {0}, threshold : Nat]
  /\ NoQuiz \notin QuizForms
  /\ MaxSecond \in Nat \ {0}
  /\ MaxEdits \in Nat
  /\ MaxRows \in Nat

VARIABLES
  \* Tables courses, lessons and quizzes.
  created,      \* the rows of courses
  badgeNamed,   \* badge_name is neither NULL nor empty
  certified,    \* certificate_enabled
  lessons,      \* the rows of a course
  quiz,
  edits,        \* how many changes there were; read by the bound only
  \* Tables course_enrollments and badges, and the object store.
  enrollment,   \* rows in the order of their insertion
  badges,       \* pairs <<user_id, source_id>>
  objects,      \* certificates uploaded, named by the enrollment's id
  \* The clock, users' screens and requests.
  now,
  shown,        \* lessons that have been on some user's screen
  request,
  \* History: what happened, read by no action.
  passedOnce,   \* rows in which a passing attempt was recorded
  overwritten,  \* rows in which an attempt replaced one of the same second
  disturbed,    \* rows whose lessons were edited or whose request was cut off
  unbadged,     \* rows completed with no badge read to award, or cut off before it
  earned        \* pairs <<user, course>> found complete by tryCompleteCourse

courseVars == <<created, badgeNamed, certified, lessons, quiz, edits>>
historyVars == <<passedOnce, overwritten, disturbed, unbadged, earned>>
vars == <<courseVars, enrollment, badges, objects, now, shown, request, historyVars>>

-----------------------------------------------------------------------------
(* Types.                                                                  *)

Seconds == 1..MaxSecond

\* quiz_attempts is keyed by the second of the attempt.
Enrollment == [owner : Users \union {Nobody},
               course : Courses,
               done : SUBSET LessonIds,                          \* completed_lesson_ids
               attempts : [Seconds -> {"none", "passed", "failed"}],
               completed : BOOLEAN,                              \* completed_at is set
               certificate : Nat]                                \* certificate_url, 0 if NULL

\* The statement a request runs next, and its local variables.
Request == [at : {"idle", "quiz", "record", "already", "pass", "lessons", "course",
                  "certificate", "complete", "award"},
            user : Users \union {Nobody},
            course : Courses,
            second : Nat,        \* attemptKey
            passed : BOOLEAN,
            row : Nat,           \* enrollmentID, 0 if empty
            named : BOOLEAN,     \* badgeName
            url : Nat]           \* certURL, 0 if nil

NoRequest == [at |-> "idle", user |-> Nobody, course |-> CHOOSE c \in Courses : TRUE,
              second |-> 0, passed |-> FALSE, row |-> 0, named |-> FALSE, url |-> 0]

TypeOK ==
  /\ created \subseteq Courses
  /\ badgeNamed \in [Courses -> BOOLEAN]
  /\ certified \in [Courses -> BOOLEAN]
  /\ lessons \in [Courses -> SUBSET LessonIds]
  /\ quiz \in [Courses -> QuizForms \union {NoQuiz}]
  /\ edits \in 0..MaxEdits
  /\ enrollment \in Seq(Enrollment)
  /\ badges \subseteq Users \X Courses
  /\ objects \subseteq DOMAIN enrollment
  /\ now \in Seconds
  /\ shown \subseteq Courses \X LessonIds
  /\ request \in [Requests -> Request]
  /\ passedOnce \subseteq DOMAIN enrollment
  /\ overwritten \subseteq DOMAIN enrollment
  /\ disturbed \subseteq DOMAIN enrollment
  /\ unbadged \subseteq DOMAIN enrollment
  /\ earned \subseteq Users \X Courses

Init ==
  /\ created = {}
  /\ badgeNamed = [c \in Courses |-> FALSE]
  /\ certified = [c \in Courses |-> FALSE]
  /\ lessons = [c \in Courses |-> {}]
  /\ quiz = [c \in Courses |-> NoQuiz]
  /\ edits = 0
  /\ enrollment = <<>>
  /\ badges = {}
  /\ objects = {}
  /\ now = 1
  /\ shown = {}
  /\ request = [r \in Requests |-> NoRequest]
  /\ passedOnce = {}
  /\ overwritten = {}
  /\ disturbed = {}
  /\ unbadged = {}
  /\ earned = {}

\* The enrollment of (user_id, course_id): the pair has a unique index.
RowsOf(u, c) == {i \in DOMAIN enrollment : enrollment[i].owner = u /\ enrollment[i].course = c}

RowsIn(c) == {i \in DOMAIN enrollment : enrollment[i].course = c}

-----------------------------------------------------------------------------
(* Administration.                                                         *)

CountEdit ==
  /\ edits < MaxEdits
  /\ edits' = edits + 1

Create(c, named, cert) ==
  /\ c \notin created
  /\ RowsIn(c) = {}                     \* identifiers are not used again
  /\ created' = created \union {c}
  /\ badgeNamed' = [badgeNamed EXCEPT ![c] = named]
  /\ certified' = [certified EXCEPT ![c] = cert]
  /\ UNCHANGED <<lessons, quiz, edits, enrollment, badges, objects, now, shown, request,
                 historyVars>>

\* Update: each column can be replaced, the badge's name by an empty one.  The
\* status decides on listings only and is left out.
Update(c, named, cert) ==
  /\ CountEdit
  /\ c \in created
  /\ badgeNamed' = [badgeNamed EXCEPT ![c] = named]
  /\ certified' = [certified EXCEPT ![c] = cert]
  /\ UNCHANGED <<created, lessons, quiz, enrollment, badges, objects, now, shown, request, historyVars>>

\* Delete cascades to lessons, quizzes and enrollments; badges and uploaded
\* certificates stay.
Delete(c) ==
  /\ CountEdit
  /\ c \in created
  /\ created' = created \ {c}
  /\ lessons' = [lessons EXCEPT ![c] = {}]
  /\ quiz' = [quiz EXCEPT ![c] = NoQuiz]
  /\ enrollment' = [i \in DOMAIN enrollment |->
                      IF i \in RowsIn(c) THEN [enrollment[i] EXCEPT !.owner = Nobody]
                      ELSE enrollment[i]]
  /\ UNCHANGED <<badgeNamed, certified, badges, objects, now, shown, request, historyVars>>

CreateLesson(c, l) ==
  /\ c \in created
  /\ \A d \in Courses : l \notin lessons[d] /\ <<d, l>> \notin shown   \* a new identifier
  /\ lessons' = [lessons EXCEPT ![c] = lessons[c] \union {l}]
  /\ disturbed' = disturbed \union RowsIn(c)
  /\ UNCHANGED <<created, badgeNamed, certified, quiz, edits, enrollment, badges, objects, now,
                 shown, request, passedOnce, overwritten, unbadged, earned>>

\* Lessons are deleted from the table, not from anyone's completed_lesson_ids.
DeleteLesson(c, l) ==
  /\ CountEdit
  /\ l \in lessons[c]
  /\ lessons' = [lessons EXCEPT ![c] = lessons[c] \ {l}]
  /\ disturbed' = disturbed \union RowsIn(c)
  /\ UNCHANGED <<created, badgeNamed, certified, quiz, enrollment, badges, objects, now, shown,
                 request, passedOnce, overwritten, unbadged, earned>>

UpsertQuiz(c, form) ==
  /\ CountEdit
  /\ c \in created
  /\ quiz' = [quiz EXCEPT ![c] = form]
  /\ UNCHANGED <<created, badgeNamed, certified, lessons, enrollment, badges, objects, now,
                 shown, request, historyVars>>

DeleteQuiz(c) ==
  /\ CountEdit
  /\ quiz' = [quiz EXCEPT ![c] = NoQuiz]
  /\ UNCHANGED <<created, badgeNamed, certified, lessons, enrollment, badges, objects, now,
                 shown, request, historyVars>>

-----------------------------------------------------------------------------
(* What users see and how they enrol.                                      *)

\* GetCourseDetail and ListLessons: the lessons there are.  A user may mark what
\* a screen has shown at any later time.
OpenCourse(c) ==
  /\ shown' = shown \union ({c} \X lessons[c])
  /\ UNCHANGED <<courseVars, enrollment, badges, objects, now, request, historyVars>>

\* EnrollCourse: INSERT .. ON CONFLICT DO NOTHING, whatever the course's status.
EnrollCourse(u, c) ==
  /\ c \in created
  /\ RowsOf(u, c) = {}
  /\ Len(enrollment) < MaxRows
  /\ enrollment' = Append(enrollment,
       [owner |-> u, course |-> c, done |-> {}, attempts |-> [s \in Seconds |-> "none"],
        completed |-> FALSE, certificate |-> 0])
  /\ UNCHANGED <<courseVars, badges, objects, now, shown, request, historyVars>>

\* AccountHandler.Delete: enrollments are anonymised, badges and certificates
\* stay.  The user's token goes on being valid, so that they may enrol again.
DeleteAccount(u) ==
  /\ enrollment' = [i \in DOMAIN enrollment |->
                      IF enrollment[i].owner = u THEN [enrollment[i] EXCEPT !.owner = Nobody]
                      ELSE enrollment[i]]
  /\ UNCHANGED <<courseVars, badges, objects, now, shown, request, historyVars>>

Tick ==
  /\ now < MaxSecond
  /\ now' = now + 1
  /\ UNCHANGED <<courseVars, enrollment, badges, objects, shown, request, historyVars>>

-----------------------------------------------------------------------------
(* Marking a lesson, submitting a quiz.                                    *)

GoTo(r, s) == [request EXCEPT ![r] = [request[r] EXCEPT !.at = s]]

Finish(r) == [request EXCEPT ![r] = NoRequest]

\* Mutant: the lesson is marked without looking whether the course is complete.
MarkLessonOnly(r, u, c, l) ==
  /\ request[r].at = "idle"
  /\ RowsOf(u, c) # {}
  /\ enrollment' = [i \in DOMAIN enrollment |->
       IF i \in RowsOf(u, c) THEN [enrollment[i] EXCEPT !.done = enrollment[i].done \union {l}]
       ELSE enrollment[i]]
  /\ UNCHANGED <<request, courseVars, badges, objects, now, shown, historyVars>>

\* MarkLessonComplete's UPDATE.  That the lesson is one of the course is not
\* checked; an identifier already in the array is not appended again.
MarkLessonComplete(r, u, c, l) ==
  /\ request[r].at = "idle"
  /\ RowsOf(u, c) # {}
  /\ enrollment' = [i \in DOMAIN enrollment |->
       IF i \in RowsOf(u, c) THEN [enrollment[i] EXCEPT !.done = enrollment[i].done \union {l}]
       ELSE enrollment[i]]
  /\ request' = [request EXCEPT ![r] =
                   [NoRequest EXCEPT !.at = "pass", !.user = u, !.course = c]]
  /\ UNCHANGED <<courseVars, badges, objects, now, shown, historyVars>>

\* SubmitQuiz first looks whether the user is enrolled ..
SubmitQuiz(r, u, c) ==
  /\ request[r].at = "idle"
  /\ RowsOf(u, c) # {}
  /\ request' = [request EXCEPT ![r] =
                   [NoRequest EXCEPT !.at = "quiz", !.user = u, !.course = c]]
  /\ UNCHANGED <<courseVars, enrollment, badges, objects, now, shown, historyVars>>

\* Integer division, as in the code.
Score(correct, total) == (correct * 100) \div total

\* .. then reads the quiz, computes the score and takes the time, in seconds ..
Grade(r, correct) ==
  LET q == quiz[request[r].course] IN
  /\ request[r].at = "quiz"
  /\ IF q = NoQuiz THEN correct = 0 /\ request' = Finish(r)
     ELSE /\ correct <= q.questions
          /\ request' = [request EXCEPT ![r] =
               [request[r] EXCEPT !.at = "record", !.second = now,
                                  !.passed = Score(correct, q.questions) >= q.threshold]]
  /\ UNCHANGED <<courseVars, enrollment, badges, objects, now, shown, historyVars>>

Outcome(r) == IF request[r].passed THEN "passed" ELSE "failed"

\* Mutant: the attempt replaces the attempts there are.
RecordAlone(r) ==
  LET mine == RowsOf(request[r].user, request[r].course) IN
  /\ request[r].at = "record"
  /\ enrollment' = [i \in DOMAIN enrollment |->
       IF i \in mine THEN [enrollment[i] EXCEPT !.attempts =
         [s \in Seconds |-> IF s = request[r].second THEN Outcome(r) ELSE "none"]]
       ELSE enrollment[i]]
  /\ overwritten' = overwritten \union
       {i \in mine : enrollment[i].attempts[request[r].second] # "none"}
  /\ passedOnce' = IF request[r].passed THEN passedOnce \union mine ELSE passedOnce
  /\ request' = [request EXCEPT ![r] = [request[r] EXCEPT !.at = "already", !.second = 0]]
  /\ UNCHANGED <<courseVars, badges, objects, now, shown, disturbed, unbadged, earned>>

\* .. then records the attempt under the second it took: quiz_attempts || new.
\* No error if the enrollment is gone by now.
Record(r) ==
  LET mine == RowsOf(request[r].user, request[r].course) IN
  /\ request[r].at = "record"
  /\ enrollment' = [i \in DOMAIN enrollment |->
       IF i \in mine THEN [enrollment[i] EXCEPT !.attempts =
         [enrollment[i].attempts EXCEPT ![request[r].second] = Outcome(r)]]
       ELSE enrollment[i]]
  /\ overwritten' = overwritten \union
       {i \in mine : enrollment[i].attempts[request[r].second] # "none"}
  /\ passedOnce' = IF request[r].passed THEN passedOnce \union mine ELSE passedOnce
  /\ request' = [request EXCEPT ![r] = [request[r] EXCEPT !.at = "already", !.second = 0]]
  /\ UNCHANGED <<courseVars, badges, objects, now, shown, disturbed, unbadged, earned>>

\* .. and looks whether the course is complete already: not, if the row is gone
\* or the SELECT fails, whose error is dropped.
Already(r, answered) ==
  LET mine == RowsOf(request[r].user, request[r].course)
      already == answered /\ \E i \in mine : enrollment[i].completed IN
  /\ request[r].at = "already"
  /\ request' = IF request[r].passed /\ ~already
                THEN [request EXCEPT ![r] = [request[r] EXCEPT !.at = "pass", !.passed = FALSE]]
                ELSE Finish(r)
  /\ UNCHANGED <<courseVars, enrollment, badges, objects, now, shown, historyVars>>

-----------------------------------------------------------------------------
(* tryCompleteCourse.                                                      *)

HasPass(i) == \E s \in Seconds : enrollment[i].attempts[s] = "passed"

\* The numbers are compared, not the sets.
AllDone(i) == Cardinality(lessons[enrollment[i].course]) = Cardinality(enrollment[i].done)

CheckPass(r) ==
  /\ request[r].at = "pass"
  /\ request' = IF \E i \in RowsOf(request[r].user, request[r].course) : HasPass(i)
                THEN GoTo(r, "lessons") ELSE Finish(r)
  /\ UNCHANGED <<courseVars, enrollment, badges, objects, now, shown, historyVars>>

\* Mutant: a course is complete with any lesson done.
CheckAnyLesson(r) ==
  LET u == request[r].user
      c == request[r].course IN
  /\ request[r].at = "lessons"
  /\ request' = IF \E i \in RowsOf(u, c) : enrollment[i].done # {} THEN GoTo(r, "course")
                ELSE Finish(r)
  /\ earned' = IF \E i \in RowsOf(u, c) : AllDone(i) THEN earned \union {<<u, c>>} ELSE earned
  /\ UNCHANGED <<courseVars, enrollment, badges, objects, now, shown, passedOnce, overwritten,
                 disturbed, unbadged>>

CheckLessons(r) ==
  LET u == request[r].user
      c == request[r].course
      all == \E i \in RowsOf(u, c) : AllDone(i) IN
  /\ request[r].at = "lessons"
  /\ request' = IF all THEN GoTo(r, "course") ELSE Finish(r)
  /\ earned' = IF all THEN earned \union {<<u, c>>} ELSE earned
  /\ UNCHANGED <<courseVars, enrollment, badges, objects, now, shown, passedOnce, overwritten,
                 disturbed, unbadged>>

\* SELECT of the course and the enrollment's id.  If the row is gone or the
\* SELECT fails, whose error is dropped, completion goes on without badge,
\* certificate and enrollment id.
ReadCourse(r, answered) ==
  LET c == request[r].course
      mine == RowsOf(request[r].user, c) IN
  /\ request[r].at = "course"
  /\ IF mine = {} \/ ~answered THEN request' = GoTo(r, "complete")
     ELSE \E i \in mine :
       request' = [request EXCEPT ![r] =
         [request[r] EXCEPT !.at = IF certified[c] THEN "certificate" ELSE "complete",
                            !.row = i, !.named = badgeNamed[c]]]
  /\ UNCHANGED <<courseVars, enrollment, badges, objects, now, shown, historyVars>>

\* generateCertificate: a failed upload gives nil, and completion goes on.
GenerateCertificate(r, uploaded) ==
  /\ request[r].at = "certificate"
  /\ objects' = IF uploaded THEN objects \union {request[r].row} ELSE objects
  /\ request' = [request EXCEPT ![r] =
       [request[r] EXCEPT !.at = "complete", !.url = IF uploaded THEN request[r].row ELSE 0]]
  /\ UNCHANGED <<courseVars, enrollment, badges, now, shown, historyVars>>

\* What completion goes on to: AwardBadge does nothing without a name.
AfterComplete(r) == IF request[r].named THEN GoTo(r, "award") ELSE Finish(r)

\* Mutant: the UPDATE does not ask for completed_at IS NULL.
CompleteAgain(r) ==
  LET mine == RowsOf(request[r].user, request[r].course) IN
  /\ request[r].at = "complete"
  /\ enrollment' = [i \in DOMAIN enrollment |->
       IF i \in mine
       THEN [enrollment[i] EXCEPT !.completed = TRUE, !.certificate = request[r].url]
       ELSE enrollment[i]]
  /\ unbadged' = IF request[r].named THEN unbadged ELSE unbadged \union mine
  /\ request' = AfterComplete(r)
  /\ UNCHANGED <<courseVars, badges, objects, now, shown, passedOnce, overwritten, disturbed,
                 earned>>

\* Mutant: no badge where the certificate could not be uploaded.
CompleteCertified(r) ==
  LET open == {i \in RowsOf(request[r].user, request[r].course) : ~enrollment[i].completed} IN
  /\ request[r].at = "complete"
  /\ enrollment' = [i \in DOMAIN enrollment |->
       IF i \in open
       THEN [enrollment[i] EXCEPT !.completed = TRUE, !.certificate = request[r].url]
       ELSE enrollment[i]]
  /\ unbadged' = IF request[r].named THEN unbadged ELSE unbadged \union open
  /\ request' = IF request[r].url = 0 THEN Finish(r) ELSE AfterComplete(r)
  /\ UNCHANGED <<courseVars, badges, objects, now, shown, passedOnce, overwritten, disturbed,
                 earned>>

\* UPDATE .. WHERE completed_at IS NULL.  The badge is awarded even if no row
\* was changed.
Complete(r) ==
  LET open == {i \in RowsOf(request[r].user, request[r].course) : ~enrollment[i].completed} IN
  /\ request[r].at = "complete"
  /\ enrollment' = [i \in DOMAIN enrollment |->
       IF i \in open
       THEN [enrollment[i] EXCEPT !.completed = TRUE, !.certificate = request[r].url]
       ELSE enrollment[i]]
  /\ unbadged' = IF request[r].named THEN unbadged ELSE unbadged \union open
  /\ request' = AfterComplete(r)
  /\ UNCHANGED <<courseVars, badges, objects, now, shown, passedOnce, overwritten, disturbed,
                 earned>>

\* Mutant: the badge's source is the enrollment, not the course.
AwardRow(r) ==
  /\ request[r].at = "award"
  /\ badges' = badges \union {<<request[r].user, request[r].row>>}
  /\ request' = Finish(r)
  /\ UNCHANGED <<courseVars, enrollment, objects, now, shown, historyVars>>

\* AwardBadge: INSERT .. ON CONFLICT DO NOTHING.
Award(r) ==
  /\ request[r].at = "award"
  /\ badges' = badges \union {<<request[r].user, request[r].course>>}
  /\ request' = Finish(r)
  /\ UNCHANGED <<courseVars, enrollment, objects, now, shown, historyVars>>

\* The request is cut (60 s timeout, client gone, restart), or a statement fails
\* that ends it: an UPDATE, the SELECT of the quiz, or one of the two checks,
\* whose failure tryCompleteCourse takes for "not complete".  The failures that
\* do not end it are in Already, ReadCourse and GenerateCertificate.
CutOff(r) ==
  LET mine == RowsOf(request[r].user, request[r].course) IN
  /\ request[r].at # "idle"
  /\ request' = Finish(r)
  /\ disturbed' = IF request[r].at \in {"quiz", "record"} THEN disturbed
                  ELSE disturbed \union mine
  /\ unbadged' = IF request[r].at = "award" THEN unbadged \union mine ELSE unbadged
  /\ UNCHANGED <<courseVars, enrollment, badges, objects, now, shown, passedOnce, overwritten,
                 earned>>

-----------------------------------------------------------------------------
Administer ==
  \E c \in Courses :
    \/ \E named, cert \in BOOLEAN : Create(c, named, cert) \/ Update(c, named, cert)
    \/ Delete(c)
    \/ \E l \in LessonIds : CreateLesson(c, l) \/ DeleteLesson(c, l)
    \/ \E form \in QuizForms : UpsertQuiz(c, form)
    \/ DeleteQuiz(c)

Study ==
  \/ \E c \in Courses : OpenCourse(c)
  \/ \E u \in Users, c \in Courses : EnrollCourse(u, c)
  \/ \E r \in Requests, u \in Users, p \in shown : MarkLessonComplete(r, u, p[1], p[2])
  \/ \E r \in Requests, u \in Users, c \in Courses : SubmitQuiz(r, u, c)

Continue(r) ==
  \/ \E form \in QuizForms : \E correct \in 0..form.questions : Grade(r, correct)
  \/ Record(r)
  \/ \E answered \in BOOLEAN : Already(r, answered) \/ ReadCourse(r, answered)
  \/ CheckPass(r)
  \/ CheckLessons(r)
  \/ \E uploaded \in BOOLEAN : GenerateCertificate(r, uploaded)
  \/ Complete(r)
  \/ Award(r)
  \/ CutOff(r)

Next ==
  \/ Administer
  \/ Study
  \/ \E r \in Requests : Continue(r)
  \/ \E u \in Users : DeleteAccount(u)
  \/ Tick

Spec == Init /\ [][Next]_vars

-----------------------------------------------------------------------------
(* Properties.                                                             *)

\* Requests of the row's owner that have written and are not through.
UnderWay(i) ==
  {r \in Requests :
     /\ request[r].user = enrollment[i].owner
     /\ request[r].course = enrollment[i].course
     /\ \/ request[r].at \in {"pass", "lessons", "course", "certificate", "complete"}
        \/ request[r].at = "already" /\ request[r].passed}

\* Completion is not missed between two requests: with a pass and as many
\* lessons done as there are, the row is complete or a request is on the way to
\* completing it, although the last lesson and the pass may come in concurrent
\* requests that each check what the other writes (courses.go:437-466).  Not so
\* once the lessons were edited or a request cut off: nothing looks again.
ReadyIsCompleted ==
  \A i \in DOMAIN enrollment \ disturbed :
    /\ enrollment[i].owner # Nobody
    /\ HasPass(i)
    /\ AllDone(i)
    => enrollment[i].completed \/ UnderWay(i) # {}

\* A completed course has given its badge or is about to, unless it had none
\* when it was read, it could not be read (courses.go:472 drops the error), or
\* the request was cut off before the award (courses.go:486-495).
CompletedHasBadge ==
  \A i \in DOMAIN enrollment \ unbadged :
    /\ enrollment[i].owner # Nobody
    /\ enrollment[i].completed
    => \/ <<enrollment[i].owner, enrollment[i].course>> \in badges
       \/ \E r \in Requests : /\ request[r].at = "award"
                              /\ request[r].user = enrollment[i].owner
                              /\ request[r].course = enrollment[i].course

\* The object GetCertificate signs a URL for; 0 if it answers "not found" or
\* without a URL.
Certificate(i) == IF enrollment[i].completed THEN enrollment[i].certificate ELSE 0

\* A certificate that is served was uploaded before and is served for as long
\* as the row is there, whatever uploads of concurrent completions fail
\* (courses.go:474-488).
CertificateKept ==
  [][/\ \A i \in DOMAIN enrollment : Certificate(i) # 0 => Certificate(i)' = Certificate(i)
     /\ \A i \in DOMAIN enrollment' : Certificate(i)' # 0 => Certificate(i)' \in objects']_vars

\* quizPassed as GetCourseProgress computes it: there is a latest passing attempt.
ProgressPassed(i) ==
  \E s \in Seconds : /\ enrollment[i].attempts[s] = "passed"
                     /\ \A t \in Seconds : enrollment[i].attempts[t] = "passed" => t <= s

\* quizPassed as GetEnrolledCourses computes it: there is some passing attempt.
ListedPassed(i) == \E s \in Seconds : enrollment[i].attempts[s] = "passed"

\* Who has passed the quiz once is shown as having passed on both screens, and
\* no later failed attempt takes it back, unless it was made in the same second
\* (courses.go:307).
PassShown ==
  \A i \in passedOnce \ overwritten : ProgressPassed(i) /\ ListedPassed(i)

\* Badges are given for completed courses only and are never taken back.
Ledger == INSTANCE BadgeLedger WITH Sources <- Courses, given <- badges
ImplementsBadgeLedger == Ledger!Spec

-----------------------------------------------------------------------------
(* The inductive invariant behind the properties.                          *)

\* The unique index, which account deletion and the deletion of a course leave.
OneRowPerUser ==
  \A i, k \in DOMAIN enrollment :
    i # k /\ enrollment[i].owner # Nobody
    => ~ (/\ enrollment[i].owner = enrollment[k].owner
          /\ enrollment[i].course = enrollment[k].course)

\* What a request under way has in its local variables.
RequestInv ==
  \A r \in Requests : request[r].at # "idle" =>
    /\ request[r].user \in Users
    /\ request[r].at = "record" => request[r].second \in Seconds
    /\ request[r].at = "certificate" => request[r].row \in DOMAIN enrollment
    /\ request[r].url \in objects \union {0}
    /\ request[r].at \in {"course", "certificate", "complete", "award"}
       => <<request[r].user, request[r].course>> \in earned

CertificateInv ==
  \A i \in DOMAIN enrollment : enrollment[i].certificate \in objects \union {0}

PassInv == \A i \in passedOnce \ overwritten : HasPass(i)

CourseInv ==
  /\ OneRowPerUser
  /\ RequestInv
  /\ CertificateInv
  /\ PassInv
  /\ ReadyIsCompleted
  /\ CompletedHasBadge
=============================================================================
