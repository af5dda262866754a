----------------------------- MODULE CourseProofs -----------------------------
(***************************************************************************)
(* Theorems about CourseCompletion, for any number of users, courses,      *)
(* lessons and concurrent requests, any quizzes and any number of edits.   *)
(***************************************************************************)
EXTENDS CourseCompletion, SequenceTheorems, WellFoundedInduction, TLAPS

-----------------------------------------------------------------------------
(* Enrollments.                                                            *)

LEMMA Rows ==
  ASSUME TypeOK
  PROVE  /\ Len(enrollment) \in Nat
         /\ DOMAIN enrollment = 1..Len(enrollment)
         /\ \A i \in DOMAIN enrollment :
              i \in Nat /\ i # 0 /\ enrollment[i] \in Enrollment
<1>1. /\ Len(enrollment) \in Nat
      /\ DOMAIN enrollment = 1..Len(enrollment)
      /\ enrollment \in [1..Len(enrollment) -> Enrollment]
  BY LenProperties DEF TypeOK
<1> QED BY <1>1

\* What a step may do to a row that is there: the owner stays or becomes NULL,
\* the course stays, a completed row stays completed with its certificate.
RowMoves(r, s) ==
  /\ s \in Enrollment
  /\ s.owner \in {r.owner, Nobody}
  /\ s.course = r.course
  /\ r.completed => s.completed /\ s.certificate = r.certificate

\* Steps that write rows without changing which rows there are.
Writes ==
  \/ \E c \in Courses : Delete(c)
  \/ \E u \in Users : DeleteAccount(u)
  \/ \E r \in Requests, u \in Users, p \in shown : MarkLessonComplete(r, u, p[1], p[2])
  \/ \E r \in Requests : Record(r) \/ Complete(r)

LEMMA RowCases ==
  ASSUME [Next]_vars
  PROVE  \/ UNCHANGED enrollment
         \/ Writes
         \/ \E u \in Users, c \in Courses : EnrollCourse(u, c)
BY DEF Next, vars, Administer, Create, Update, Delete, CreateLesson, DeleteLesson, UpsertQuiz,
       DeleteQuiz, Study, OpenCourse, SubmitQuiz, Continue, Grade, Already, CheckPass, CheckLessons,
       ReadCourse, GenerateCertificate, Award, CutOff, Tick, Writes

\* A request under way has a user and a course.
LEMMA AtWork ==
  ASSUME TypeOK, NEW r \in Requests
  PROVE  /\ request[r] \in Request /\ request[r].course \in Courses
         /\ request[r].url \in Nat /\ request[r].passed \in BOOLEAN
BY DEF TypeOK, Request

LEMMA WriteRows ==
  ASSUME TypeOK, RequestInv, Writes
  PROVE  /\ DOMAIN enrollment' = DOMAIN enrollment
         /\ \A i \in DOMAIN enrollment : RowMoves(enrollment[i], enrollment'[i])
<1> USE Rows
<1>1. ASSUME NEW M \in SUBSET DOMAIN enrollment,
             enrollment' = [i \in DOMAIN enrollment |->
               IF i \in M THEN [enrollment[i] EXCEPT !.owner = Nobody] ELSE enrollment[i]]
      PROVE  /\ DOMAIN enrollment' = DOMAIN enrollment
             /\ \A i \in DOMAIN enrollment : RowMoves(enrollment[i], enrollment'[i])
  BY <1>1 DEF RowMoves, Enrollment
<1>2. ASSUME NEW c \in Courses, Delete(c)
      PROVE  /\ DOMAIN enrollment' = DOMAIN enrollment
             /\ \A i \in DOMAIN enrollment : RowMoves(enrollment[i], enrollment'[i])
  BY <1>1, <1>2 DEF Delete, RowsIn
<1>3. ASSUME NEW u \in Users, DeleteAccount(u)
      PROVE  /\ DOMAIN enrollment' = DOMAIN enrollment
             /\ \A i \in DOMAIN enrollment : RowMoves(enrollment[i], enrollment'[i])
  BY <1>3 DEF DeleteAccount, RowMoves, Enrollment
<1>4. ASSUME NEW r \in Requests, NEW u \in Users, NEW p \in shown,
             MarkLessonComplete(r, u, p[1], p[2])
      PROVE  /\ DOMAIN enrollment' = DOMAIN enrollment
             /\ \A i \in DOMAIN enrollment : RowMoves(enrollment[i], enrollment'[i])
  <2>1. p[2] \in LessonIds
    BY DEF TypeOK
  <2> QED BY <1>4, <2>1 DEF MarkLessonComplete, RowMoves, Enrollment
<1>5. ASSUME NEW r \in Requests, Record(r)
      PROVE  /\ DOMAIN enrollment' = DOMAIN enrollment
             /\ \A i \in DOMAIN enrollment : RowMoves(enrollment[i], enrollment'[i])
  <2>1. request[r].second \in Seconds /\ Outcome(r) \in {"none", "passed", "failed"}
    BY <1>5 DEF Record, RequestInv, Outcome
  <2>2. \A i \in DOMAIN enrollment :
          [enrollment[i].attempts EXCEPT ![request[r].second] = Outcome(r)]
            \in [Seconds -> {"none", "passed", "failed"}]
    BY <2>1 DEF Enrollment
  <2> QED BY <1>5, <2>2 DEF Record, RowMoves, Enrollment
<1>6. ASSUME NEW r \in Requests, Complete(r)
      PROVE  /\ DOMAIN enrollment' = DOMAIN enrollment
             /\ \A i \in DOMAIN enrollment : RowMoves(enrollment[i], enrollment'[i])
  BY <1>6, AtWork DEF Complete, RowMoves, Enrollment
<1> QED BY <1>2, <1>3, <1>4, <1>5, <1>6 DEF Writes

\* Row s is new: nothing done, nothing attempted.
Blank(s) ==
  /\ s \in Enrollment
  /\ \A t \in Seconds : s.attempts[t] = "none"
  /\ ~ s.completed
  /\ s.certificate = 0

\* What any step does to the rows.
LEMMA StepRows ==
  ASSUME TypeOK, RequestInv, [Next]_vars
  PROVE  /\ enrollment' \in Seq(Enrollment)
         /\ DOMAIN enrollment \subseteq DOMAIN enrollment'
         /\ \A i \in DOMAIN enrollment : RowMoves(enrollment[i], enrollment'[i])
         /\ \A k \in DOMAIN enrollment' \ DOMAIN enrollment :
              /\ Blank(enrollment'[k])
              /\ \A i \in DOMAIN enrollment' \ {k} :
                   ~ (/\ enrollment'[i].owner = enrollment'[k].owner
                      /\ enrollment'[i].course = enrollment'[k].course)
<1>1. \A i \in DOMAIN enrollment : RowMoves(enrollment[i], enrollment[i])
  BY Rows DEF RowMoves
<1>2. CASE UNCHANGED enrollment
  BY <1>1, <1>2 DEF TypeOK
<1>3. CASE Writes
  <2>1. /\ DOMAIN enrollment' = DOMAIN enrollment
        /\ \A i \in DOMAIN enrollment : RowMoves(enrollment[i], enrollment'[i])
    BY <1>3, WriteRows
  <2>2. enrollment' = [i \in DOMAIN enrollment |-> enrollment'[i]]
    BY <1>3 DEF Writes, Delete, DeleteAccount, MarkLessonComplete, Record, Complete
  <2>3. enrollment' \in [1..Len(enrollment) -> Enrollment]
    BY <2>1, <2>2, Rows DEF RowMoves
  <2>4. enrollment' \in Seq(Enrollment)
    BY <2>3, Rows, SeqDef
  <2> QED BY <2>1, <2>4
<1>4. ASSUME NEW u \in Users, NEW c \in Courses, EnrollCourse(u, c)
      PROVE  /\ enrollment' \in Seq(Enrollment)
             /\ DOMAIN enrollment \subseteq DOMAIN enrollment'
             /\ \A i \in DOMAIN enrollment : RowMoves(enrollment[i], enrollment'[i])
             /\ \A k \in DOMAIN enrollment' \ DOMAIN enrollment :
                  /\ Blank(enrollment'[k])
                  /\ \A i \in DOMAIN enrollment' \ {k} :
                       ~ (/\ enrollment'[i].owner = enrollment'[k].owner
                          /\ enrollment'[i].course = enrollment'[k].course)
  <2> DEFINE new == [owner |-> u, course |-> c, done |-> {}, attempts |-> [s \in Seconds |-> "none"],
                     completed |-> FALSE, certificate |-> 0]
             n == Len(enrollment) + 1
  <2>1. Blank(new)
    BY DEF Blank, Enrollment
  <2>2. /\ enrollment' \in Seq(Enrollment)
        /\ DOMAIN enrollment' = DOMAIN enrollment \union {n}
        /\ \A i \in DOMAIN enrollment : enrollment'[i] = enrollment[i]
        /\ enrollment'[n] = new
    <3>1. new \in Enrollment /\ enrollment' = Append(enrollment, new)
      BY <1>4, <2>1 DEF EnrollCourse, Blank
    <3>2. enrollment \in Seq(Enrollment)
      BY DEF TypeOK
    <3> HIDE DEF new
    <3> QED BY <3>1, <3>2, Rows, AppendProperties, LenProperties
  <2>3. \A i \in DOMAIN enrollment : ~ (enrollment[i].owner = u /\ enrollment[i].course = c)
    BY <1>4 DEF EnrollCourse, RowsOf
  <2> QED BY <1>1, <2>1, <2>2, <2>3
<1> QED BY <1>2, <1>3, <1>4, RowCases

-----------------------------------------------------------------------------
(* Requests.                                                               *)

\* The steps of request r.
Moves(r) ==
  \/ \E u \in Users, p \in shown : MarkLessonComplete(r, u, p[1], p[2])
  \/ \E u \in Users, c \in Courses : SubmitQuiz(r, u, c)
  \/ Continue(r)

LEMMA RequestCases ==
  ASSUME [Next]_vars
  PROVE  UNCHANGED request \/ \E r \in Requests : Moves(r)
BY DEF Next, vars, Administer, Create, Update, Delete, CreateLesson, DeleteLesson, UpsertQuiz,
       DeleteQuiz, Study, OpenCourse, EnrollCourse, DeleteAccount, Tick, Moves

\* What RequestInv says of a request with local variables s.
Sound(s, rows, uploads, won) ==
  /\ s \in Request
  /\ s.at # "idle" =>
       /\ s.user \in Users
       /\ s.at = "record" => s.second \in Seconds
       /\ s.at = "certificate" => s.row \in rows
       /\ s.url \in uploads \union {0}
       /\ s.at \in {"course", "certificate", "complete", "award"} => <<s.user, s.course>> \in won

LEMMA SoundRequests ==
  ASSUME TypeOK, RequestInv, NEW r \in Requests
  PROVE  Sound(request[r], DOMAIN enrollment, objects, earned)
BY DEF TypeOK, RequestInv, Sound

LEMMA NoRequestTyped == NoRequest \in Request /\ NoRequest.at = "idle"
BY CourseAssumption DEF NoRequest, Request

\* A request that moves changes its own local variables and leaves them sound.
LEMMA SoundMove ==
  ASSUME TypeOK, RequestInv, NEW r \in Requests, Moves(r)
  PROVE  \E s \in Request :
           /\ request' = [request EXCEPT ![r] = s]
           /\ Sound(s, DOMAIN enrollment, objects', earned')
<1> DEFINE Goal == \E s \in Request :
                     /\ request' = [request EXCEPT ![r] = s]
                     /\ Sound(s, DOMAIN enrollment, objects', earned')
<1>1. Sound(request[r], DOMAIN enrollment, objects, earned)
  BY SoundRequests
<1>2. ASSUME request' = Finish(r)
      PROVE  Goal
  BY <1>2, NoRequestTyped DEF Finish, Sound
<1>3. ASSUME NEW u \in Users, NEW p \in shown, MarkLessonComplete(r, u, p[1], p[2])
      PROVE  Goal
  <2> DEFINE s == [NoRequest EXCEPT !.at = "pass", !.user = u, !.course = p[1]]
  <2>1. p[1] \in Courses
    BY DEF TypeOK
  <2>2. s \in Request /\ Sound(s, DOMAIN enrollment, objects', earned')
    BY <2>1, CourseAssumption DEF Sound, NoRequest, Request
  <2>3. request' = [request EXCEPT ![r] = s]
    BY <1>3 DEF MarkLessonComplete
  <2> QED BY <2>2, <2>3
<1>4. ASSUME NEW u \in Users, NEW c \in Courses, SubmitQuiz(r, u, c)
      PROVE  Goal
  <2> DEFINE s == [NoRequest EXCEPT !.at = "quiz", !.user = u, !.course = c]
  <2>1. s \in Request /\ Sound(s, DOMAIN enrollment, objects', earned')
    BY CourseAssumption DEF Sound, NoRequest, Request
  <2>2. request' = [request EXCEPT ![r] = s]
    BY <1>4 DEF SubmitQuiz
  <2> QED BY <2>1, <2>2
<1>5. ASSUME NEW correct, Grade(r, correct)
      PROVE  Goal
  <2> DEFINE q == quiz[request[r].course]
             s == [request[r] EXCEPT !.at = "record", !.second = now,
                                     !.passed = Score(correct, q.questions) >= q.threshold]
  <2>1. CASE q = NoQuiz
    BY <1>2, <1>5, <2>1 DEF Grade
  <2>2. CASE q # NoQuiz
    <3>1. s \in Request
      <4>1. (Score(correct, q.questions) >= q.threshold) \in BOOLEAN
        OBVIOUS
      <4>2. now \in Nat
        BY DEF TypeOK, Seconds
      <4> QED BY <1>1, <4>1, <4>2 DEF Sound, Request
    <3>2. Sound(s, DOMAIN enrollment, objects', earned')
      BY <1>1, <1>5, <3>1 DEF Sound, Grade, Request, TypeOK, historyVars
    <3>3. request' = [request EXCEPT ![r] = s]
      BY <1>5, <2>2 DEF Grade
    <3> QED BY <3>1, <3>2, <3>3
  <2> QED BY <2>1, <2>2
<1>6. CASE Record(r)
  <2> DEFINE s == [request[r] EXCEPT !.at = "already", !.second = 0]
  <2>1. s \in Request /\ Sound(s, DOMAIN enrollment, objects', earned')
    BY <1>1, <1>6 DEF Record, Sound, Request
  <2>2. request' = [request EXCEPT ![r] = s]
    BY <1>6 DEF Record
  <2> QED BY <2>1, <2>2
<1>7. ASSUME NEW answered \in BOOLEAN, Already(r, answered)
      PROVE  Goal
  <2> DEFINE s == [request[r] EXCEPT !.at = "pass", !.passed = FALSE]
  <2>1. s \in Request /\ Sound(s, DOMAIN enrollment, objects', earned')
    BY <1>1, <1>7 DEF Already, Sound, Request, historyVars
  <2>2. request' = [request EXCEPT ![r] = s] \/ request' = Finish(r)
    BY <1>7 DEF Already
  <2> QED BY <1>2, <2>1, <2>2
<1>8. CASE CheckPass(r)
  <2> DEFINE s == [request[r] EXCEPT !.at = "lessons"]
  <2>1. s \in Request /\ Sound(s, DOMAIN enrollment, objects', earned')
    BY <1>1, <1>8 DEF CheckPass, Sound, Request, historyVars
  <2>2. request' = [request EXCEPT ![r] = s] \/ request' = Finish(r)
    BY <1>8 DEF CheckPass, GoTo
  <2> QED BY <1>2, <2>1, <2>2
<1>9. CASE CheckLessons(r)
  <2> DEFINE s == [request[r] EXCEPT !.at = "course"]
             all == \E i \in RowsOf(request[r].user, request[r].course) : AllDone(i)
  <2>1. CASE all
    <3>1. s \in Request /\ Sound(s, DOMAIN enrollment, objects', earned')
      BY <1>1, <1>9, <2>1 DEF CheckLessons, Sound, Request
    <3>2. request' = [request EXCEPT ![r] = s]
      BY <1>9, <2>1 DEF CheckLessons, GoTo
    <3> QED BY <3>1, <3>2
  <2>2. CASE ~all
    BY <1>2, <1>9, <2>2 DEF CheckLessons
  <2> QED BY <2>1, <2>2
<1>10. ASSUME NEW answered \in BOOLEAN, ReadCourse(r, answered)
       PROVE  Goal
  <2> DEFINE c == request[r].course
             s0 == [request[r] EXCEPT !.at = "complete"]
             s(i) == [request[r] EXCEPT !.at = IF certified[c] THEN "certificate" ELSE "complete",
                                        !.row = i, !.named = badgeNamed[c]]
  <2>1. s0 \in Request /\ Sound(s0, DOMAIN enrollment, objects', earned')
    BY <1>1, <1>10 DEF ReadCourse, Sound, Request, historyVars
  <2>2. c \in Courses /\ badgeNamed[c] \in BOOLEAN
    BY <1>1 DEF Sound, Request, TypeOK
  <2>3. ASSUME NEW i \in DOMAIN enrollment
        PROVE  s(i) \in Request /\ Sound(s(i), DOMAIN enrollment, objects', earned')
    BY <1>1, <1>10, <2>2, Rows DEF ReadCourse, Sound, Request, historyVars
  <2>4. \/ request' = [request EXCEPT ![r] = s0]
        \/ \E i \in DOMAIN enrollment : request' = [request EXCEPT ![r] = s(i)]
    BY <1>10 DEF ReadCourse, GoTo, RowsOf
  <2> HIDE DEF s
  <2> QED BY <2>1, <2>3, <2>4
<1>11. ASSUME NEW uploaded \in BOOLEAN, GenerateCertificate(r, uploaded)
       PROVE  Goal
  <2> DEFINE s == [request[r] EXCEPT !.at = "complete",
                                     !.url = IF uploaded THEN request[r].row ELSE 0]
  <2>1. s \in Request /\ Sound(s, DOMAIN enrollment, objects', earned')
    BY <1>1, <1>11, Rows DEF GenerateCertificate, Sound, Request, historyVars
  <2>2. request' = [request EXCEPT ![r] = s]
    BY <1>11 DEF GenerateCertificate
  <2> QED BY <2>1, <2>2
<1>12. CASE Complete(r)
  <2> DEFINE s == [request[r] EXCEPT !.at = "award"]
  <2>1. s \in Request /\ Sound(s, DOMAIN enrollment, objects', earned')
    BY <1>1, <1>12 DEF Complete, Sound, Request
  <2>2. request' = [request EXCEPT ![r] = s] \/ request' = Finish(r)
    BY <1>12 DEF Complete, AfterComplete, GoTo
  <2> QED BY <1>2, <2>1, <2>2
<1>13. CASE Award(r) \/ CutOff(r)
  BY <1>2, <1>13 DEF Award, CutOff
<1> QED BY <1>3, <1>4, <1>5, <1>6, <1>7, <1>8, <1>9, <1>10, <1>11, <1>12, <1>13
        DEF Moves, Continue

\* What is stored and what the history remembers stays.
LEMMA Remembered ==
  ASSUME TypeOK, RequestInv, [Next]_vars
  PROVE  /\ badges \subseteq badges' /\ badges' \subseteq Users \X Courses
         /\ objects \subseteq objects' /\ objects' \subseteq DOMAIN enrollment'
         /\ earned \subseteq earned' /\ earned' \subseteq Users \X Courses
         /\ passedOnce \subseteq passedOnce' /\ passedOnce' \subseteq DOMAIN enrollment'
         /\ overwritten \subseteq overwritten' /\ overwritten' \subseteq DOMAIN enrollment'
         /\ disturbed \subseteq disturbed' /\ disturbed' \subseteq DOMAIN enrollment'
         /\ unbadged \subseteq unbadged' /\ unbadged' \subseteq DOMAIN enrollment'
<1> DEFINE D == DOMAIN enrollment'
           Goal == /\ badges \subseteq badges' /\ badges' \subseteq Users \X Courses
                   /\ objects \subseteq objects' /\ objects' \subseteq D
                   /\ earned \subseteq earned' /\ earned' \subseteq Users \X Courses
                   /\ passedOnce \subseteq passedOnce' /\ passedOnce' \subseteq D
                   /\ overwritten \subseteq overwritten' /\ overwritten' \subseteq D
                   /\ disturbed \subseteq disturbed' /\ disturbed' \subseteq D
                   /\ unbadged \subseteq unbadged' /\ unbadged' \subseteq D
<1>1. DOMAIN enrollment \subseteq D
  BY StepRows
<1>2. \A u, c : RowsOf(u, c) \subseteq DOMAIN enrollment /\ RowsIn(c) \subseteq DOMAIN enrollment
  BY DEF RowsOf, RowsIn
<1>3. /\ badges \subseteq Users \X Courses /\ earned \subseteq Users \X Courses
      /\ objects \subseteq D /\ passedOnce \subseteq D /\ overwritten \subseteq D
      /\ disturbed \subseteq D /\ unbadged \subseteq D
  BY <1>1 DEF TypeOK
<1>4. \A r \in Requests : request[r].at # "idle" => <<request[r].user, request[r].course>> \in Users \X Courses
  BY AtWork DEF RequestInv
<1> HIDE DEF D
<1>5. ASSUME UNCHANGED <<badges, objects, historyVars>>
      PROVE  Goal
  BY <1>3, <1>5 DEF historyVars
<1>6. ASSUME NEW c \in Courses, NEW l \in LessonIds, CreateLesson(c, l) \/ DeleteLesson(c, l)
      PROVE  Goal
  BY <1>1, <1>2, <1>3, <1>6 DEF CreateLesson, DeleteLesson
<1>7. ASSUME NEW r \in Requests, Record(r)
      PROVE  Goal
  <2> DEFINE mine == RowsOf(request[r].user, request[r].course)
             over == {i \in mine : enrollment[i].attempts[request[r].second] # "none"}
  <2>1. mine \subseteq D /\ over \subseteq D
    BY <1>1, <1>2
  <2>2. /\ overwritten' = overwritten \union over
        /\ passedOnce' = IF request[r].passed THEN passedOnce \union mine ELSE passedOnce
        /\ UNCHANGED <<badges, objects, disturbed, unbadged, earned>>
    BY <1>7 DEF Record
  <2> HIDE DEF mine, over
  <2> QED BY <1>3, <2>1, <2>2
<1>8. ASSUME NEW r \in Requests, CheckLessons(r)
      PROVE  Goal
  <2>1. earned' = earned \/ earned' = earned \union {<<request[r].user, request[r].course>>}
    BY <1>8 DEF CheckLessons
  <2> QED BY <1>3, <1>4, <1>8, <2>1 DEF CheckLessons
<1>9. ASSUME NEW r \in Requests, NEW uploaded \in BOOLEAN, GenerateCertificate(r, uploaded)
      PROVE  Goal
  <2>1. request[r].row \in D
    BY <1>1, <1>9 DEF GenerateCertificate, RequestInv
  <2> QED BY <1>3, <1>9, <2>1 DEF GenerateCertificate, historyVars
<1>10. ASSUME NEW r \in Requests, Complete(r)
       PROVE  Goal
  <2> DEFINE open == {i \in RowsOf(request[r].user, request[r].course) : ~enrollment[i].completed}
  <2>1. open \subseteq D
    BY <1>1, <1>2
  <2>2. unbadged' = unbadged \/ unbadged' = unbadged \union open
    BY <1>10 DEF Complete
  <2> HIDE DEF open
  <2> QED BY <1>3, <1>10, <2>1, <2>2 DEF Complete
<1>11. ASSUME NEW r \in Requests, Award(r)
       PROVE  Goal
  <2>1. badges' = badges \union {<<request[r].user, request[r].course>>}
    BY <1>11 DEF Award
  <2>2. <<request[r].user, request[r].course>> \in Users \X Courses
    BY <1>4, <1>11 DEF Award
  <2>3. UNCHANGED <<objects, historyVars>>
    BY <1>11 DEF Award
  <2> QED BY <1>3, <2>1, <2>2, <2>3 DEF historyVars
<1>12. ASSUME NEW r \in Requests, CutOff(r)
       PROVE  Goal
  <2> DEFINE mine == RowsOf(request[r].user, request[r].course)
  <2>1. mine \subseteq D
    BY <1>1, <1>2
  <2>2. /\ disturbed' = disturbed \/ disturbed' = disturbed \union mine
        /\ unbadged' = unbadged \/ unbadged' = unbadged \union mine
        /\ UNCHANGED <<badges, objects, passedOnce, overwritten, earned>>
    BY <1>12 DEF CutOff
  <2> HIDE DEF mine
  <2> QED BY <1>3, <2>1, <2>2
<1>13. \/ UNCHANGED <<badges, objects, historyVars>>
       \/ \E c \in Courses, l \in LessonIds : CreateLesson(c, l) \/ DeleteLesson(c, l)
       \/ \E r \in Requests : \/ Record(r) \/ CheckLessons(r) \/ Complete(r) \/ Award(r)
                              \/ CutOff(r)
                              \/ \E uploaded \in BOOLEAN : GenerateCertificate(r, uploaded)
  BY DEF Next, vars, Administer, Create, Update, Delete, UpsertQuiz, DeleteQuiz, Study,
         OpenCourse, EnrollCourse, MarkLessonComplete, SubmitQuiz, DeleteAccount, Tick, Continue,
         Grade, Already, CheckPass, ReadCourse
<1> QED BY <1>5, <1>6, <1>7, <1>8, <1>9, <1>10, <1>11, <1>12, <1>13 DEF D

LEMMA RequestInductive ==
  ASSUME TypeOK, RequestInv, [Next]_vars
  PROVE  request' \in [Requests -> Request] /\ RequestInv'
<1>1. /\ objects \subseteq objects' /\ earned \subseteq earned'
      /\ DOMAIN enrollment \subseteq DOMAIN enrollment'
  BY Remembered, StepRows
<1>2. \A s : Sound(s, DOMAIN enrollment, objects, earned) \/ Sound(s, DOMAIN enrollment, objects', earned')
             => Sound(s, DOMAIN enrollment', objects', earned')
  BY <1>1 DEF Sound
<1>3. ASSUME NEW q \in Requests
      PROVE  Sound(request'[q], DOMAIN enrollment', objects', earned')
  <2>1. CASE UNCHANGED request
    BY <1>2, <2>1, SoundRequests
  <2>2. ASSUME NEW r \in Requests, Moves(r)
        PROVE  Sound(request'[q], DOMAIN enrollment', objects', earned')
    <3>1. PICK s \in Request : /\ request' = [request EXCEPT ![r] = s]
                               /\ Sound(s, DOMAIN enrollment, objects', earned')
      BY <2>2, SoundMove
    <3>2. request'[q] = IF q = r THEN s ELSE request[q]
      BY <3>1 DEF TypeOK
    <3> QED BY <1>2, <3>1, <3>2, SoundRequests
  <2> QED BY <2>1, <2>2, RequestCases
<1>4. request' = [q \in Requests |-> request'[q]]
  <2>1. UNCHANGED request \/ \E r \in Requests, s \in Request : request' = [request EXCEPT ![r] = s]
    BY RequestCases, SoundMove
  <2> QED BY <2>1 DEF TypeOK
<1>5. request' \in [Requests -> Request]
  <2>1. \A q \in Requests : request'[q] \in Request
    BY <1>3 DEF Sound
  <2> QED BY <1>4, <2>1
<1>6. RequestInv'
  BY <1>3 DEF RequestInv, Sound
<1> QED BY <1>5, <1>6

-----------------------------------------------------------------------------
(* Type correctness.                                                       *)

LEMMA TypeInductive ==
  ASSUME TypeOK, RequestInv, [Next]_vars
  PROVE  TypeOK'
<1>1. /\ created' \subseteq Courses
      /\ badgeNamed' \in [Courses -> BOOLEAN]
      /\ certified' \in [Courses -> BOOLEAN]
      /\ lessons' \in [Courses -> SUBSET LessonIds]
      /\ quiz' \in [Courses -> QuizForms \union {NoQuiz}]
      /\ edits' \in 0..MaxEdits
  <2>1. CASE UNCHANGED courseVars
    BY <2>1 DEF TypeOK, courseVars
  <2>2. CASE Administer
    <3>1. edits' \in 0..MaxEdits
      BY <2>2, CourseAssumption
         DEF TypeOK, Administer, Create, Update, Delete, CreateLesson, DeleteLesson, UpsertQuiz,
             DeleteQuiz, CountEdit
    <3>2. created' \subseteq Courses
      BY <2>2 DEF TypeOK, Administer, Create, Update, Delete, CreateLesson, DeleteLesson,
                  UpsertQuiz, DeleteQuiz
    <3>3. badgeNamed' \in [Courses -> BOOLEAN] /\ certified' \in [Courses -> BOOLEAN]
      BY <2>2 DEF TypeOK, Administer, Create, Update, Delete, CreateLesson, DeleteLesson,
                  UpsertQuiz, DeleteQuiz
    <3>4. lessons' \in [Courses -> SUBSET LessonIds]
      BY <2>2 DEF TypeOK, Administer, Create, Update, Delete, CreateLesson, DeleteLesson,
                  UpsertQuiz, DeleteQuiz
    <3>5. quiz' \in [Courses -> QuizForms \union {NoQuiz}]
      BY <2>2 DEF TypeOK, Administer, Create, Update, Delete, CreateLesson, DeleteLesson,
                  UpsertQuiz, DeleteQuiz
    <3> QED BY <3>1, <3>2, <3>3, <3>4, <3>5
  <2>3. UNCHANGED courseVars \/ Administer
    BY DEF Next, vars, Study, OpenCourse, EnrollCourse, MarkLessonComplete, SubmitQuiz, Continue,
           Grade, Record, Already, CheckPass, CheckLessons, ReadCourse, GenerateCertificate,
           Complete, Award, CutOff, DeleteAccount, Tick, courseVars
  <2> QED BY <2>1, <2>2, <2>3
<1>2. now' \in Seconds /\ shown' \subseteq Courses \X LessonIds
  <2>1. CASE UNCHANGED <<now, shown>>
    BY <2>1 DEF TypeOK
  <2>2. CASE Tick
    BY <2>2, CourseAssumption DEF TypeOK, Tick, Seconds
  <2>3. ASSUME NEW c \in Courses, OpenCourse(c)
        PROVE  now' \in Seconds /\ shown' \subseteq Courses \X LessonIds
    <3>1. {c} \X lessons[c] \subseteq Courses \X LessonIds
      BY DEF TypeOK
    <3> QED BY <2>3, <3>1 DEF TypeOK, OpenCourse
  <2>4. UNCHANGED <<now, shown>> \/ Tick \/ \E c \in Courses : OpenCourse(c)
    BY DEF Next, vars, Administer, Create, Update, Delete, CreateLesson, DeleteLesson, UpsertQuiz,
           DeleteQuiz, Study, EnrollCourse, MarkLessonComplete, SubmitQuiz, Continue,
           Grade, Record, Already, CheckPass, CheckLessons, ReadCourse, GenerateCertificate,
           Complete, Award, CutOff, DeleteAccount
  <2> QED BY <2>1, <2>2, <2>3, <2>4
<1> QED BY <1>1, <1>2, StepRows, Remembered, RequestInductive DEF TypeOK

-----------------------------------------------------------------------------
(* Rows and certificates.                                                  *)

LEMMA OneRowInductive ==
  ASSUME TypeOK, RequestInv, OneRowPerUser, [Next]_vars
  PROVE  OneRowPerUser'
<1> SUFFICES ASSUME NEW i \in DOMAIN enrollment', NEW k \in DOMAIN enrollment', i # k,
                    enrollment'[i].owner # Nobody,
                    enrollment'[i].owner = enrollment'[k].owner,
                    enrollment'[i].course = enrollment'[k].course
             PROVE  FALSE
  BY DEF OneRowPerUser
<1>1. i \in DOMAIN enrollment /\ k \in DOMAIN enrollment
  BY StepRows
<1>2. /\ enrollment[i].owner = enrollment[k].owner /\ enrollment[i].owner # Nobody
      /\ enrollment[i].course = enrollment[k].course
  BY <1>1, StepRows DEF RowMoves
<1> QED BY <1>1, <1>2 DEF OneRowPerUser

\* What may be written into a row, besides its owner.
LEMMA RowWork ==
  ASSUME TypeOK, RequestInv, [Next]_vars, NEW i \in DOMAIN enrollment
  PROVE  \/ /\ enrollment'[i].done = enrollment[i].done
            /\ enrollment'[i].attempts = enrollment[i].attempts
            /\ enrollment'[i].completed = enrollment[i].completed
            /\ enrollment'[i].certificate = enrollment[i].certificate
         \/ \E r \in Requests, p \in shown :
              /\ i \in RowsOf(enrollment[i].owner, p[1])
              /\ enrollment[i].owner \in Users
              /\ MarkLessonComplete(r, enrollment[i].owner, p[1], p[2])
         \/ \E r \in Requests :
              /\ i \in RowsOf(request[r].user, request[r].course)
              /\ Record(r) \/ (Complete(r) /\ ~ enrollment[i].completed)
<1> USE Rows
<1>1. CASE UNCHANGED enrollment
  BY <1>1
<1>2. ASSUME NEW u \in Users, NEW c \in Courses, EnrollCourse(u, c)
      PROVE  enrollment'[i] = enrollment[i]
  <2> DEFINE new == [owner |-> u, course |-> c, done |-> {}, attempts |-> [s \in Seconds |-> "none"],
                     completed |-> FALSE, certificate |-> 0]
  <2>1. new \in Enrollment /\ enrollment' = Append(enrollment, new)
    BY <1>2 DEF EnrollCourse, Enrollment
  <2>2. enrollment \in Seq(Enrollment)
    BY DEF TypeOK
  <2> HIDE DEF new
  <2> QED BY <2>1, <2>2, AppendProperties
<1>3. CASE \E c \in Courses : Delete(c)
  BY <1>3 DEF Delete, Enrollment
<1>4. CASE \E u \in Users : DeleteAccount(u)
  BY <1>4 DEF DeleteAccount, Enrollment
<1>5. ASSUME NEW r \in Requests, NEW u \in Users, NEW p \in shown,
             MarkLessonComplete(r, u, p[1], p[2])
      PROVE  \/ enrollment'[i] = enrollment[i]
             \/ /\ i \in RowsOf(enrollment[i].owner, p[1])
                /\ enrollment[i].owner = u
  BY <1>5 DEF MarkLessonComplete, RowsOf
<1>6. ASSUME NEW r \in Requests, Record(r)
      PROVE  \/ enrollment'[i] = enrollment[i]
             \/ i \in RowsOf(request[r].user, request[r].course)
  BY <1>6 DEF Record
<1>7. ASSUME NEW r \in Requests, Complete(r)
      PROVE  \/ enrollment'[i] = enrollment[i]
             \/ /\ i \in RowsOf(request[r].user, request[r].course)
                /\ ~ enrollment[i].completed
  BY <1>7 DEF Complete
<1>8. CASE Writes
  BY <1>3, <1>4, <1>5, <1>6, <1>7, <1>8 DEF Writes
<1> QED BY <1>1, <1>2, <1>8, RowCases

LEMMA CertificateInductive ==
  ASSUME TypeOK, RequestInv, CertificateInv, [Next]_vars
  PROVE  CertificateInv'
<1> SUFFICES ASSUME NEW i \in DOMAIN enrollment'
             PROVE  enrollment'[i].certificate \in objects' \union {0}
  BY DEF CertificateInv
<1>1. CASE i \notin DOMAIN enrollment
  BY <1>1, StepRows DEF Blank
<1>2. CASE i \in DOMAIN enrollment
  <2>1. \/ enrollment'[i].certificate = enrollment[i].certificate
        \/ \E r \in Requests : /\ request[r].at = "complete"
                               /\ enrollment'[i].certificate = request[r].url
    <3>1. ASSUME NEW r \in Requests, NEW u \in Users, NEW p \in shown,
                 MarkLessonComplete(r, u, p[1], p[2])
          PROVE  enrollment'[i].certificate = enrollment[i].certificate
      BY <1>2, <3>1, Rows DEF MarkLessonComplete, Enrollment
    <3>2. ASSUME NEW r \in Requests, Record(r)
          PROVE  enrollment'[i].certificate = enrollment[i].certificate
      BY <1>2, <3>2, Rows DEF Record, Enrollment
    <3>3. ASSUME NEW r \in Requests, Complete(r)
          PROVE  \/ enrollment'[i].certificate = enrollment[i].certificate
                 \/ request[r].at = "complete" /\ enrollment'[i].certificate = request[r].url
      BY <1>2, <3>3, Rows DEF Complete, Enrollment
    <3> QED BY <1>2, <3>1, <3>2, <3>3, RowWork
  <2> QED BY <1>2, <2>1, Remembered DEF CertificateInv, RequestInv
<1> QED BY <1>1, <1>2

-----------------------------------------------------------------------------
(* Quizzes passed.                                                         *)

LEMMA PassInductive ==
  ASSUME TypeOK, RequestInv, PassInv, [Next]_vars
  PROVE  PassInv'
<1> SUFFICES ASSUME NEW i \in passedOnce' \ overwritten'
             PROVE  \E s \in Seconds : enrollment'[i].attempts[s] = "passed"
  BY DEF PassInv, HasPass
<1>1. ASSUME NEW r \in Requests, Record(r), i \in RowsOf(request[r].user, request[r].course)
      PROVE  \E s \in Seconds : enrollment'[i].attempts[s] = "passed"
  <2> DEFINE t == request[r].second
             mine == RowsOf(request[r].user, request[r].course)
  <2>1. t \in Seconds
    BY <1>1 DEF RequestInv, Record
  <2>2. /\ i \in DOMAIN enrollment
        /\ enrollment[i] \in Enrollment
    BY <1>1, Rows DEF RowsOf
  <2>3. \A s \in Seconds : enrollment'[i].attempts[s] =
                             IF s = t THEN Outcome(r) ELSE enrollment[i].attempts[s]
    BY <1>1, <2>1, <2>2 DEF Record, Enrollment
  <2>4. enrollment[i].attempts[t] = "none" /\ i \notin overwritten
    BY <1>1 DEF Record
  <2>5. CASE request[r].passed
    BY <2>1, <2>3, <2>5 DEF Outcome
  <2>6. CASE ~request[r].passed
    <3>1. i \in passedOnce
      BY <1>1, <2>6 DEF Record
    <3>2. PICK s \in Seconds : enrollment[i].attempts[s] = "passed"
      BY <2>4, <3>1 DEF PassInv, HasPass
    <3> QED BY <2>3, <2>4, <3>2
  <2> QED BY <2>5, <2>6
<1>2. ASSUME ~ \E r \in Requests : Record(r) /\ i \in RowsOf(request[r].user, request[r].course)
      PROVE  \E s \in Seconds : enrollment'[i].attempts[s] = "passed"
  <2>1. i \in passedOnce \ overwritten
    <3>1. \/ UNCHANGED <<passedOnce, overwritten>>
          \/ \E r \in Requests : Record(r)
      BY DEF Next, vars, Administer, Create, Update, Delete, CreateLesson, DeleteLesson,
             UpsertQuiz, DeleteQuiz, Study, OpenCourse, EnrollCourse, MarkLessonComplete,
             SubmitQuiz, Continue, Grade, Already, CheckPass, CheckLessons, ReadCourse,
             GenerateCertificate, Complete, Award, CutOff, DeleteAccount, Tick, historyVars
    <3> QED BY <1>2, <3>1 DEF Record
  <2>2. i \in DOMAIN enrollment
    BY <2>1 DEF TypeOK
  <2>3. enrollment'[i].attempts = enrollment[i].attempts
    <3>1. ASSUME NEW r \in Requests, NEW u \in Users, NEW p \in shown,
                 MarkLessonComplete(r, u, p[1], p[2])
          PROVE  enrollment'[i].attempts = enrollment[i].attempts
      BY <2>2, <3>1, Rows DEF MarkLessonComplete, Enrollment
    <3>2. ASSUME NEW r \in Requests, Complete(r)
          PROVE  enrollment'[i].attempts = enrollment[i].attempts
      BY <2>2, <3>2, Rows DEF Complete, Enrollment
    <3> QED BY <1>2, <2>2, <3>1, <3>2, RowWork
  <2> QED BY <2>1, <2>3 DEF PassInv, HasPass
<1> QED BY <1>1, <1>2

-----------------------------------------------------------------------------
(* Completion is not missed.                                               *)

\* Request state s stands for a request on its way to completing row i.
OnTheWay(s, i) ==
  /\ s.user = enrollment[i].owner
  /\ s.course = enrollment[i].course
  /\ \/ s.at \in {"pass", "lessons", "course", "certificate", "complete"}
     \/ s.at = "already" /\ s.passed

\* A request on its way to completing a row with a pass and all lessons done
\* takes its next step towards it, or the row is complete.
LEMMA GoesOn ==
  ASSUME TypeOK, RequestInv, OneRowPerUser,
         NEW r \in Requests, Moves(r), NEW i \in DOMAIN enrollment \ disturbed',
         enrollment[i].owner # Nobody, HasPass(i), AllDone(i), OnTheWay(request[r], i)
  PROVE  enrollment[i].completed \/ enrollment'[i].completed \/ OnTheWay(request'[r], i)
<1> DEFINE mine == RowsOf(request[r].user, request[r].course)
           GoesTo(s) == /\ request' = [request EXCEPT ![r] = [request[r] EXCEPT !.at = s]]
<1> USE Rows
<1>1. i \in mine
  BY DEF OnTheWay, RowsOf
<1>2. request[r] \in Request
  BY DEF TypeOK
<1>3. ASSUME NEW s \in Request, request' = [request EXCEPT ![r] = s],
             s.user = request[r].user, s.course = request[r].course,
             s.at \in {"pass", "lessons", "course", "certificate", "complete"}
      PROVE  OnTheWay(request'[r], i)
  BY <1>3 DEF OnTheWay, TypeOK
<1>4. ASSUME NEW u, NEW c, NEW l, MarkLessonComplete(r, u, c, l) \/ SubmitQuiz(r, u, c)
      PROVE  FALSE
  BY <1>4 DEF MarkLessonComplete, SubmitQuiz, OnTheWay
<1>5. ASSUME NEW correct, Grade(r, correct) \/ Record(r) \/ Award(r)
      PROVE  FALSE
  BY <1>5 DEF Grade, Record, Award, OnTheWay
<1>6. ASSUME NEW answered \in BOOLEAN, Already(r, answered)
      PROVE  OnTheWay(request'[r], i) \/ enrollment[i].completed
  <2>1. request[r].passed
    BY <1>6 DEF Already, OnTheWay
  <2>2. CASE ~ (answered /\ \E k \in mine : enrollment[k].completed)
    <3>1. [request[r] EXCEPT !.at = "pass", !.passed = FALSE] \in Request
      BY <1>2 DEF Request
    <3>2. request' = [request EXCEPT ![r] = [request[r] EXCEPT !.at = "pass", !.passed = FALSE]]
      BY <1>6, <2>1, <2>2 DEF Already
    <3> QED BY <1>2, <1>3, <3>1, <3>2 DEF Request
  <2>3. ASSUME NEW k \in mine, enrollment[k].completed
        PROVE  enrollment[i].completed
    BY <1>1, <2>3 DEF RowsOf, OneRowPerUser
  <2> QED BY <2>2, <2>3
<1>7. CASE CheckPass(r) \/ CheckLessons(r)
  <2>1. \E s \in {"lessons", "course"} : request' = GoTo(r, s)
    BY <1>1, <1>7 DEF CheckPass, CheckLessons
  <2>2. \A s \in {"lessons", "course"} : [request[r] EXCEPT !.at = s] \in Request
    BY <1>2 DEF Request
  <2> QED BY <1>2, <1>3, <2>1, <2>2 DEF GoTo, Request
<1>8. ASSUME NEW answered \in BOOLEAN, ReadCourse(r, answered)
      PROVE  OnTheWay(request'[r], i)
  <2> DEFINE c == request[r].course
             s0 == [request[r] EXCEPT !.at = "complete"]
             s(k) == [request[r] EXCEPT !.at = IF certified[c] THEN "certificate" ELSE "complete",
                                        !.row = k, !.named = badgeNamed[c]]
  <2>1. \/ request' = [request EXCEPT ![r] = s0]
        \/ \E k \in mine : request' = [request EXCEPT ![r] = s(k)]
    BY <1>8 DEF ReadCourse, GoTo
  <2>2. c \in Courses /\ badgeNamed[c] \in BOOLEAN /\ mine \subseteq Nat
    BY <1>2 DEF TypeOK, Request, RowsOf
  <2>3. /\ s0 \in Request /\ s0.user = request[r].user /\ s0.course = request[r].course
        /\ s0.at = "complete"
    BY <1>2 DEF Request
  <2>4. ASSUME NEW k \in mine
        PROVE  /\ s(k) \in Request /\ s(k).user = request[r].user
               /\ s(k).course = request[r].course /\ s(k).at \in {"certificate", "complete"}
    BY <1>2, <2>2 DEF Request
  <2> HIDE DEF s0, s, mine
  <2> QED BY <1>3, <2>1, <2>3, <2>4
<1>9. ASSUME NEW uploaded \in BOOLEAN, GenerateCertificate(r, uploaded)
      PROVE  OnTheWay(request'[r], i)
  <2> DEFINE s == [request[r] EXCEPT !.at = "complete",
                                     !.url = IF uploaded THEN request[r].row ELSE 0]
  <2>1. request[r].row \in Nat
    BY <1>2 DEF Request
  <2>2. /\ s \in Request /\ s.user = request[r].user /\ s.course = request[r].course
        /\ s.at = "complete"
    BY <1>2, <2>1 DEF Request
  <2>3. request' = [request EXCEPT ![r] = s]
    BY <1>9 DEF GenerateCertificate
  <2> HIDE DEF s
  <2> QED BY <1>3, <2>2, <2>3
<1>10. CASE Complete(r)
  BY <1>1, <1>10 DEF Complete, Enrollment
<1>11. CASE CutOff(r)
  BY <1>1, <1>11 DEF CutOff, OnTheWay
<1> QED BY <1>4, <1>5, <1>6, <1>7, <1>8, <1>9, <1>10, <1>11 DEF Moves, Continue

LEMMA ReadyInductive ==
  ASSUME TypeOK, RequestInv, OneRowPerUser, ReadyIsCompleted, [Next]_vars
  PROVE  ReadyIsCompleted'
<1> SUFFICES ASSUME NEW i \in DOMAIN enrollment' \ disturbed',
                    enrollment'[i].owner # Nobody,
                    \E s \in Seconds : enrollment'[i].attempts[s] = "passed",
                    Cardinality(lessons'[enrollment'[i].course]) = Cardinality(enrollment'[i].done)
             PROVE  \/ enrollment'[i].completed
                    \/ \E r \in Requests :
                         /\ request'[r].user = enrollment'[i].owner
                         /\ request'[r].course = enrollment'[i].course
                         /\ \/ request'[r].at \in {"pass", "lessons", "course", "certificate",
                                                   "complete"}
                            \/ request'[r].at = "already" /\ request'[r].passed
  BY DEF ReadyIsCompleted, UnderWay, HasPass, AllDone
<1> DEFINE Goal == enrollment'[i].completed \/ \E r \in Requests : OnTheWay(request'[r], i)
           mine(r) == RowsOf(request[r].user, request[r].course)
<1> USE Rows
<1>1. i \in DOMAIN enrollment
  BY StepRows DEF Blank
<1>2. /\ enrollment'[i].owner = enrollment[i].owner
      /\ enrollment'[i].course = enrollment[i].course
      /\ enrollment[i].completed => enrollment'[i].completed
  BY <1>1, StepRows DEF RowMoves
<1>3. i \notin disturbed
  BY Remembered
<1>4. SUFFICES Goal
  BY <1>2 DEF OnTheWay
<1>5. ASSUME ReadyIsCompleted, HasPass(i), AllDone(i)
      PROVE  Goal
  <2>1. enrollment[i].completed \/ \E q \in Requests : OnTheWay(request[q], i)
    BY <1>1, <1>2, <1>3, <1>5 DEF ReadyIsCompleted, UnderWay, OnTheWay
  <2>2. ASSUME NEW q \in Requests, OnTheWay(request[q], i)
        PROVE  Goal
    <3>1. CASE UNCHANGED request
      BY <2>2, <3>1
    <3>2. ASSUME NEW r \in Requests, Moves(r)
          PROVE  Goal
      <4>1. CASE r = q
        BY <1>1, <1>2, <1>5, <2>2, <3>2, <4>1, GoesOn
      <4>2. CASE r # q
        <5>1. request'[q] = request[q]
          BY <3>2, <4>2, SoundMove DEF TypeOK
        <5> QED BY <2>2, <5>1
      <4> QED BY <4>1, <4>2
    <3> QED BY <3>1, <3>2, RequestCases
  <2> QED BY <1>2, <2>1, <2>2
<1>6. ASSUME NEW r \in Requests, NEW p \in shown, enrollment[i].owner \in Users,
             MarkLessonComplete(r, enrollment[i].owner, p[1], p[2]),
             i \in RowsOf(enrollment[i].owner, p[1])
      PROVE  Goal
  <2>1. request'[r] = [NoRequest EXCEPT !.at = "pass", !.user = enrollment[i].owner, !.course = p[1]]
    BY <1>6 DEF MarkLessonComplete, TypeOK
  <2>2. p[1] = enrollment[i].course
    BY <1>6 DEF RowsOf
  <2> QED BY <2>1, <2>2, NoRequestTyped DEF OnTheWay, Request
<1>7. ASSUME NEW r \in Requests, Record(r), i \in mine(r)
      PROVE  Goal
  <2>1. /\ request'[r] = [request[r] EXCEPT !.at = "already", !.second = 0]
        /\ request[r] \in Request
    BY <1>7 DEF Record, TypeOK
  <2>2. CASE request[r].passed
    BY <1>7, <2>1, <2>2 DEF OnTheWay, Request, RowsOf
  <2>3. CASE ~request[r].passed
    <3>1. request[r].second \in Seconds
      BY <1>7 DEF RequestInv, Record
    <3>2. \A s \in Seconds : enrollment'[i].attempts[s] =
            IF s = request[r].second THEN Outcome(r) ELSE enrollment[i].attempts[s]
      BY <1>1, <1>7, <3>1 DEF Record, Enrollment
    <3>3. HasPass(i)
      BY <2>3, <3>1, <3>2 DEF HasPass, Outcome
    <3>4. AllDone(i)
      <4>1. enrollment'[i].done = enrollment[i].done /\ lessons' = lessons
        BY <1>1, <1>7 DEF Record, Enrollment, courseVars
      <4> QED BY <1>2, <4>1 DEF AllDone
    <3> QED BY <1>5, <3>3, <3>4
  <2> QED BY <2>2, <2>3
<1>8. ASSUME enrollment'[i].done = enrollment[i].done,
             enrollment'[i].attempts = enrollment[i].attempts
      PROVE  Goal
  <2>1. HasPass(i)
    BY <1>8 DEF HasPass
  <2>2. lessons'[enrollment[i].course] = lessons[enrollment[i].course]
    <3>1. ASSUME NEW c \in Courses, NEW l \in LessonIds, CreateLesson(c, l) \/ DeleteLesson(c, l)
          PROVE  lessons'[enrollment[i].course] = lessons[enrollment[i].course]
      <4>1. i \notin RowsIn(c)
        BY <3>1 DEF CreateLesson, DeleteLesson
      <4>2. enrollment[i].course # c
        BY <1>1, <4>1 DEF RowsIn
      <4>3. \E ls : lessons' = [lessons EXCEPT ![c] = ls]
        BY <3>1 DEF CreateLesson, DeleteLesson
      <4> QED BY <1>1, <4>2, <4>3 DEF TypeOK, Enrollment
    <3>2. ASSUME NEW c \in Courses, Delete(c)
          PROVE  lessons'[enrollment[i].course] = lessons[enrollment[i].course]
      <4>1. i \notin RowsIn(c)
        BY <1>1, <3>2 DEF Delete, Enrollment
      <4>2. enrollment[i].course # c
        BY <1>1, <4>1 DEF RowsIn
      <4> QED BY <3>2, <4>2 DEF Delete, TypeOK
    <3>3. \/ UNCHANGED lessons
          \/ \E c \in Courses, l \in LessonIds : CreateLesson(c, l) \/ DeleteLesson(c, l)
          \/ \E c \in Courses : Delete(c)
      BY DEF Next, vars, Administer, Create, Update, UpsertQuiz, DeleteQuiz, Study, OpenCourse,
             EnrollCourse, MarkLessonComplete, SubmitQuiz, Continue, Grade, Record, Already,
             CheckPass, CheckLessons, ReadCourse, GenerateCertificate, Complete, Award, CutOff,
             DeleteAccount, Tick, courseVars
    <3> QED BY <3>1, <3>2, <3>3
  <2>3. AllDone(i)
    BY <1>2, <1>8, <2>2 DEF AllDone
  <2> QED BY <1>5, <2>1, <2>3
<1>9. ASSUME NEW r \in Requests, Complete(r), i \in mine(r), ~enrollment[i].completed
      PROVE  Goal
  BY <1>1, <1>9 DEF Complete, Enrollment
<1> QED BY <1>1, <1>6, <1>7, <1>8, <1>9, RowWork

-----------------------------------------------------------------------------
(* Completion gives its badge.                                             *)

LEMMA BadgeInductive ==
  ASSUME TypeOK, RequestInv, CompletedHasBadge, [Next]_vars
  PROVE  CompletedHasBadge'
<1> SUFFICES ASSUME NEW i \in DOMAIN enrollment' \ unbadged',
                    enrollment'[i].owner # Nobody, enrollment'[i].completed
             PROVE  \/ <<enrollment'[i].owner, enrollment'[i].course>> \in badges'
                    \/ \E r \in Requests : /\ request'[r].at = "award"
                                           /\ request'[r].user = enrollment'[i].owner
                                           /\ request'[r].course = enrollment'[i].course
  BY DEF CompletedHasBadge
<1> DEFINE u == enrollment[i].owner
           c == enrollment[i].course
           Goal == \/ <<u, c>> \in badges'
                   \/ \E r \in Requests : /\ request'[r].at = "award"
                                          /\ request'[r].user = u
                                          /\ request'[r].course = c
<1> USE Rows
<1>1. i \in DOMAIN enrollment /\ i \notin unbadged
  BY StepRows, Remembered DEF Blank
<1>2. enrollment'[i].owner = u /\ enrollment'[i].course = c /\ u # Nobody
  BY <1>1, StepRows DEF RowMoves
<1>3. CASE enrollment[i].completed
  <2>1. CASE <<u, c>> \in badges
    BY <1>2, <2>1, Remembered
  <2>2. ASSUME NEW q \in Requests, request[q].at = "award",
               request[q].user = u, request[q].course = c
        PROVE  Goal
    <3>1. CASE UNCHANGED request
      BY <2>2, <3>1
    <3>2. ASSUME NEW r \in Requests, Moves(r), r # q
          PROVE  Goal
      <4>1. request'[q] = request[q]
        BY <3>2, SoundMove DEF TypeOK
      <4> QED BY <2>2, <4>1
    <3>3. CASE Moves(q)
      <4>1. Award(q) \/ CutOff(q)
        BY <2>2, <3>3 DEF Moves, Continue, MarkLessonComplete, SubmitQuiz, Grade, Record, Already,
                          CheckPass, CheckLessons, ReadCourse, GenerateCertificate, Complete
      <4>2. i \in RowsOf(request[q].user, request[q].course)
        BY <1>1, <2>2 DEF RowsOf
      <4> QED BY <2>2, <4>1, <4>2 DEF Award, CutOff
    <3> QED BY <3>1, <3>2, <3>3, RequestCases
  <2> QED BY <1>1, <1>2, <1>3, <2>1, <2>2 DEF CompletedHasBadge
<1>4. CASE ~enrollment[i].completed
  <2>1. PICK r \in Requests : Complete(r) /\ i \in RowsOf(request[r].user, request[r].course)
    <3>1. ASSUME NEW r \in Requests, NEW p \in shown,
                 MarkLessonComplete(r, enrollment[i].owner, p[1], p[2])
          PROVE  FALSE
      BY <1>1, <1>4, <3>1 DEF MarkLessonComplete, Enrollment
    <3>2. ASSUME NEW r \in Requests, Record(r)
          PROVE  FALSE
      BY <1>1, <1>4, <3>2 DEF Record, Enrollment
    <3> QED BY <1>1, <1>4, <3>1, <3>2, RowWork
  <2>2. request[r].named
    BY <1>4, <2>1 DEF Complete
  <2>3. request'[r] = [request[r] EXCEPT !.at = "award"] /\ request[r] \in Request
    BY <2>1, <2>2 DEF Complete, AfterComplete, GoTo, TypeOK
  <2> QED BY <1>2, <2>1, <2>3 DEF Request, RowsOf
<1> QED BY <1>2, <1>3, <1>4

-----------------------------------------------------------------------------
(* Theorems.                                                               *)

LEMMA Initially ==
  ASSUME Init
  PROVE  TypeOK /\ CourseInv
<1>1. enrollment = <<>> /\ DOMAIN enrollment = {} /\ enrollment \in Seq(Enrollment)
  BY EmptySeq DEF Init
<1>2. TypeOK
  BY <1>1, NoRequestTyped, CourseAssumption DEF Init, TypeOK, Seconds
<1>3. CourseInv
  BY <1>1, NoRequestTyped
     DEF Init, CourseInv, OneRowPerUser, RequestInv, CertificateInv, PassInv, ReadyIsCompleted,
         CompletedHasBadge
<1> QED BY <1>2, <1>3

LEMMA Inductive ==
  ASSUME TypeOK, CourseInv, [Next]_vars
  PROVE  TypeOK' /\ CourseInv'
BY TypeInductive, OneRowInductive, RequestInductive, CertificateInductive, PassInductive,
   ReadyInductive, BadgeInductive
   DEF CourseInv

LEMMA Invariant == Spec => [](TypeOK /\ CourseInv)
BY Initially, Inductive, PTL DEF Spec

\* The tables, the object store and the requests under way have their types in
\* every reachable state, whatever requests run between the statements of others.
THEOREM TypeCorrect == Spec => []TypeOK
BY Invariant, PTL

\* A row with a pass and all lessons done is complete or a request is on the
\* way to completing it, however many requests of one user write and check
\* concurrently, unless its lessons were edited or a request cut off.
THEOREM NoCompletionMissed == Spec => []ReadyIsCompleted
BY Invariant, PTL DEF CourseInv

\* A completed course has given its badge or a request is about to give it,
\* unless it had none when it was read, it could not be read, or the request was
\* cut off before the award.
THEOREM BadgeGiven == Spec => []CompletedHasBadge
BY Invariant, PTL DEF CourseInv

\* A non-empty set of seconds has a latest one.
LEMMA Latest ==
  ASSUME NEW S \in SUBSET Seconds, S # {}
  PROVE  \E s \in S : \A t \in S : t <= s
<1> DEFINE Back == {MaxSecond - s : s \in S}
<1>1. Back \in SUBSET Nat /\ Back # {}
  <2>1. \A s \in S : MaxSecond - s \in Nat
    BY CourseAssumption DEF Seconds
  <2> QED BY <2>1
<1>2. PICK b \in Back : \A d \in Nat : <<d, b>> \in OpToRel(<, Nat) => d \notin Back
  BY <1>1, NatLessThanWellFounded, WFMin
<1>3. PICK s \in S : b = MaxSecond - s
  BY <1>2
<1>4. ASSUME NEW t \in S
      PROVE  t <= s
  <2>1. MaxSecond - t \in Back /\ MaxSecond - t \in Nat /\ b \in Nat
    BY <1>1
  <2>2. ~ (MaxSecond - t < b)
    BY <1>2, <2>1 DEF OpToRel
  <2> QED BY <1>3, <2>2, CourseAssumption DEF Seconds
<1> QED BY <1>4

\* Who has passed a quiz once is shown as having passed, both where a latest
\* passing attempt is looked for and where some passing attempt is.
THEOREM PassesShown == Spec => []PassShown
<1>1. PassInv => PassShown
  <2>1. ASSUME NEW i, HasPass(i)
        PROVE  ProgressPassed(i) /\ ListedPassed(i)
    <3> DEFINE S == {s \in Seconds : enrollment[i].attempts[s] = "passed"}
    <3>1. S \in SUBSET Seconds /\ S # {}
      BY <2>1 DEF HasPass
    <3>2. PICK s \in S : \A t \in S : t <= s
      BY <3>1, Latest
    <3> QED BY <3>2 DEF ProgressPassed, ListedPassed
  <2> QED BY <2>1 DEF PassInv, PassShown
<1> QED BY <1>1, Invariant, PTL DEF CourseInv

\* A certificate that is served was uploaded before and stays the one that is
\* served.
THEOREM CertificateStays == Spec => CertificateKept
<1>1. TypeOK /\ CourseInv /\ [Next]_vars
      => [/\ \A i \in DOMAIN enrollment : Certificate(i) # 0 => Certificate(i)' = Certificate(i)
          /\ \A i \in DOMAIN enrollment' : Certificate(i)' # 0 => Certificate(i)' \in objects']_vars
  <2> SUFFICES ASSUME TypeOK, CourseInv, [Next]_vars
               PROVE  /\ \A i \in DOMAIN enrollment :
                           Certificate(i) # 0 => Certificate(i)' = Certificate(i)
                      /\ \A i \in DOMAIN enrollment' :
                           Certificate(i)' # 0 => Certificate(i)' \in objects'
    OBVIOUS
  <2>1. ASSUME NEW i \in DOMAIN enrollment, Certificate(i) # 0
        PROVE  Certificate(i)' = Certificate(i)
    BY <2>1, StepRows DEF Certificate, RowMoves, CourseInv
  <2>2. ASSUME NEW i \in DOMAIN enrollment', Certificate(i)' # 0
        PROVE  Certificate(i)' \in objects'
    BY <2>2, CertificateInductive DEF Certificate, CertificateInv, CourseInv
  <2> QED BY <2>1, <2>2
<1> QED BY <1>1, Invariant, PTL DEF Spec, CertificateKept

\* Badges come from the course a request found complete and are never taken
\* back: every step is one of the ledger's or changes no badge.
THEOREM Implementation == Spec => ImplementsBadgeLedger
<1>1. Init => Ledger!Init
  BY DEF Init, Ledger!Init
<1>2. TypeOK /\ CourseInv /\ [Next]_vars => [Ledger!Next]_(Ledger!ledgerVars)
  <2> SUFFICES ASSUME TypeOK, CourseInv, [Next]_vars
               PROVE  [Ledger!Next]_(Ledger!ledgerVars)
    OBVIOUS
  <2>1. \A r \in Requests : request[r].at # "idle" => request[r].user \in Users
    BY DEF CourseInv, RequestInv
  <2>2. ASSUME NEW r \in Requests, CheckLessons(r)
        PROVE  [Ledger!Next]_(Ledger!ledgerVars)
    <3>1. CASE UNCHANGED earned
      BY <2>2, <3>1 DEF CheckLessons, Ledger!ledgerVars
    <3>2. CASE earned' = earned \union {<<request[r].user, request[r].course>>}
      <4>1. Ledger!Earn(request[r].user, request[r].course)
        BY <2>2, <3>2 DEF CheckLessons, Ledger!Earn
      <4> QED BY <2>1, <2>2, <4>1, AtWork DEF CheckLessons, Ledger!Next
    <3> QED BY <2>2, <3>1, <3>2 DEF CheckLessons
  <2>3. ASSUME NEW r \in Requests, Award(r)
        PROVE  Ledger!Next
    <3>1. <<request[r].user, request[r].course>> \in earned
      BY <2>3 DEF CourseInv, RequestInv, Award
    <3>2. Ledger!Give(request[r].user, request[r].course)
      BY <2>3, <3>1 DEF Award, historyVars, Ledger!Give
    <3> QED BY <2>1, <2>3, <3>2, AtWork DEF Award, Ledger!Next
  <2>4. UNCHANGED <<earned, badges>> \/ \E r \in Requests : CheckLessons(r) \/ Award(r)
    BY DEF Next, vars, Administer, Create, Update, Delete, CreateLesson, DeleteLesson, UpsertQuiz,
           DeleteQuiz, Study, OpenCourse, EnrollCourse, MarkLessonComplete, SubmitQuiz, Continue,
           Grade, Record, Already, CheckPass, ReadCourse, GenerateCertificate, Complete, CutOff,
           DeleteAccount, Tick, historyVars
  <2>5. UNCHANGED <<earned, badges>> => UNCHANGED Ledger!ledgerVars
    BY DEF Ledger!ledgerVars
  <2> QED BY <2>2, <2>3, <2>4, <2>5
<1> QED BY <1>1, <1>2, Invariant, PTL DEF Spec, ImplementsBadgeLedger, Ledger!Spec
=============================================================================
