\* One user, two concurrent requests, two lessons, two seconds, one edit, one row.
SPECIFICATION Spec
CONSTANTS
  Users = {u1}
  Nobody = Nobody
  Courses = {c1}
  LessonIds = {l1, l2}
  QuizForms <- Forms
  NoQuiz = NoQuiz
  Requests = {r1, r2}
  MaxSecond = 2
  MaxEdits = 1
  MaxRows = 1
SYMMETRY Interchangeable
INVARIANTS
  TypeOK
  ReadyIsCompleted
  CompletedHasBadge
  PassShown
PROPERTIES
  CertificateKept
  ImplementsBadgeLedger
CHECK_DEADLOCK FALSE
