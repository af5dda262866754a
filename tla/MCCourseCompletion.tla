------------------------- MODULE MCCourseCompletion -------------------------
(***************************************************************************)
(* A small instance of CourseCompletion.                                   *)
(***************************************************************************)
EXTENDS CourseCompletion, TLC

\* Three questions of which two are needed, and a quiz that takes all three:
\* two of three correct answers are 66 per cent.
Forms == {[questions |-> 3, threshold |-> 66], [questions |-> 3, threshold |-> 67]}

Interchangeable == Permutations(Requests) \union Permutations(LessonIds)
=============================================================================
