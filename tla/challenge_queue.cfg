\* Two participants of one challenge; the queue has room for both.
SPECIFICATION Spec
CONSTANTS
  Users = {u1, u2}
  Nobody = Nobody
  Challenges = {c1}
  Reviews = {v1}
  ListLimit = 50
  MaxRows = 2
INVARIANTS
  SubmittedIsVisible
CHECK_DEADLOCK FALSE
