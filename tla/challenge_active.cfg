\* One participant, one challenge, one review.
SPECIFICATION Spec
CONSTANTS
  Users = {u1}
  Nobody = Nobody
  Challenges = {c1}
  Reviews = {v1}
  ListLimit = 50
  MaxRows = 1
PROPERTIES
  OnlyActiveAccept
CHECK_DEADLOCK FALSE
