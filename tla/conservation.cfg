\* Safety: three users, one activity, two requests and two reviews.
SPECIFICATION Spec
CONSTANTS
  Users = {u1, u2, u3}
  Nobody = Nobody
  Activities = {a1}
  Limits = {1}
  NoLimit = NoLimit
  Requests = {r1, r2}
  Reviews = {v1, v2}
  ListLimit = 50
  MaxRows = 1
  MaxCount = 2
SYMMETRY Interchangeable
INVARIANTS
  TypeOK
  CountNeverLow
  OverrunIsBounded
  ApprovedRowHasBadge
PROPERTIES
  ImplementsBadgeLedger
CHECK_DEADLOCK FALSE
