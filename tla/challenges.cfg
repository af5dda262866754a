\* Safety: two users, two challenges, two concurrent reviews, two rows.
SPECIFICATION Spec
CONSTANTS
  Users = {u1, u2}
  Nobody = Nobody
  Challenges = {c1, c2}
  Reviews = {v1, v2}
  ListLimit = 1
  MaxRows = 2
SYMMETRY Interchangeable
INVARIANTS
  TypeOK
  ApprovedHasEvidence
  AwardedRowHasBadge
PROPERTIES
  ImplementsBadgeLedger
CHECK_DEADLOCK FALSE
