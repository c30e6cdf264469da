SPECIFICATION Spec
CONSTANTS
  Person = {p1, p2}
  Invite = {i1, i2}
  Request = {r1, r2}
  Serial = TRUE
  Nobody = Nobody
SYMMETRY Requests
INVARIANT OrgHasOwner
PROPERTY OnlyInvitedJoin
CHECK_DEADLOCK FALSE
