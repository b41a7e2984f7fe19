SPECIFICATION AccessSpec
CONSTANTS
  Browsers = {b1, b2}
  Persons = {u}
  Partners = {p1, p2}
  Codes = {k1, k2}
  JobIds = {j1}
  RoleNames = {"PartnerAdmin"}
  NoOne = NoOne
SYMMETRY MCSymmetry
INVARIANT SessionsAreSound
INVARIANT JobsStayWithTheirTenant
CHECK_DEADLOCK FALSE
