CONSTANTS
  Passwords = {p1, p2, p3, p4, p5, p6}
  NoPassword = NoPassword
  Absent = Absent
  Budgets <- MCOneEdit
SPECIFICATION Spec
INVARIANT
  CredentialsInSync
CHECK_DEADLOCK FALSE
