CONSTANTS
  Passwords = {p1, p2, p3, p4, p5, p6}
  NoPassword = NoPassword
  Absent = Absent
  Budgets <- MCBudgets
SPECIFICATION FairSpec
INVARIANT
  TypeOK
PROPERTIES
  ClientGetsHashed
  CredentialsProvided
  CopyConverges
CHECK_DEADLOCK FALSE
