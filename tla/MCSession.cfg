SPECIFICATION Spec
CONSTANTS
  m1 = m1
  m2 = m2
  A = A
  B = B
  c1 = c1
  c2 = c2
  None = None
  Machines = {m1, m2}
  Users = {A, B}
  Codes = {c1, c2}
  MaxPat = 2
  MaxClicks = 7
  MaxFaults = 2
SYMMETRY Symmetry
INVARIANTS
  TypeOK
  KeptLoginHasRow
  NoOrphans
  SuccessIsComplete
  MailedCodeWorks
CHECK_DEADLOCK FALSE
