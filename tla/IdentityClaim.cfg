SPECIFICATION Spec
CONSTANTS
  Accounts = {u1, u2}
  Names <- MCNames
  Labels = {"ann", "covers", "photos"}
  Variables = {"MAIL", "SUBJECT"}
  Accountable = {"p0", "p1"}
  Values = {"ann", "bob"}
  Environment <- MCEnvironment
  Policy <- MCPolicy
  Name = "ann"
  Undeclared = {"stray"}
  Copied <- People
  Objects = {1, 2}
  Bucket <- Places
  MaxOwn = 2
  None = None
INVARIANTS
  ClaimIsWhole
PROPERTIES
  OwnDataKept
  NeverMixed
SYMMETRY Same
