SPECIFICATION Spec
CONSTANTS
  root = root
  ann = ann
  bob = bob
  cho = cho
  p0000 = p0000
  p1234 = p1234
  Names <- MCNames
  Root = root
  Passwords <- MCPasswords
  DefaultPassword = p0000
  MAX_USER = 3
  NoUser = NoUser
  Deleted = Deleted
SYMMETRY Symmetry
INVARIANTS
  RootFirst
  Acknowledged
  
