CONSTANTS
  Conns = {c1, c2, c3}
  Users = {u1}
  NoUser = NoUser
  MaxFailures = 2
  Window = 3
  Lockout = 2
  MaxTime = 6
SPECIFICATION LoginSpec
SYMMETRY Symmetry
INVARIANTS
  LoginTypeOK
  GuessesBounded
  LockedForCause
PROPERTIES
  LockoutHolds
