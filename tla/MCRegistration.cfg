\* Three clients, two invites, lost answers, retries, crashes and expiry.  A day
\* has one second of one millisecond, and an expiry of eight days wraps around to
\* nothing.
SPECIFICATION Spec
CONSTANTS
  Users = {u1, u2, u3}
  Invites = {i1, i2}
  Recoveries = {r1}
  NULL = NULL
  Names = {NULL, alice, toolong}
  ValidNames = {NULL, alice}
  Limits = {2}
  ExpiryDays = {1, 8}
  SecsPerDay = 1
  MsPerSec = 1
  U32 = 8
  MaxHold = 1
  MaxTime = 2
  MaxCalls = 3
SYMMETRY Symmetry
INVARIANTS
  TypeOK
  InviteLimitKept
  RegisteredInTime
  SavedIsRegistered
PROPERTIES
  RegistrationPermanent
CHECK_DEADLOCK FALSE
