\* Accepts, registrations and sessions against an owner who invites, edits and removes.
SPECIFICATION Spec
CONSTANTS
  Emails = {e1}
  Passwords = {pw1, pw2}
  Founded = {t1, t2}
  Fresh = {t3}
  Props = {p1}
  Invites = {i1, i2}
  Creates = {k1}
  Visits = {v1, v2}
  MaxFaults = 1
  None = none
SYMMETRY Interchangeable
CHECK_DEADLOCK FALSE
INVARIANTS
  SpentExactlyOnce
  TokenSeesItsSeat
  RefusalNamesALiveInvite
PROPERTIES
  LiveAccountKeepsItsPassword
