\* Three requests race for two nights of one unit.
SPECIFICATION Spec
CONSTANTS
  Requests = {r1, r2, r3}
  Units = {u1}
  RetirableUnits = {}
  LastDay = 2
  HoldTtl = 1
  MaxClock = 2
  TxnLimit = 1
  MinStay <- NoHouseRules
  MaxGuests <- NoHouseRules
  PartySizes = {1}
  PaymentsConfigured = {u1}
  Nobody = nobody
SYMMETRY RequestSymmetry
CHECK_DEADLOCK FALSE
INVARIANTS
  WriteProtocol
  NoDoubleBooking
PROPERTIES
  DeadBookingsStayDead
  OverlapIsNeverADeadHold
