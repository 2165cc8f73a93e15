\* Two pay requests race each other, the sweeps and the owner on one hold; two attempts in a session, replayed and reordered.
SPECIFICATION Spec
CONSTANTS
  Bookings = {b1}
  Orders = {o1, o2}
  Payers = {p1, p2}
  Handlers = {h1}
  Readers = {}
  Keys = {k1}
  Attempts = 2
  ProviderMay = {"deny"}
  MaxFaults = 1
  None = none
CHECK_DEADLOCK FALSE
SYMMETRY PaymentSymmetry
INVARIANTS
  OneOpenSession
  SettledMoneyIsVisible
PROPERTIES
  SessionsAreForHolds
  NothingIsUndone
