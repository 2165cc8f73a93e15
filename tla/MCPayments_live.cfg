\* Two pay requests on two holds of one unit, and deliveries with crashes and repeats.
SPECIFICATION FairSpec
CONSTANTS
  Bookings = {b1, b2}
  Orders = {o1}
  Payers = {p1, p2}
  Handlers = {h1}
  Readers = {}
  Keys = {k1}
  Attempts = 1
  ProviderMay = {}
  MaxFaults = 1
  None = none
CHECK_DEADLOCK FALSE
PROPERTIES
  CapturedIsRecorded
  EveryPayAnswered
