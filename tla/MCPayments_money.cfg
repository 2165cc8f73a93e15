\* One attempt per session; wrong amounts, refunds and a replaced key.
SPECIFICATION Spec
CONSTANTS
  Bookings = {b1}
  Orders = {o1}
  Payers = {p1}
  Handlers = {h1}
  Readers = {r1}
  Keys = {k1, k2}
  Attempts = 1
  ProviderMay = {"misreport", "refund"}
  MaxFaults = 1
  None = none
CHECK_DEADLOCK FALSE
SYMMETRY PaymentSymmetry
INVARIANTS
  ConfirmedIsPaidFor
  MailedAtMostOnce
