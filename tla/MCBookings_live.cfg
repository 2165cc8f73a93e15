\* Two requests against two units, one of which the owner archives, restores and deletes;
\* transactions of any length, a party that does not fit and a unit without a gateway.
SPECIFICATION FairSpec
CONSTANTS
  Requests = {r1, r2}
  Units = {u1, u2}
  RetirableUnits = {u1}
  LastDay = 1
  HoldTtl = 1
  MaxClock = 2
  TxnLimit = 2
  MinStay <- NoHouseRules
  MaxGuests <- NoHouseRules
  PartySizes = {1, 2}
  PaymentsConfigured = {u1}
  Nobody = nobody
CHECK_DEADLOCK FALSE
INVARIANTS
  LedgerKeepsItsUnit
  ArchivedUnitTakesNoNewSale
PROPERTIES
  ImplementsCalendar
  EveryRequestAnswered
  LapsedHoldIsFreed
