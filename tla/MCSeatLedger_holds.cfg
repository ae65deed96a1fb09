SPECIFICATION Spec
CONSTANTS
  Days = {mon}
  Times = {am}
  Holders = {ana}
  Addresses = {wifi}
  AddressOf <- AnyAddress
  MaxHoldsPerIp = 5
  Requests = {r1}
  Workers = {}
  InitialCapacity <- EverySlot
  Overrides <- NoOverrides
  RepairsAnytime = FALSE
  Mortal = {r1}
  NoSlot = NoSlot
  NoHolder = NoHolder
  NoCar = NoCar
  Purges = FALSE
  a1 = a1
  a2 = a2
  b1 = b1
  visitA = visitA
  visitB = visitB
  Cars = {a1, a2, b1}
  Visits = {visitA, visitB}
  VisitOf <- CarVisit
  Offset <- CarOrder
  Seats = 1
  PerDay = 2
  DayLimit <- EveryDay
INVARIANT HoldsBacked
INVARIANT SeatsCounted
PROPERTY HeldSeatsKept
INVARIANT NoGhostHolder
PROPERTY SeatsSoldAsPromised
SYMMETRY SameRequests
