SPECIFICATION UndisturbedSpec
CONSTANTS
  Days = {mon, tue}
  Times = {am, pm}
  Holders = {}
  Addresses = {wifi}
  AddressOf <- AnyAddress
  MaxHoldsPerIp = 5
  Requests = {}
  Workers = {}
  InitialCapacity <- EverySlot
  Overrides <- NoOverrides
  RepairsAnytime = FALSE
  Mortal = {}
  NoSlot = NoSlot
  NoHolder = NoHolder
  NoCar = NoCar
  Purges = TRUE
  a1 = a1
  a2 = a2
  b1 = b1
  visitA = visitA
  visitB = visitB
  Cars = {a1, a2}
  Visits = {visitA}
  VisitOf <- CarVisit
  Offset <- CarOrder
  Seats = 2
  PerDay = 2
  DayLimit <- EveryDay
INVARIANT DayCounted
INVARIANT EveryCarSeated
INVARIANT HolderSitsInItsSeat
INVARIANT OneSeatPerSlot
SYMMETRY SameSlots
