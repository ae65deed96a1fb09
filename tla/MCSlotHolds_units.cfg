SPECIFICATION HoldsLiveSpec
CONSTANTS
  Days = {mon}
  Times = {am, pm}
  Holders = {ana}
  Addresses = {wifi}
  AddressOf <- OneAddress
  MaxHoldsPerIp = 2
  Requests = {r1, r2}
  Workers = {w1}
  InitialCapacity <- OneLargeSlot
  Overrides <- ClosedSmall
  RepairsAnytime = FALSE
  Mortal = {w1}
  Small = 2
  Large = 4
  NoSlot = NoSlot
  NoHolder = NoHolder
PROPERTY OnlyKillsLoseUnits
INVARIANT HoldsLeaveRoom
PROPERTY NeverSoldPastCapacity
PROPERTY ExpiredHoldsGo
