CONSTANTS
  Null = Null
  alice = alice
  bob = bob
  suite = suite
  Earlier = Earlier
  Requests = {r1, r2}
  EndAtNullable = TRUE
  FaultsPossible = TRUE
  RoomIds <- MCRooms
  Users <- MCUsers
  Hosts <- MCHosts
  Starts <- MCStarts
  SlotMins <- MCSlotMins
  HourLength <- MCHourLength
  Opening <- MCOpening
  Closing <- MCOpening
  Instants <- MCInstants
  CarriedHolds <- MCCarriedHolds
  CarriedLocks <- MCCarriedLocks
SPECIFICATION Spec
SYMMETRY MCSymmetry
INVARIANTS
  TypeOK
  SlotSoldOnce
  HeldSlotNotSold
  LiveHoldsApart
PROPERTIES
  ImplementsCalendar
