CONSTANTS
  Null = Null
  alice = alice
  bob = bob
  suite = suite
  Earlier = Earlier
  Requests = {r1, r2}
  EndAtNullable = TRUE
  FaultsPossible = FALSE
  RoomIds <- MCRooms
  Users <- MCUsers
  Hosts <- MCHosts
  Starts <- MCStarts
  SlotMins <- MCSlotMins
  HourLength <- MCHourLength
  Opening <- MCOpening
  Closing <- MCClosing
  Instants <- MCInstants
  CarriedHolds <- NoneCarried
  CarriedLocks <- MCCarriedLocks
SPECIFICATION Spec
SYMMETRY MCSymmetry
INVARIANTS
  RefusedLeavesNoRow
