CONSTANTS
  Null = Null
  alice = alice
  bob = bob
  suite = suite
  Earlier = Earlier
  Requests = {r1, r2}
  EndAtNullable = FALSE
  FaultsPossible = FALSE
  RoomIds <- MCRooms
  Users <- MCUsers
  Hosts <- MCHosts
  Starts <- MCStarts
  SlotMins <- MCSlotMins
  HourLength <- MCHourLength
  Opening <- MCOpening
  Closing <- MCClosing
  Instants <- MCInstants
  CarriedHolds <- NoneCarried
  CarriedLocks <- NoneCarried
SPECIFICATION Spec
SYMMETRY MCSymmetry
INVARIANTS
  ConflictMeansTaken
