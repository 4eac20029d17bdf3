CONSTANTS
  Null = Null
  alice = alice
  bob = bob
  suite = suite
  Earlier = Earlier
  Requests = {r1, r2, r3}
  EndAtNullable = TRUE
  FaultsPossible = TRUE
  RoomIds <- MCRooms
  Users <- MCUsers
  Hosts <- MCHosts
  Starts <- OneStart
  SlotMins <- MCSlotMins
  HourLength <- MCHourLength
  Opening <- MCOpening
  Closing <- MCClosing
  Instants <- MCInstants
  CarriedHolds <- OneStartHolds
  CarriedLocks <- MCCarriedLocks
SPECIFICATION Spec
SYMMETRY MCSymmetry
INVARIANTS
  IInv
  ConfirmationBacked
  ConfirmedTokenSpent
PROPERTIES
  LocksLeaveByTTL
