CONSTANTS
  Null = Null
  alice = alice
  suite = suite
  Earlier = Earlier
  Requests = {r1, r2}
  Queries = {q1, q2}
  EndAtNullable = TRUE
  FaultsPossible = TRUE
  RoomIds <- MCRooms
  Users <- MCUsers
  Hosts <- MCHosts
  Starts <- MCStarts
  SlotMins <- MCSlotMins
  HourLength <- MCHourLength
  Opening <- MCOpening
  Closing <- MCClosing
  Instants <- MCInstants
  CarriedHolds <- MCCarriedHolds
  CarriedLocks <- MCCarriedLocks
  DayLength <- MCDayLength
  FromTimes <- MCFromTimes
  DayCounts <- MCDayCounts
SPECIFICATION ScheduleSpec
SYMMETRY MCSymmetry
INVARIANTS
  ScheduleInv
  ScheduleTypeOK
  ConfirmedDaysShown
  BookedDaysReal
  BookedStaysBooked
