--------------------------- MODULE MCRoomSchedule ---------------------------
(***************************************************************************)
(* Days of one hour, so that a slot that starts at 3 runs past a midnight  *)
(* (at 4), and windows of two days that share the day after it.            *)
(***************************************************************************)
EXTENDS ScheduleInvariant, TLC

CONSTANTS alice, suite

MCUsers == {alice}
MCHosts == {alice}
MCRooms == {suite}

MCStarts     == {3, 4}
MCSlotMins   == {2}
MCHourLength == 4
MCOpening    == 3
MCClosing    == 3
MCInstants   == {}

MCDayLength == 4
\* Neither is a midnight: the window starts at 0 or at 4.
MCFromTimes == {3, 5}
MCDayCounts == {2}

Held(startAt, userId, endAt) ==
  [token |-> [roomId |-> suite, startAt |-> startAt, userId |-> userId],
   endAt |-> endAt]

\* Stays that end at midnight, cross it, and start at it.
MCCarriedHolds == {Held(3, alice, 4), Held(3, alice, 5), Held(4, alice, 6)}
MCCarriedLocks == {}

MCSymmetry == Permutations(Requests) \cup Permutations(Queries)
=============================================================================
