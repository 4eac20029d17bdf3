----------------------------- MODULE MCBooking -----------------------------
(***************************************************************************)
(* A small booking context for TLC: one room, two guests (one of them also *)
(* the host), an hour of four units, and two starts whose slots overlap    *)
(* when the slot is long and touch when it is short.                       *)
(***************************************************************************)
EXTENDS BookingInvariant, TLC

CONSTANTS alice, bob, suite

MCUsers == {alice, bob}
MCHosts == {alice}
MCRooms == {suite}

\* Start 3 is aligned with a slot of 3 units and misaligned with one of 2.
MCStarts     == {3, 4}
MCSlotMins   == {2, 3}
MCHourLength == 4
\* Past 3, the first start is in the past.
MCOpening == 3
MCClosing == 4
MCInstants == 0 .. 8

Held(startAt, userId, endAt) ==
  [token |-> [roomId |-> suite, startAt |-> startAt, userId |-> userId],
   endAt |-> endAt]

\* Two guests over one instant, two that touch, and one who holds both starts.
MCCarriedHolds ==
  {Held(3, alice, 4), Held(3, alice, 6), Held(4, bob, 6), Held(4, alice, 6)}

MCCarriedLocks == {[roomId |-> suite, startAt |-> 3]}

NoneCarried == {}

\* One start, so that a third request fits.
OneStart == {3}
OneStartHolds == {Held(3, alice, 5), Held(3, bob, 6)}

MCSymmetry == Permutations(Requests)
=============================================================================
