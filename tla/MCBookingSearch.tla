-------------------------- MODULE MCBookingSearch --------------------------
(***************************************************************************)
(* A room with stays that follow each other, one of them without an end as *)
(* a create may leave it, and another room with a stay that starts with    *)
(* one of them.  Two users, each the host of a room.  Pages of one row or  *)
(* two, of which clients may ask for none or three.                        *)
(***************************************************************************)
EXTENDS SearchInvariant

CONSTANTS alice, bob, suite, loft

Stay(id, roomId, userId, startAt, endAt) ==
  [id |-> id, roomId |-> roomId, userId |-> userId, startAt |-> startAt,
   endAt |-> endAt, status |-> "CONFIRMED"]

MCEntries ==
  {Stay(1, suite, alice, 1, 2), Stay(2, suite, bob, 2, 3), Stay(3, suite, alice, 3, 4),
   Stay(4, suite, bob, 3, Null), Stay(5, loft, bob, 2, 3)}
MCInstants == 0 .. 4

MCOwnerOf == [room \in {suite, loft} |-> IF room = suite THEN alice ELSE bob]
MCUsers   == {alice, bob}

MCFilters ==
  {[NoFilter EXCEPT !.roomId = suite], [NoFilter EXCEPT !.userId = bob, !.dateFrom = 2],
   [NoFilter EXCEPT !.roomId = suite, !.dateTo = 3]}
MCPageSizes   == {0, 3}
MCMaxPageSize == 2
=============================================================================
