------------------------- MODULE ScheduleInvariant -------------------------
(***************************************************************************)
(* The inductive invariant behind the safety properties of RoomSchedule.   *)
(*                                                                         *)
(* The argument: no row leaves the bookings table and no answered request  *)
(* or query moves again.  So what a guest had been told, and what an       *)
(* earlier query had read, when a query began is still in the table when   *)
(* that query reads it, and the answer shows a day as BOOKED exactly for   *)
(* the rows it has read.                                                   *)
(***************************************************************************)
EXTENDS RoomSchedule, BookingInvariant

\* Query q is past its SELECT.
HasRead(q) == query[q].stage = "keys" \/ Answered(q)

\* The rows that were known to somebody outside when q began: those of the
\* confirmed requests, and those earlier answers were made of.
KnownRows(q) ==
  {ConfirmedRow(r) : r \in query[q].told}
    \cup UNION {query[p].rows : p \in query[q].earlier}

\* room_id REFERENCES rooms, for the whole table.
RowsHaveRooms == \A row \in bookings : rooms[row.roomId] # Null

HistoryStands ==
  \A q \in Queries :
    /\ \A r \in query[q].told : Confirmed(r)
    /\ \A p \in query[q].earlier : Answered(p)

\* Whoever asks about the room he has booked is asking about days.
KnownRoomHasDays ==
  \A q \in Queries :
    /\ Answering(q) \/ Answered(q)
    /\ \E r \in query[q].told : req[r].token.roomId = query[q].roomId
    => query[q].window # {}

ReadRowsStand ==
  \A q \in Queries : \A row \in query[q].rows :
    row \in bookings /\ row.roomId = query[q].roomId

KnownRowsRead ==
  \A q \in Queries : HasRead(q) =>
    \A row \in KnownRows(q), day \in query[q].window :
      row.roomId = query[q].roomId /\ RowTouches(row, day)
        => row \in query[q].rows

DaysShowRows ==
  \A q \in Queries : Answered(q) =>
    \A day \in query[q].window :
      query[q].days[day] = "BOOKED" <=>
        \E row \in query[q].rows : RowTouches(row, day)

\* What the schedule query keeps true next to the booking handlers: the rows that
\* somebody outside knew of when it began are among those it has read, and the
\* days it answers with are those of the rows it has read.
ScheduleInv ==
  /\ IInv
  /\ ScheduleTypeOK
  /\ RowsHaveRooms
  /\ HistoryStands
  /\ KnownRoomHasDays
  /\ ReadRowsStand
  /\ KnownRowsRead
  /\ DaysShowRows
=============================================================================
