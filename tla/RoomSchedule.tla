---------------------------- MODULE RoomSchedule ----------------------------
(***************************************************************************)
(* POST /rooms/:id/schedule (GetRoomDailyScheduleHandler): a calendar of a *)
(* room, one status per day, put together from a read of the bookings      *)
(* table and two scans of Redis while the booking handlers run.            *)
(*                                                                         *)
(* A query is a state machine like a request of Booking.  Its reads are    *)
(* not one snapshot: rows and keys come and go between them.               *)
(***************************************************************************)
EXTENDS Booking

CONSTANTS
  Queries,    \* the schedules clients ask for; each is used at most once
  DayLength,  \* clock units in a day
  FromTimes,  \* the instants clients name as "from"
  DayCounts   \* the numbers of days they name, @Min(1) of the DTO

ASSUME ScheduleAssumption ==
  /\ DayLength \in Nat \ {0}
  /\ FromTimes \subseteq Nat
  /\ DayCounts \subseteq Nat \ {0}
  /\ Queries \cap Requests = {}

VARIABLE query  \* the locals of the handler that serves each query

scheduleVars == <<vars, query>>

-----------------------------------------------------------------------------
DayStatus == {"FREE", "HELD", "BOOKED"}

\* The midnight of "from" in UTC and the count - 1 midnights after it.
WindowFrom(from, count) ==
  {from - (from % DayLength) + i * DayLength : i \in 0 .. count - 1}

\* The midnights a query can ask about.
Days == UNION {WindowFrom(from, count) : from \in FromTimes, count \in DayCounts}

\* An answer: the status of each day of the window; empty for an unknown room.
Schedules == UNION {[window -> DayStatus] : window \in SUBSET Days}
NoDays == [day \in {} |-> "FREE"]

\* told and earlier are history: they record what had been answered when the
\* query began, and no action reads them.
QueryRecords ==
  [stage   : {"idle", "rows", "keys", "replied", "failed", "lost"},
   roomId  : RoomIds \cup {Null},
   window  : SUBSET Days,
   slot    : SlotMins \cup {Null},
   rows    : SUBSET Rows,
   days    : Schedules,
   told    : SUBSET Requests,
   earlier : SUBSET Queries]

NoQuery == [stage |-> "idle", roomId |-> Null, window |-> {}, slot |-> Null,
            rows |-> {}, days |-> NoDays, told |-> {}, earlier |-> {}]

ScheduleTypeOK == TypeOK /\ query \in [Queries -> QueryRecords]

Answering(q) == query[q].stage \in {"rows", "keys"}
Answered(q)  == query[q].stage = "replied"

-----------------------------------------------------------------------------
(* The handler *)

\* rooms.findOne answers.  A room that is not there has no days.
FindScheduleRoom(q, roomId, from, count) ==
  /\ query[q].stage = "idle"
  /\ query' = [query EXCEPT ![q] =
       [NoQuery EXCEPT
          !.stage   = IF rooms[roomId] = Null THEN "replied" ELSE "rows",
          !.roomId  = roomId,
          !.window  = IF rooms[roomId] = Null THEN {} ELSE WindowFrom(from, count),
          !.slot    = IF rooms[roomId] = Null THEN Null
                      ELSE rooms[roomId].slotDurationMin,
          !.told    = {r \in Requests : Confirmed(r)},
          !.earlier = {p \in Queries : Answered(p)}]]

\* [start, end) shares an instant with the day.
Touches(startAt, endAt, day) == startAt < day + DayLength /\ endAt > day

\* Faulty variant: the end of the range is inclusive.
TouchesAtEnd(row, day) ==
  row.endAt # Null /\ row.startAt < day + DayLength /\ row.endAt >= day

\* Faulty variant: a row belongs to the day it starts on.
StartsOn(row, day) ==
  row.endAt # Null /\ row.startAt < day + DayLength /\ row.startAt >= day

\* The row of a booking touches the day.  end_at > :from is not true of a NULL,
\* and null > dayStart is false.
RowTouches(row, day) == row.endAt # Null /\ Touches(row.startAt, row.endAt, day)

\* The SELECT: CONFIRMED rows of the room that touch the window.  The window is
\* one stretch of days, so a row touches it exactly when it touches one of them.
RowsRead(q) ==
  {row \in bookings :
     /\ row.roomId = query[q].roomId
     /\ row.status = "CONFIRMED"
     /\ \E day \in query[q].window : RowTouches(row, day)}

ReadRows(q) ==
  /\ query[q].stage = "rows"
  /\ query' = [query EXCEPT ![q].stage = "keys", ![q].rows = RowsRead(q)]

\* The scan of hold:room:<id>:*.  Holds are stored under hold:token:<token>.
HoldRanges == {}

\* lock:room:<id>:<start> split at ':' leaves three parts after the id, for the
\* two colons of the ISO time in <start>.
LockKeyTail == 3

\* The scan of lock:room:<id>:*.  One part would be a start, to which the slot
\* length is added.  Of more, the last two are taken for the two ends: here the
\* minutes and the seconds ("00.000Z"), which are no date, so the key is skipped.
LockRanges(q) ==
  {[startAt |-> key.startAt, endAt |-> key.startAt + query[q].slot] :
     key \in {k \in LockKeys : /\ LockKeyTail = 1
                               /\ k.roomId = query[q].roomId
                               /\ locks[k] # Null}}

\* Faulty variant: the status of the row is shown in place of the day's.
RowStatusShown(rows, held, day) ==
  IF \E row \in rows : RowTouches(row, day) THEN "CONFIRMED" ELSE "FREE"

DayStatusOf(rows, held, day) ==
  IF \E row \in rows : RowTouches(row, day) THEN "BOOKED"
  ELSE IF \E range \in held : Touches(range.startAt, range.endAt, day) THEN "HELD"
  ELSE "FREE"

\* connect, both scans and quit, then the answer.
ScanKeys(q) ==
  /\ query[q].stage = "keys"
  /\ query' = [query EXCEPT
       ![q].stage = "replied",
       ![q].days = [day \in query[q].window |->
                      DayStatusOf(query[q].rows, HoldRanges \cup LockRanges(q), day)]]

\* The call a query awaits is rejected: nothing catches it.
QueryFails(q) ==
  /\ FaultsPossible
  /\ Answering(q)
  /\ query' = [query EXCEPT ![q].stage = "failed"]

-----------------------------------------------------------------------------
(* Queries next to the booking handlers *)

QueryStep(q) ==
  \/ \E roomId \in RoomIds, from \in FromTimes, count \in DayCounts :
       FindScheduleRoom(q, roomId, from, count)
  \/ ReadRows(q)
  \/ ScanKeys(q)
  \/ QueryFails(q)

\* Server processes stop, with the requests and the queries they serve.
ServerStops(gone) ==
  /\ FaultsPossible
  /\ gone # {}
  /\ \A r \in gone \cap Requests : Active(r)
  /\ \A q \in gone \cap Queries : Answering(q)
  /\ LoseRequests(gone)
  /\ query' = [q \in Queries |->
                 IF q \in gone THEN [query[q] EXCEPT !.stage = "lost"] ELSE query[q]]
  /\ UNCHANGED <<rooms, now, stores>>

ScheduleInit == Init /\ query = [q \in Queries |-> NoQuery]

ScheduleNext ==
  \/ \E q \in Queries : QueryStep(q) /\ UNCHANGED vars
  \/ Step /\ UNCHANGED query
  \/ \E gone \in SUBSET (Requests \cup Queries) : ServerStops(gone)

ScheduleSpec == ScheduleInit /\ [][ScheduleNext]_scheduleVars

-----------------------------------------------------------------------------
(* Safety *)

\* A guest who has been told CONFIRMED and then asks sees every day of his stay
\* that he asks for as BOOKED, the day after midnight included.
\* (schedule: the SELECT of lines 37-43 and the status of line 104.)
ConfirmedDaysShown ==
  \A q \in Queries : Answered(q) =>
    \A r \in query[q].told :
      req[r].token.roomId = query[q].roomId =>
        /\ query[q].window # {}
        /\ \A day \in query[q].window :
             Touches(req[r].token.startAt, req[r].endAt, day)
               => query[q].days[day] = "BOOKED"

\* A day shown as BOOKED is a day somebody has bought and keeps: a confirm of
\* this process wrote the row, and the row is still there.
BookedDaysReal ==
  \A q \in Queries : Answered(q) =>
    \A day \in query[q].window :
      query[q].days[day] = "BOOKED" =>
        \E row \in bookings :
          /\ row.roomId = query[q].roomId
          /\ req[row.id].op = "confirm"
          /\ row.endAt > day /\ row.startAt < day + DayLength

\* Time does not run backwards for a client: a day that one answer showed as
\* BOOKED is BOOKED in every answer asked for after it.
BookedStaysBooked ==
  \A q \in Queries : Answered(q) =>
    \A p \in query[q].earlier :
      query[p].roomId = query[q].roomId =>
        \A day \in query[p].window \cap query[q].window :
          query[p].days[day] = "BOOKED" => query[q].days[day] = "BOOKED"
=============================================================================
