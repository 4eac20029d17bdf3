--------------------------- MODULE ScheduleProofs ---------------------------
(***************************************************************************)
(* Proofs about the schedule query, for every set of queries that run next *)
(* to any set of booking requests, with and without faults.                *)
(*                                                                         *)
(* The invariant of the booking context is reused whole: to that context,  *)
(* a step of the composition is a step of its own or a stutter.            *)
(***************************************************************************)
EXTENDS ScheduleInvariant, BookingProofs

-----------------------------------------------------------------------------
(* What the booking context promises its readers *)

\* An answered request does not move again.
LEMMA AnsweredRequestsRest ==
  ASSUME IInv, [Next]_vars, NEW r \in Requests, req[r].stage = "replied"
  PROVE  req'[r] = req[r]
<1>1. ~Active(r) /\ req[r].stage \notin CallStages
  BY DEF Active, ActiveStages, CallStages, CreateStages, ConfirmStages
<1>2. ASSUME NEW q \in Requests, Proceed(q)
      PROVE  req'[r] = req[r]
  BY <1>2 DEF Proceed, InsertBooking, AcquireLock, PutHold, SaveConfirmed, DeleteHold,
              DeleteLock, NotifyConfirmed, Quit, Commit, CarriedOut, Goto, Throw,
              IInv, TypeOK
<1>3. ASSUME NEW q \in Requests, CallRejected(q)
      PROVE  req'[r] = req[r]
  BY <1>1, <1>3 DEF CallRejected, Throw, IInv, TypeOK
<1>4. CASE Crash
  BY <1>1, <1>4 DEF Crash, LoseRequests
<1>5. ASSUME NEW q \in Requests, NEW token \in Tokens, FindRoom(q, token)
      PROVE  req'[r] = req[r]
  BY <1>5 DEF FindRoom, Begin, Refuse, IInv, TypeOK
<1>6. ASSUME NEW q \in Requests, NEW userId \in Users, NEW token \in Tokens,
             GetHold(q, userId, token)
      PROVE  req'[r] = req[r]
  BY <1>6 DEF GetHold, Begin, Refuse, IInv, TypeOK
<1> QED
  BY <1>2, <1>3, <1>4, <1>5, <1>6
     DEF Next, Step, ExpireLock, ExpireHold, Tick, EditRooms, vars

\* What a guest has been told stays true of the same row.
LEMMA ConfirmedStays ==
  ASSUME IInv, [Next]_vars, NEW r \in Requests, Confirmed(r)
  PROVE  /\ req'[r] = req[r] /\ Confirmed(r)'
         /\ ConfirmedRow(r)' = ConfirmedRow(r)
         /\ ConfirmedRow(r) \in bookings
<1>1. req[r].stage = "replied"
  BY DEF Confirmed, Replied, IInv, RequestsWellFormed
<1>2. req'[r] = req[r]
  BY <1>1, AnsweredRequestsRest
<1> QED
  BY <1>2, ToldIsSucceeded DEF Confirmed, Replied, ConfirmedRow, CreatedRow

\* No row leaves the table.
LEMMA RowsStay ==
  ASSUME [Next]_vars
  PROVE  bookings \subseteq bookings'
BY DEF Next, Step, Proceed, InsertBooking, AcquireLock, PutHold, SaveConfirmed,
       DeleteHold, DeleteLock, NotifyConfirmed, Quit, Commit, FindRoom, GetHold,
       CallRejected, Crash, ExpireLock, ExpireHold, Tick, EditRooms, stores, vars

\* No room leaves the catalog.
LEMMA RoomsStay ==
  ASSUME IInv, [Next]_vars, NEW roomId \in RoomIds, rooms[roomId] # Null
  PROVE  rooms'[roomId] # Null
<1>1. rooms \in [RoomIds -> RoomRows \cup {Null}]
  BY DEF IInv, TypeOK, RoomsTypeOK
<1>2. ASSUME NEW userId \in Users, NEW other \in RoomIds, NEW slot \in SlotMins,
             CreateRoom(userId, other, slot)
      PROVE  rooms'[roomId] # Null
  BY <1>1, <1>2 DEF CreateRoom
<1>3. ASSUME NEW userId \in Users, NEW other \in RoomIds, NEW slot \in SlotMins,
             UpdateRoom(userId, other, slot)
      PROVE  rooms'[roomId] # Null
  <2>1. rooms[other] \in RoomRows
    BY <1>1, <1>3 DEF UpdateRoom
  <2>2. [rooms[other] EXCEPT !.slotDurationMin = slot] \in RoomRows
    BY <2>1 DEF RoomRows
  <2> QED
    BY <1>1, <1>3, <2>2, NullIsNoRoom DEF UpdateRoom
<1>4. CASE EditRooms
  BY <1>2, <1>3, <1>4 DEF EditRooms
<1> QED
  BY <1>4 DEF Next, Step, Proceed, InsertBooking, AcquireLock, PutHold, SaveConfirmed,
       DeleteHold, DeleteLock, NotifyConfirmed, Quit, FindRoom, GetHold, CallRejected,
       Crash, ExpireLock, ExpireHold, Tick, vars

LEMMA RowsHaveRoomsStep == IInv /\ RowsHaveRooms /\ [Next]_vars => RowsHaveRooms'
<1> SUFFICES ASSUME IInv, RowsHaveRooms, [Next]_vars, NEW row \in bookings'
             PROVE  rooms'[row.roomId] # Null
  BY DEF RowsHaveRooms
<1>1. CASE row \in bookings
  BY <1>1, RoomsStay DEF RowsHaveRooms, IInv, TypeOK, Rows
<1>2. CASE row \notin bookings
  <2>1. PICK r \in Requests : InsertBooking(r) \/ SaveConfirmed(r)
    BY <1>2 DEF Next, Step, Proceed, AcquireLock, PutHold, DeleteHold, DeleteLock,
         NotifyConfirmed, Quit, FindRoom, GetHold, CallRejected, Crash, ExpireLock,
         ExpireHold, Tick, EditRooms, stores, vars
  <2>2. rooms[row.roomId] # Null
    BY <1>2, <2>1 DEF InsertBooking, SaveConfirmed, Commit, Insertable
  <2> QED
    BY <2>1, <2>2 DEF InsertBooking, SaveConfirmed
<1> QED
  BY <1>1, <1>2

-----------------------------------------------------------------------------
(* The composition runs the booking context unchanged *)

LEMMA BookingsOwnStep ==
  ASSUME TypeOK, [ScheduleNext]_scheduleVars
  PROVE  [Next]_vars
<1>1. ASSUME NEW gone \in SUBSET (Requests \cup Queries), ServerStops(gone)
      PROVE  [Next]_vars
  <2> DEFINE lost == gone \cap Requests
  <2>1. req' = [r \in Requests |->
                  IF r \in lost THEN [req[r] EXCEPT !.stage = "lost"] ELSE req[r]]
    BY <1>1 DEF ServerStops, LoseRequests
  <2>2. CASE lost = {}
    <3>1. req' = req
      BY <2>1, <2>2 DEF TypeOK
    <3> QED
      BY <1>1, <3>1 DEF ServerStops, stores, vars
  <2>3. CASE lost # {}
    <3>1. lost \in SUBSET {r \in Requests : Active(r)}
      BY <1>1 DEF ServerStops
    <3>2. LoseRequests(lost)
      BY <2>1 DEF LoseRequests
    <3>3. Crash
      BY <1>1, <2>3, <3>1, <3>2 DEF Crash, ServerStops
    <3> QED
      BY <3>3 DEF Next
  <2> QED
    BY <2>2, <2>3
<1> QED
  BY <1>1 DEF ScheduleNext, scheduleVars, Next

\* A query that is past its last read does not move again.
LEMMA AnsweredQueriesRest ==
  ASSUME ScheduleTypeOK, [ScheduleNext]_scheduleVars, NEW q \in Queries, Answered(q)
  PROVE  query'[q] = query[q] /\ Answered(q)'
<1>1. query \in [Queries -> QueryRecords] /\ query[q].stage = "replied"
  BY DEF ScheduleTypeOK, Answered
<1>2. ASSUME NEW p \in Queries, QueryStep(p)
      PROVE  query'[q] = query[q]
  BY <1>1, <1>2 DEF QueryStep, FindScheduleRoom, ReadRows, ScanKeys, QueryFails, Answering
<1>3. ASSUME NEW gone \in SUBSET (Requests \cup Queries), ServerStops(gone)
      PROVE  query'[q] = query[q]
  BY <1>1, <1>3 DEF ServerStops, Answering
<1>4. query'[q] = query[q]
  BY <1>2, <1>3 DEF ScheduleNext, scheduleVars
<1> QED
  BY <1>4 DEF Answered

-----------------------------------------------------------------------------
(* Type correctness *)

LEMMA WindowsOfDays ==
  ASSUME NEW from \in FromTimes, NEW count \in DayCounts
  PROVE  WindowFrom(from, count) \subseteq Days /\ WindowFrom(from, count) # {}
<1>1. WindowFrom(from, count) \subseteq Days
  <2> DEFINE windows == {WindowFrom(f, c) : f \in FromTimes, c \in DayCounts}
  <2>1. WindowFrom(from, count) \in windows
    OBVIOUS
  <2> QED
    BY <2>1 DEF Days
<1>2. count \in Nat \ {0}
  BY ScheduleAssumption
<1>3. 0 \in 0 .. count - 1
  BY <1>2
<1>4. from - (from % DayLength) + 0 * DayLength \in WindowFrom(from, count)
  BY <1>3 DEF WindowFrom
<1> QED
  BY <1>1, <1>4

LEMMA FindScheduleRoomTypes ==
  ASSUME ScheduleTypeOK, NEW q \in Queries, NEW roomId \in RoomIds,
         NEW from \in FromTimes, NEW count \in DayCounts,
         FindScheduleRoom(q, roomId, from, count)
  PROVE  query' \in [Queries -> QueryRecords]
<1> DEFINE begun ==
      [NoQuery EXCEPT
         !.stage   = IF rooms[roomId] = Null THEN "replied" ELSE "rows",
         !.roomId  = roomId,
         !.window  = IF rooms[roomId] = Null THEN {} ELSE WindowFrom(from, count),
         !.slot    = IF rooms[roomId] = Null THEN Null
                     ELSE rooms[roomId].slotDurationMin,
         !.told    = {r \in Requests : Confirmed(r)},
         !.earlier = {p \in Queries : Answered(p)}]
<1>1. rooms[roomId] # Null => rooms[roomId].slotDurationMin \in SlotMins
  BY DEF ScheduleTypeOK, TypeOK, RoomsTypeOK, RoomRows
<1>2. NoDays \in Schedules
  <2>1. NoDays \in [{} -> DayStatus]
    BY DEF NoDays
  <2> QED
    BY <2>1 DEF Schedules
<1>3. begun.window \in SUBSET Days
  BY WindowsOfDays DEF NoQuery
<1>4. begun \in QueryRecords
  BY <1>1, <1>2, <1>3 DEF NoQuery, QueryRecords
<1>5. query' = [query EXCEPT ![q] = begun]
  BY DEF FindScheduleRoom
<1> QED
  BY <1>4, <1>5 DEF ScheduleTypeOK

LEMMA ScanTypes ==
  ASSUME ScheduleTypeOK, NEW q \in Queries, ScanKeys(q)
  PROVE  query' \in [Queries -> QueryRecords]
<1> DEFINE shown == [day \in query[q].window |->
                       DayStatusOf(query[q].rows, HoldRanges \cup LockRanges(q), day)]
<1>1. query[q] \in QueryRecords
  BY DEF ScheduleTypeOK
<1>2. \A day \in query[q].window :
        DayStatusOf(query[q].rows, HoldRanges \cup LockRanges(q), day) \in DayStatus
  BY DEF DayStatusOf, DayStatus
<1>3. shown \in [query[q].window -> DayStatus]
  BY <1>2
<1>4. query[q].window \in SUBSET Days
  BY <1>1 DEF QueryRecords
<1>5. shown \in Schedules
  BY <1>3, <1>4 DEF Schedules
<1>6. [query[q] EXCEPT !.stage = "replied", !.days = shown] \in QueryRecords
  BY <1>1, <1>5 DEF QueryRecords
<1>7. query' = [query EXCEPT ![q] = [query[q] EXCEPT !.stage = "replied", !.days = shown]]
  BY <1>1 DEF ScanKeys, ScheduleTypeOK
<1> QED
  BY <1>6, <1>7 DEF ScheduleTypeOK

LEMMA QueryTypes ==
  ASSUME ScheduleTypeOK, [ScheduleNext]_scheduleVars
  PROVE  query' \in [Queries -> QueryRecords]
<1> USE DEF ScheduleTypeOK
<1>1. ASSUME NEW q \in Queries, ReadRows(q)
      PROVE  query' \in [Queries -> QueryRecords]
  <2>1. RowsRead(q) \subseteq Rows
    BY DEF RowsRead, TypeOK
  <2>2. query[q] \in QueryRecords
    OBVIOUS
  <2>3. [query[q] EXCEPT !.stage = "keys", !.rows = RowsRead(q)] \in QueryRecords
    BY <2>1, <2>2 DEF QueryRecords
  <2> QED
    BY <1>1, <2>3 DEF ReadRows
<1>2. ASSUME NEW q \in Queries, QueryFails(q)
      PROVE  query' \in [Queries -> QueryRecords]
  BY <1>2 DEF QueryFails, QueryRecords
<1>3. ASSUME NEW gone \in SUBSET (Requests \cup Queries), ServerStops(gone)
      PROVE  query' \in [Queries -> QueryRecords]
  <2>1. \A q \in Queries : [query[q] EXCEPT !.stage = "lost"] \in QueryRecords
    BY DEF QueryRecords
  <2> QED
    BY <1>3, <2>1 DEF ServerStops
<1> QED
  BY <1>1, <1>2, <1>3, FindScheduleRoomTypes, ScanTypes
     DEF ScheduleNext, QueryStep, scheduleVars

-----------------------------------------------------------------------------
(* How one query moves *)

\* Query q ends without an answer.
EndsUnanswered(q) ==
  /\ query'[q].stage \in {"failed", "lost"}
  /\ query'[q] = [query[q] EXCEPT !.stage = query'[q].stage]

\* Query q takes a step of its handler; the stores stay as they are.
Advances(q) ==
  /\ \/ \E roomId \in RoomIds, from \in FromTimes, count \in DayCounts :
          FindScheduleRoom(q, roomId, from, count)
     \/ ReadRows(q)
     \/ ScanKeys(q)
  /\ UNCHANGED vars

LEMMA QueryMoves ==
  ASSUME ScheduleTypeOK, [ScheduleNext]_scheduleVars, NEW q \in Queries
  PROVE  query'[q] = query[q] \/ EndsUnanswered(q) \/ Advances(q)
<1>1. query \in [Queries -> QueryRecords]
  BY DEF ScheduleTypeOK
<1>2. ASSUME NEW p \in Queries, QueryStep(p), p # q
      PROVE  query'[q] = query[q]
  BY <1>1, <1>2 DEF QueryStep, FindScheduleRoom, ReadRows, ScanKeys, QueryFails
<1>3. ASSUME QueryStep(q), UNCHANGED vars
      PROVE  EndsUnanswered(q) \/ Advances(q)
  <2>1. CASE QueryFails(q)
    <3>1. query'[q] = [query[q] EXCEPT !.stage = "failed"]
      BY <1>1, <2>1 DEF QueryFails
    <3>2. query'[q].stage = "failed"
      BY <1>1, <3>1 DEF QueryRecords
    <3> QED
      BY <3>1, <3>2 DEF EndsUnanswered
  <2> QED
    BY <1>3, <2>1 DEF QueryStep, Advances
<1>4. ASSUME NEW gone \in SUBSET (Requests \cup Queries), ServerStops(gone)
      PROVE  query'[q] = query[q] \/ EndsUnanswered(q)
  <2>1. CASE q \in gone
    <3>1. query'[q] = [query[q] EXCEPT !.stage = "lost"]
      BY <1>4, <2>1 DEF ServerStops
    <3>2. query'[q].stage = "lost"
      BY <1>1, <3>1 DEF QueryRecords
    <3> QED
      BY <3>1, <3>2 DEF EndsUnanswered
  <2>2. CASE q \notin gone
    BY <1>4, <2>2 DEF ServerStops
  <2> QED
    BY <2>1, <2>2
<1> QED
  BY <1>2, <1>3, <1>4 DEF ScheduleNext, scheduleVars

\* The fields of a query after each of its moves.
LEMMA MovedFields ==
  ASSUME ScheduleTypeOK, NEW q \in Queries
  PROVE  /\ EndsUnanswered(q) =>
              /\ query'[q].told = query[q].told
              /\ query'[q].earlier = query[q].earlier
              /\ query'[q].rows = query[q].rows
              /\ query'[q].roomId = query[q].roomId
              /\ query'[q].window = query[q].window
         /\ ReadRows(q) =>
              /\ query[q].stage = "rows" /\ query'[q].stage = "keys"
              /\ query'[q].told = query[q].told
              /\ query'[q].earlier = query[q].earlier
              /\ query'[q].rows = RowsRead(q)
              /\ query'[q].roomId = query[q].roomId
              /\ query'[q].window = query[q].window
         /\ ScanKeys(q) =>
              /\ query[q].stage = "keys" /\ query'[q].stage = "replied"
              /\ query'[q].told = query[q].told
              /\ query'[q].earlier = query[q].earlier
              /\ query'[q].rows = query[q].rows
              /\ query'[q].roomId = query[q].roomId
              /\ query'[q].window = query[q].window
              /\ query'[q].days =
                   [day \in query[q].window |->
                      DayStatusOf(query[q].rows, HoldRanges \cup LockRanges(q), day)]
<1>1. query \in [Queries -> QueryRecords] /\ query[q] \in QueryRecords
  BY DEF ScheduleTypeOK
<1>2. EndsUnanswered(q) =>
              /\ query'[q].told = query[q].told
              /\ query'[q].earlier = query[q].earlier
              /\ query'[q].rows = query[q].rows
              /\ query'[q].roomId = query[q].roomId
              /\ query'[q].window = query[q].window
  BY <1>1 DEF EndsUnanswered, QueryRecords
<1>3. ASSUME ReadRows(q)
      PROVE  /\ query[q].stage = "rows"
             /\ query'[q] = [query[q] EXCEPT !.stage = "keys", !.rows = RowsRead(q)]
  BY <1>1, <1>3 DEF ReadRows
<1>4. ASSUME ScanKeys(q)
      PROVE  /\ query[q].stage = "keys"
             /\ query'[q] = [query[q] EXCEPT !.stage = "replied", !.days =
                   [day \in query[q].window |->
                      DayStatusOf(query[q].rows, HoldRanges \cup LockRanges(q), day)]]
  BY <1>1, <1>4 DEF ScanKeys
<1> QED
  BY <1>1, <1>2, <1>3, <1>4 DEF QueryRecords

-----------------------------------------------------------------------------
(* The inductive invariant, part by part *)

LEMMA HistoryStandsStep ==
  ASSUME ScheduleInv, [Next]_vars, [ScheduleNext]_scheduleVars
  PROVE  HistoryStands'
<1> SUFFICES ASSUME NEW q \in Queries
             PROVE  /\ \A r \in query'[q].told : Confirmed(r)'
                    /\ \A p \in query'[q].earlier : Answered(p)'
  BY DEF HistoryStands
<1> USE DEF ScheduleInv
<1>1. \A r \in Requests : Confirmed(r) => Confirmed(r)'
  BY ConfirmedStays
<1>2. \A p \in Queries : Answered(p) => Answered(p)'
  BY AnsweredQueriesRest
<1>3. query[q].told \subseteq Requests /\ query[q].earlier \subseteq Queries
  BY DEF ScheduleTypeOK, QueryRecords
<1>4. CASE query'[q].told = query[q].told /\ query'[q].earlier = query[q].earlier
  BY <1>1, <1>2, <1>3, <1>4 DEF HistoryStands
<1>5. ASSUME NEW roomId \in RoomIds, NEW from \in FromTimes, NEW count \in DayCounts,
             FindScheduleRoom(q, roomId, from, count)
      PROVE  /\ query'[q].told = {r \in Requests : Confirmed(r)}
             /\ query'[q].earlier = {p \in Queries : Answered(p)}
  BY <1>5 DEF FindScheduleRoom, NoQuery, ScheduleTypeOK
<1> QED
  BY <1>1, <1>2, <1>4, <1>5, QueryMoves, MovedFields DEF Advances

LEMMA KnownRoomHasDaysStep ==
  ASSUME ScheduleInv, [Next]_vars, [ScheduleNext]_scheduleVars
  PROVE  KnownRoomHasDays'
<1> USE DEF ScheduleInv
<1> SUFFICES ASSUME NEW q \in Queries, (Answering(q) \/ Answered(q))',
                    NEW r \in query'[q].told,
                    req'[r].token.roomId = query'[q].roomId
             PROVE  query'[q].window # {}
  BY DEF KnownRoomHasDays
<1>1. CASE query'[q] = query[q]
  <2>1. r \in Requests /\ Confirmed(r)
    BY <1>1 DEF HistoryStands, ScheduleTypeOK, QueryRecords
  <2>2. req'[r] = req[r]
    BY <2>1, ConfirmedStays
  <2> QED
    BY <1>1, <2>2 DEF KnownRoomHasDays, Answering, Answered
<1>2. CASE EndsUnanswered(q)
  BY <1>2 DEF EndsUnanswered, Answering, Answered
<1>3. CASE (ReadRows(q) \/ ScanKeys(q)) /\ UNCHANGED vars
  <2>1. /\ query'[q].told = query[q].told /\ query'[q].roomId = query[q].roomId
        /\ query'[q].window = query[q].window /\ Answering(q)
    BY <1>3, MovedFields DEF Answering
  <2>2. req' = req
    BY <1>3 DEF vars
  <2> QED
    BY <2>1, <2>2 DEF KnownRoomHasDays
<1>4. ASSUME NEW roomId \in RoomIds, NEW from \in FromTimes, NEW count \in DayCounts,
             FindScheduleRoom(q, roomId, from, count), UNCHANGED vars
      PROVE  query'[q].window # {}
  <2>1. /\ query'[q].told = {c \in Requests : Confirmed(c)}
        /\ query'[q].roomId = roomId
        /\ rooms[roomId] # Null => query'[q].window = WindowFrom(from, count)
    BY <1>4 DEF FindScheduleRoom, NoQuery, ScheduleTypeOK
  <2>2. r \in Requests /\ ConfirmedRow(r) \in bookings
    BY <2>1, ConfirmedStays
  <2>3. ConfirmedRow(r).roomId = roomId
    BY <1>4, <2>1 DEF ConfirmedRow, CreatedRow, vars
  <2>4. rooms[roomId] # Null
    BY <2>2, <2>3 DEF RowsHaveRooms
  <2> QED
    BY <2>1, <2>4, WindowsOfDays
<1> QED
  BY <1>1, <1>2, <1>3, <1>4, QueryMoves DEF Advances

LEMMA ReadRowsStandStep ==
  ASSUME ScheduleInv, [Next]_vars, [ScheduleNext]_scheduleVars
  PROVE  ReadRowsStand'
<1> USE DEF ScheduleInv
<1> SUFFICES ASSUME NEW q \in Queries, NEW row \in query'[q].rows
             PROVE  row \in bookings' /\ row.roomId = query'[q].roomId
  BY DEF ReadRowsStand
<1>1. CASE query'[q].rows = query[q].rows /\ query'[q].roomId = query[q].roomId
  BY <1>1, RowsStay DEF ReadRowsStand
<1>2. CASE ReadRows(q)
  BY <1>2, RowsStay, MovedFields DEF RowsRead
<1>3. ASSUME NEW roomId \in RoomIds, NEW from \in FromTimes, NEW count \in DayCounts,
             FindScheduleRoom(q, roomId, from, count)
      PROVE  query'[q].rows = {}
  BY <1>3 DEF FindScheduleRoom, NoQuery, ScheduleTypeOK
<1> QED
  BY <1>1, <1>2, <1>3, QueryMoves, MovedFields DEF Advances

\* What was known when a query began is known while it runs, and stands.
LEMMA KnownRowsStay ==
  ASSUME ScheduleInv, [Next]_vars, [ScheduleNext]_scheduleVars, NEW q \in Queries,
         query'[q].told = query[q].told, query'[q].earlier = query[q].earlier
  PROVE  KnownRows(q)' = KnownRows(q)
<1> USE DEF ScheduleInv
<1>1. query[q].told \subseteq Requests /\ query[q].earlier \subseteq Queries
  BY DEF ScheduleTypeOK, QueryRecords
<1>2. \A r \in query[q].told : ConfirmedRow(r)' = ConfirmedRow(r)
  BY <1>1, ConfirmedStays DEF HistoryStands
<1>3. \A p \in query[q].earlier : query'[p] = query[p]
  BY <1>1, AnsweredQueriesRest DEF HistoryStands
<1> QED
  BY <1>2, <1>3 DEF KnownRows

LEMMA KnownRowsStand ==
  ASSUME ScheduleInv, NEW q \in Queries, NEW row \in KnownRows(q)
  PROVE  row \in bookings /\ row.status = "CONFIRMED"
<1> USE DEF ScheduleInv
<1>1. row \in bookings
  <2>1. query[q].told \subseteq Requests /\ query[q].earlier \subseteq Queries
    BY DEF ScheduleTypeOK, QueryRecords
  <2>2. \A r \in query[q].told : ConfirmedRow(r) \in bookings
    BY <2>1, ToldIsSucceeded DEF HistoryStands
  <2>3. \A p \in query[q].earlier : query[p].rows \subseteq bookings
    BY <2>1 DEF ReadRowsStand
  <2> QED
    BY <2>2, <2>3 DEF KnownRows
<1>2. row = RowOf(row.id)
  BY <1>1 DEF IInv, RowsAreOfRequests
<1> QED
  BY <1>1, <1>2 DEF RowOf, CreatedRow, ConfirmedRow

LEMMA KnownRowsReadStep ==
  ASSUME ScheduleInv, [Next]_vars, [ScheduleNext]_scheduleVars
  PROVE  KnownRowsRead'
<1> USE DEF ScheduleInv
<1> SUFFICES ASSUME NEW q \in Queries, HasRead(q)',
                    NEW row \in KnownRows(q)', NEW day \in query'[q].window,
                    row.roomId = query'[q].roomId, RowTouches(row, day)
             PROVE  row \in query'[q].rows
  BY DEF KnownRowsRead, RowTouches
<1>1. CASE query'[q] = query[q]
  <2>1. KnownRows(q)' = KnownRows(q) /\ HasRead(q)
    BY <1>1, KnownRowsStay DEF HasRead, Answered
  <2> QED
    BY <1>1, <2>1 DEF KnownRowsRead
<1>2. CASE EndsUnanswered(q)
  BY <1>2 DEF EndsUnanswered, HasRead, Answered
<1>3. CASE ReadRows(q) /\ UNCHANGED vars
  <2>1. KnownRows(q)' = KnownRows(q)
    BY <1>3, MovedFields, KnownRowsStay
  <2>2. row \in bookings /\ row.status = "CONFIRMED"
    BY <2>1, KnownRowsStand
  <2> QED
    BY <1>3, <2>2, MovedFields DEF RowsRead
<1>4. CASE ScanKeys(q)
  <2>1. KnownRows(q)' = KnownRows(q) /\ HasRead(q)
    BY <1>4, MovedFields, KnownRowsStay DEF HasRead
  <2> QED
    BY <1>4, <2>1, MovedFields DEF KnownRowsRead
<1>5. ASSUME NEW roomId \in RoomIds, NEW from \in FromTimes, NEW count \in DayCounts,
             FindScheduleRoom(q, roomId, from, count)
      PROVE  FALSE
  <2>1. HasRead(q)' => query'[q].window = {}
    BY <1>5 DEF FindScheduleRoom, NoQuery, ScheduleTypeOK, HasRead, Answered
  <2> QED
    BY <2>1
<1> QED
  BY <1>1, <1>2, <1>3, <1>4, <1>5, QueryMoves DEF Advances

\* A day is BOOKED exactly when a row touches it, whatever keys there are.
LEMMA BookedByRows ==
  ASSUME NEW rows, NEW held, NEW day
  PROVE  DayStatusOf(rows, held, day) = "BOOKED"
           <=> \E row \in rows : RowTouches(row, day)
BY DEF DayStatusOf

LEMMA DaysShowRowsStep ==
  ASSUME ScheduleInv, [Next]_vars, [ScheduleNext]_scheduleVars
  PROVE  DaysShowRows'
<1> USE DEF ScheduleInv
<1> SUFFICES ASSUME NEW q \in Queries, Answered(q)', NEW day \in query'[q].window
             PROVE  query'[q].days[day] = "BOOKED" <=>
                      \E row \in query'[q].rows : RowTouches(row, day)
  BY DEF DaysShowRows, RowTouches
<1>1. CASE query'[q] = query[q]
  BY <1>1 DEF DaysShowRows, Answered
<1>2. CASE EndsUnanswered(q) \/ ReadRows(q)
  BY <1>2, MovedFields DEF EndsUnanswered, Answered
<1>3. CASE ScanKeys(q)
  <2> DEFINE shown == [d \in query[q].window |->
                 DayStatusOf(query[q].rows, HoldRanges \cup LockRanges(q), d)]
  <2>1. /\ query'[q].rows = query[q].rows /\ query'[q].window = query[q].window
        /\ query'[q].days = shown
    BY <1>3, MovedFields
  <2>2. shown[day] = "BOOKED" <=> \E row \in query[q].rows : RowTouches(row, day)
    BY <2>1, BookedByRows
  <2> QED
    BY <2>1, <2>2
<1>4. ASSUME NEW roomId \in RoomIds, NEW from \in FromTimes, NEW count \in DayCounts,
             FindScheduleRoom(q, roomId, from, count)
      PROVE  FALSE
  <2>1. Answered(q)' => query'[q].window = {}
    BY <1>4 DEF FindScheduleRoom, NoQuery, ScheduleTypeOK, Answered
  <2> QED
    BY <2>1
<1> QED
  BY <1>1, <1>2, <1>3, <1>4, QueryMoves DEF Advances

-----------------------------------------------------------------------------
(* The invariant holds *)

LEMMA InitScheduleInv == ScheduleInit => ScheduleInv
<1> SUFFICES ASSUME ScheduleInit
             PROVE  ScheduleInv
  OBVIOUS
<1>1. IInv
  BY InitIInv DEF ScheduleInit
<1>2. \A q \in Queries : query[q] = NoQuery
  BY DEF ScheduleInit
<1>3. ScheduleTypeOK
  <2>1. NoDays \in [{} -> DayStatus]
    BY DEF NoDays
  <2>2. NoDays \in Schedules
    BY <2>1 DEF Schedules
  <2>3. NoQuery \in QueryRecords
    BY <2>2 DEF NoQuery, QueryRecords
  <2> QED
    BY <1>1, <2>3 DEF ScheduleInit, ScheduleTypeOK, IInv
<1>4. RowsHaveRooms
  BY DEF ScheduleInit, Init, RowsHaveRooms
<1>5. HistoryStands /\ KnownRoomHasDays /\ ReadRowsStand
  BY <1>2 DEF NoQuery, HistoryStands, KnownRoomHasDays, ReadRowsStand
<1>6. KnownRowsRead /\ DaysShowRows
  BY <1>2 DEF NoQuery, KnownRowsRead, DaysShowRows, HasRead, Answered
<1> QED
  BY <1>1, <1>3, <1>4, <1>5, <1>6 DEF ScheduleInv

LEMMA ScheduleInvStep ==
  ScheduleInv /\ [ScheduleNext]_scheduleVars => ScheduleInv'
<1> SUFFICES ASSUME ScheduleInv, [ScheduleNext]_scheduleVars
             PROVE  ScheduleInv'
  OBVIOUS
<1>1. [Next]_vars
  BY BookingsOwnStep DEF ScheduleInv, ScheduleTypeOK
<1>2. IInv'
  BY <1>1, IInvStep DEF ScheduleInv
<1>3. ScheduleTypeOK'
  BY <1>2, QueryTypes DEF ScheduleInv, ScheduleTypeOK, IInv
<1>4. RowsHaveRooms'
  BY <1>1, RowsHaveRoomsStep DEF ScheduleInv
<1> QED
  BY <1>1, <1>2, <1>3, <1>4, HistoryStandsStep, KnownRoomHasDaysStep, ReadRowsStandStep,
     KnownRowsReadStep, DaysShowRowsStep DEF ScheduleInv

\* The strengthening behind the theorems below.  Its first part is the invariant
\* of the booking context: schedule queries that run next to the booking
\* handlers, and stop with them, take nothing from what is proved of those.
THEOREM ScheduleInvariance == ScheduleSpec => []ScheduleInv
BY InitScheduleInv, ScheduleInvStep, PTL DEF ScheduleSpec

\* The composition refines the booking context: schedule queries that run next to
\* the handlers, and processes that stop with requests and queries alike, show
\* the tables and the keys no behaviour that the handlers alone do not have.
THEOREM ScheduleRefinesBooking == ScheduleSpec => Spec
<1>1. ScheduleInit => Init
  BY DEF ScheduleInit
<1>2. ScheduleInv /\ [ScheduleNext]_scheduleVars => [Next]_vars
  BY BookingsOwnStep DEF ScheduleInv, ScheduleTypeOK
<1> QED
  BY <1>1, <1>2, ScheduleInvariance, PTL DEF ScheduleSpec, Spec

\* The locals of the schedule handler stay within their types next to the tables.
THEOREM ScheduleTypes == ScheduleSpec => []ScheduleTypeOK
BY ScheduleInvariance, PTL DEF ScheduleInv

-----------------------------------------------------------------------------
(* What an answer says *)

\* A guest who had been told CONFIRMED before he asked sees his days as BOOKED,
\* for any set of days, slot lengths and other requests.
THEOREM ConfirmedDaysAreShown == ScheduleSpec => []ConfirmedDaysShown
<1>1. ScheduleInv => ConfirmedDaysShown
  <2> SUFFICES ASSUME ScheduleInv, NEW q \in Queries, Answered(q),
                      NEW r \in query[q].told,
                      req[r].token.roomId = query[q].roomId
               PROVE  /\ query[q].window # {}
                      /\ \A day \in query[q].window :
                           Touches(req[r].token.startAt, req[r].endAt, day)
                             => query[q].days[day] = "BOOKED"
    BY DEF ConfirmedDaysShown
  <2> USE DEF ScheduleInv
  <2>1. query[q].window # {}
    BY DEF KnownRoomHasDays
  <2>2. r \in Requests /\ Confirmed(r)
    BY DEF HistoryStands, ScheduleTypeOK, QueryRecords
  <2>3. req[r].endAt # Null
    BY <2>2, ToldIsSucceeded, EndTimesAreInstants
  <2>4. ASSUME NEW day \in query[q].window,
               Touches(req[r].token.startAt, req[r].endAt, day)
        PROVE  query[q].days[day] = "BOOKED"
    <3>1. RowTouches(ConfirmedRow(r), day) /\ ConfirmedRow(r).roomId = query[q].roomId
      BY <2>3, <2>4 DEF RowTouches, ConfirmedRow, CreatedRow
    <3>2. ConfirmedRow(r) \in KnownRows(q)
      BY DEF KnownRows
    <3>3. ConfirmedRow(r) \in query[q].rows
      BY <2>4, <3>1, <3>2 DEF KnownRowsRead, HasRead
    <3> QED
      BY <2>4, <3>1, <3>3 DEF DaysShowRows
  <2> QED
    BY <2>1, <2>4
<1> QED
  BY <1>1, ScheduleInvariance, PTL

\* A day is shown as BOOKED only for the row of a confirm, which is still there.
THEOREM BookedDaysAreReal == ScheduleSpec => []BookedDaysReal
<1>1. ScheduleInv => BookedDaysReal
  <2> SUFFICES ASSUME ScheduleInv, NEW q \in Queries, Answered(q),
                      NEW day \in query[q].window, query[q].days[day] = "BOOKED"
               PROVE  \E row \in bookings :
                        /\ row.roomId = query[q].roomId
                        /\ req[row.id].op = "confirm"
                        /\ row.endAt > day /\ row.startAt < day + DayLength
    BY DEF BookedDaysReal
  <2> USE DEF ScheduleInv
  <2>1. PICK row \in query[q].rows : RowTouches(row, day)
    BY DEF DaysShowRows
  <2>2. row \in bookings /\ row.roomId = query[q].roomId
    BY DEF ReadRowsStand
  <2>3. row.id \in Requests /\ row = RowOf(row.id) /\ req[row.id].stage # "idle"
    BY <2>2 DEF IInv, TypeOK, Rows, RowsAreOfRequests
  <2>4. row.endAt # Null
    BY <2>1 DEF RowTouches
  <2>5. req[row.id].op # "create"
    BY <2>3, <2>4 DEF RowOf, CreatedRow
  <2>6. req[row.id].op = "confirm"
    BY <2>3, <2>5 DEF IInv, TypeOK, RequestRecords, RequestsWellFormed
  <2> QED
    BY <2>1, <2>2, <2>6 DEF RowTouches, Touches
<1> QED
  BY <1>1, ScheduleInvariance, PTL

\* A later answer keeps every BOOKED day of an earlier one.
THEOREM BookedDaysStayBooked == ScheduleSpec => []BookedStaysBooked
<1>1. ScheduleInv => BookedStaysBooked
  <2> SUFFICES ASSUME ScheduleInv, NEW q \in Queries, Answered(q),
                      NEW p \in query[q].earlier, query[p].roomId = query[q].roomId,
                      NEW day \in query[p].window \cap query[q].window,
                      query[p].days[day] = "BOOKED"
               PROVE  query[q].days[day] = "BOOKED"
    BY DEF BookedStaysBooked
  <2> USE DEF ScheduleInv
  <2>1. p \in Queries /\ Answered(p)
    BY DEF HistoryStands, ScheduleTypeOK, QueryRecords
  <2>2. PICK row \in query[p].rows : RowTouches(row, day)
    BY <2>1 DEF DaysShowRows
  <2>3. row \in KnownRows(q) /\ row.roomId = query[q].roomId
    BY <2>1 DEF KnownRows, ReadRowsStand
  <2>4. row \in query[q].rows
    BY <2>2, <2>3 DEF KnownRowsRead, HasRead
  <2> QED
    BY <2>2, <2>4 DEF DaysShowRows
<1> QED
  BY <1>1, ScheduleInvariance, PTL
=============================================================================
