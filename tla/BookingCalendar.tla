-------------------------- MODULE BookingCalendar --------------------------
(***************************************************************************)
(* Proof that the two booking handlers implement RoomCalendar, through the *)
(* mapping that Booking states: entries are the rows of the table, and     *)
(* receipts are the CONFIRMED answers.                                     *)
(***************************************************************************)
EXTENDS BookingProofs

\* Ranges that the constraint lets coexist share no instant.
LEMMA ExclusionIsDisjointness ==
  ASSUME NEW a \in Rows, NEW b \in Rows, ~Excluded(a, b)
  PROVE  ~Calendar!Clash(a, b)
<1>1. /\ a.startAt \in Nat /\ a.endAt \in Nat \cup {Null}
      /\ b.startAt \in Nat /\ b.endAt \in Nat \cup {Null}
  BY EndTimesAreInstants, ClockAssumption DEF Rows, EndValues
<1>2. SUFFICES ASSUME a.roomId = b.roomId, NEW t \in Instants,
                      a.startAt <= t, a.endAt = Null \/ t < a.endAt,
                      b.startAt <= t, b.endAt = Null \/ t < b.endAt
               PROVE  FALSE
  BY DEF Calendar!Clash, Calendar!Occupied
<1>3. t \in Nat
  BY ClockAssumption
<1>4. b.endAt = Null \/ a.startAt < b.endAt
  BY <1>1, <1>2, <1>3
<1>5. a.endAt = Null \/ b.startAt < a.endAt
  BY <1>1, <1>2, <1>3
<1> QED
  BY <1>2, <1>4, <1>5 DEF Excluded, RangesOverlap

\* The receipts of a state.
receiptsOf == {r \in Requests : Confirmed(r)}

LEMMA CommitEnters ==
  ASSUME IInv, NEW row \in Rows, Accepts(bookings, row),
         \A other \in bookings : other.id # row.id,
         bookings' = bookings \cup {row}, receiptsOf' = receiptsOf
  PROVE  Calendar!Enter(row)
<1>1. \A other \in bookings : ~Calendar!Clash(other, row)
  BY ExclusionIsDisjointness DEF Accepts, IInv, TypeOK
<1> QED
  BY <1>1 DEF Calendar!Enter, receiptsOf

\* The rows a request writes are CONFIRMED and end after they start, if they end;
\* and before its transaction it has none in the table.
LEMMA RequestEntries ==
  ASSUME IInv, NEW r \in Requests, req[r].token \in Tokens
  PROVE  /\ CreatedRow(r) \in Entries /\ ConfirmedRow(r) \in Entries
         /\ req[r].stage \in {"insert", "save"} =>
              \A other \in bookings : other.id # r
<1>1. CreatedRow(r) \in Rows /\ ConfirmedRow(r) \in Rows
  BY RowTypes DEF IInv
<1>2. CreatedRow(r).status = "CONFIRMED" /\ ConfirmedRow(r).status = "CONFIRMED"
  BY DEF CreatedRow, ConfirmedRow
<1>3. CreatedRow(r).endAt = Null
  BY DEF CreatedRow
<1>4. ConfirmedRow(r).endAt = Null \/ ConfirmedRow(r).startAt < ConfirmedRow(r).endAt
  BY DEF ConfirmedRow, CreatedRow, IInv, RequestsWellFormed
<1>5. CreatedRow(r) \in Entries /\ ConfirmedRow(r) \in Entries
  BY <1>1, <1>2, <1>3, <1>4 DEF Rows, Entries
<1> QED
  BY <1>5 DEF IInv, RowsAreOfRequests

\* Only the end of a confirm gives a receipt.
LEMMA ReceiptsStay ==
  ASSUME IInv, NEW r \in Requests,
         \A q \in Requests : q # r => req'[q] = req[q],
         ~Confirmed(r), ~Confirmed(r)'
  PROVE  receiptsOf' = receiptsOf
BY DEF receiptsOf, Confirmed, Replied

\* A request whose handler has not returned has no receipt.
LEMMA OnlyQuitAnswers ==
  ASSUME IInv, NEW r \in Requests,
         \/ req[r].stage \in CallStages /\ \E next \in ActiveStages : Moves(r, next)
         \/ Quit(r) /\ ~Succeeded(r, "confirm")
  PROVE  receiptsOf' = receiptsOf
<1>1. /\ req[r].stage # "replied" /\ req[r] \in RequestRecords
      /\ \A q \in Requests : q # r => req'[q] = req[q]
  BY CallsAreOfOne DEF Moves, Quit, IInv, TypeOK
<1>2. ~Confirmed(r)'
  <2>1. CASE \E next \in ActiveStages : Moves(r, next)
    BY <2>1 DEF Moves, Failing, Confirmed, Replied
  <2>2. CASE Quit(r) /\ ~Succeeded(r, "confirm")
    BY <1>1, <2>2
       DEF Quit, IInv, TypeOK, RequestRecords, RequestsWellFormed, Succeeded,
           SuccessReply, Confirmed, Replied
  <2> QED
    BY <2>1, <2>2
<1> QED
  BY <1>1, <1>2, ReceiptsStay DEF Confirmed, Replied

\* A confirm that succeeded returns CONFIRMED: the receipt for its row.
LEMMA ReceiptStep ==
  ASSUME IInv, NEW r \in Requests, Quit(r), Succeeded(r, "confirm")
  PROVE  Calendar!GiveReceipt(ConfirmedRow(r))
<1>1. /\ req[r] \in RequestRecords /\ req[r].op = "confirm" /\ req[r].stage = "quit"
      /\ req[r].reply = "none" /\ req[r].endAt # Null
      /\ ConfirmedRow(r) \in bookings /\ bookings' = bookings
  BY DEF IInv, TypeOK, RequestsWellFormed, CommittedRowsStand, ConfirmCommitted,
         Succeeded, Quit, stores
<1>2. /\ req'[r].op = "confirm" /\ req'[r].stage = "replied"
      /\ req'[r].reply = "CONFIRMED"
      /\ \A q \in Requests : q # r => req'[q] = req[q]
  BY <1>1 DEF Quit, IInv, TypeOK, RequestRecords, SuccessReply
<1>3. Confirmed(r)' /\ ~Confirmed(r)
  BY <1>1, <1>2 DEF Confirmed, Replied
<1>4. \A q \in Requests : q # r => Confirmed(q)' = Confirmed(q)
  BY <1>2 DEF Confirmed, Replied
<1>5. receiptsOf' = receiptsOf \cup {r} /\ r \notin receiptsOf
  BY <1>3, <1>4 DEF receiptsOf
<1>6. ConfirmedRow(r).id = r /\ ConfirmedRow(r).endAt # Null
  BY <1>1 DEF ConfirmedRow, CreatedRow
<1> QED
  BY <1>1, <1>5, <1>6 DEF Calendar!GiveReceipt, receiptsOf

\* Every step of the handlers is a step of the calendar, or leaves it alone.
LEMMA CalendarStep ==
  ASSUME IInv, [Next]_vars
  PROVE  [Calendar!CalendarNext]_(Calendar!calendarVars)
<1>1. ASSUME UNCHANGED bookings, receiptsOf' = receiptsOf
      PROVE  UNCHANGED Calendar!calendarVars
  BY <1>1 DEF Calendar!calendarVars, receiptsOf
<1>2. ASSUME NEW r \in Requests, NEW row \in Entries, NEW next \in ActiveStages,
             req[r].stage \in CallStages, Commit(r, row, next),
             \A other \in bookings : other.id # row.id
      PROVE  [Calendar!CalendarNext]_(Calendar!calendarVars)
  <2>1. Moves(r, next)
    BY <1>2, CarriedOutMoves, ThrowMoves DEF Commit, IInv
  <2>2. receiptsOf' = receiptsOf
    BY <1>2, <2>1, OnlyQuitAnswers
  <2>3. CASE UNCHANGED bookings
    BY <1>1, <2>2, <2>3
  <2>4. CASE Accepts(bookings, row) /\ bookings' = bookings \cup {row}
    <3>1. row \in Rows
      BY DEF Entries, Rows, BookingStatus
    <3> QED
      BY <1>2, <2>2, <2>4, <3>1, CommitEnters DEF Calendar!CalendarNext
  <2> QED
    BY <1>2, <2>3, <2>4 DEF Commit, Insertable
<1>3. ASSUME NEW r \in Requests, InsertBooking(r) \/ SaveConfirmed(r)
      PROVE  [Calendar!CalendarNext]_(Calendar!calendarVars)
  <2>1. req[r].token \in Tokens /\ req[r].stage \in CallStages
        /\ req[r].stage \in {"insert", "save"}
        /\ "lock" \in ActiveStages /\ "delHold" \in ActiveStages
    BY <1>3 DEF InsertBooking, SaveConfirmed, IInv, RequestsWellFormed,
       ActiveStages, CallStages, CreateStages, ConfirmStages
  <2>2. CreatedRow(r).id = r /\ ConfirmedRow(r).id = r
    BY DEF CreatedRow, ConfirmedRow
  <2> QED
    BY <1>2, <1>3, <2>1, <2>2, RequestEntries DEF InsertBooking, SaveConfirmed
<1>4. ASSUME NEW r \in Requests, Quit(r)
      PROVE  [Calendar!CalendarNext]_(Calendar!calendarVars)
  <2>1. CASE Succeeded(r, "confirm")
    <3>1. ConfirmedRow(r) \in Entries
      BY <2>1, RequestEntries DEF Succeeded, IInv, RequestsWellFormed
    <3> QED
      BY <1>4, <2>1, <3>1, ReceiptStep DEF Calendar!CalendarNext
  <2>2. CASE ~Succeeded(r, "confirm")
    BY <1>1, <1>4, <2>2, OnlyQuitAnswers DEF Quit, stores
  <2> QED
    BY <2>1, <2>2
<1>5. ASSUME NEW r \in Requests,
             \/ AcquireLock(r) \/ PutHold(r) \/ DeleteHold(r) \/ DeleteLock(r)
             \/ NotifyConfirmed(r)
      PROVE  UNCHANGED Calendar!calendarVars
  <2>1. UNCHANGED bookings /\ req[r].stage \in CallStages
    BY <1>5 DEF AcquireLock, PutHold, DeleteHold, DeleteLock, NotifyConfirmed,
       CallStages, CreateStages, ConfirmStages
  <2>2. \/ \E next \in ActiveStages : CarriedOut(r, next)
        \/ Throw(r, "BOOKING.SLOT_TAKEN")
    BY <1>5 DEF AcquireLock, PutHold, DeleteHold, DeleteLock, NotifyConfirmed,
       ActiveStages, CallStages, CreateStages, ConfirmStages
  <2>3. \E next \in ActiveStages : Moves(r, next)
    BY <2>1, <2>2, CarriedOutMoves, ThrowMoves, CallsAreOfOne DEF IInv
  <2> QED
    BY <1>1, <2>1, <2>3, OnlyQuitAnswers
<1>6. ASSUME NEW r \in Requests, NEW token \in Tokens, NEW userId \in Users,
             FindRoom(r, token) \/ GetHold(r, userId, token)
      PROVE  UNCHANGED Calendar!calendarVars
  <2>1. UNCHANGED bookings /\ req[r].op = "none"
        /\ \A q \in Requests : q # r => req'[q] = req[q]
    BY <1>6 DEF FindRoom, GetHold, stores, IInv, TypeOK, RequestsWellFormed, Begin,
       Refuse
  <2>2. req'[r].reply # "CONFIRMED"
    BY <1>6 DEF FindRoom, GetHold, IInv, TypeOK, Begin, Refuse, CreateVerdict
  <2>3. ~Confirmed(r) /\ ~Confirmed(r)'
    BY <2>1, <2>2 DEF Confirmed, Replied
  <2> QED
    BY <1>1, <2>1, <2>3, ReceiptsStay
<1>7. ASSUME NEW r \in Requests, CallRejected(r)
      PROVE  UNCHANGED Calendar!calendarVars
  <2>1. Moves(r, "quit")
    BY <1>7, ThrowMoves DEF CallRejected, Rejection, IInv
  <2>2. receiptsOf' = receiptsOf
    BY <1>7, <2>1, CallsAreOfOne, OnlyQuitAnswers DEF CallRejected
  <2> QED
    BY <1>1, <1>7, <2>2 DEF CallRejected, stores
<1>8. CASE Crash
  <2>1. \A q \in Requests : Confirmed(q)' = Confirmed(q)
    BY <1>8 DEF Crash, LoseRequests, IInv, TypeOK, RequestRecords, Confirmed, Replied,
       Active, ActiveStages, CallStages, CreateStages, ConfirmStages
  <2> QED
    BY <1>1, <1>8, <2>1 DEF Crash, LoseRequests, stores, receiptsOf
<1>9. ASSUME UNCHANGED <<bookings, req>>
      PROVE  UNCHANGED Calendar!calendarVars
  BY <1>1, <1>9 DEF receiptsOf, Confirmed, Replied
<1>10. ASSUME NEW r \in Requests, Proceed(r)
       PROVE  [Calendar!CalendarNext]_(Calendar!calendarVars)
  BY <1>3, <1>4, <1>5, <1>10 DEF Proceed
<1>11. CASE \/ \E key \in LockKeys : ExpireLock(key)
            \/ \E token \in Tokens : ExpireHold(token)
            \/ Tick \/ EditRooms \/ UNCHANGED vars
  BY <1>9, <1>11 DEF ExpireLock, ExpireHold, Tick, EditRooms, stores, vars
<1>12. CASE \E r \in Requests, token \in Tokens : FindRoom(r, token)
  BY <1>6, <1>12 DEF Tokens
<1> QED
  BY <1>6, <1>7, <1>8, <1>10, <1>11, <1>12 DEF Next, Step

\* Rows are only ever added, where they share no instant with another row of the
\* room, and each CONFIRMED answer is a receipt for one of them.
THEOREM BookingImplementsCalendar == Spec => ImplementsCalendar
<1>1. Init => Calendar!CalendarInit
  BY DEF Init, Calendar!CalendarInit, Confirmed, Replied, NoRequest
<1>2. IInv /\ [Next]_vars => [Calendar!CalendarNext]_(Calendar!calendarVars)
  BY CalendarStep
<1> QED
  BY <1>1, <1>2, Invariance, PTL DEF Spec, ImplementsCalendar, Calendar!CalendarSpec

\* BookingSearch assumes of the entries of its calendar what the handlers grant of
\* the rows they write (BookingSearch!EntriesAssumption, for owners of RoomIds),
\* once the calendar is read at every start a guest can name.
LEMMA EntriesSuitLists ==
  ASSUME Starts \subseteq Instants
  PROVE  \A e \in Entries :
           /\ e.roomId \in RoomIds
           /\ e.startAt \in Nat \cap Instants
           /\ e.endAt = Null \/ (e.endAt \in Nat /\ e.startAt < e.endAt)
BY EndTimesAreInstants, ClockAssumption DEF Entries, EndValues
=============================================================================
