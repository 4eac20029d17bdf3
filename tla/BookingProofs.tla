--------------------------- MODULE BookingProofs ---------------------------
(***************************************************************************)
(* Proofs about the booking context for every set of requests, rooms,      *)
(* users, starts and slot lengths, with and without faults, and for both   *)
(* schemas.                                                                *)
(***************************************************************************)
EXTENDS BookingInvariant, TLAPS

-----------------------------------------------------------------------------
(* Facts about the data *)

\* Ends are instants, and NULL is none of them.
LEMMA EndTimesAreInstants == EndTimes \subseteq Nat /\ Null \notin EndTimes
<1>1. \A startAt \in Starts, slot \in SlotMins : startAt + slot \in Nat
  BY ClockAssumption, SlotMinsAssumption
<1>2. \A h \in CarriedHolds : h.endAt \in Nat
  BY CarriedAssumption
<1>3. EndTimes \subseteq Nat
  BY <1>1, <1>2 DEF EndTimes
<1> QED
  BY <1>3, NullAssumption

\* The records a request and a row are made of stay in their types.
LEMMA RowTypes ==
  ASSUME TypeOK, NEW r \in Requests, req[r].token \in Tokens
  PROVE  /\ CreatedRow(r) \in Rows
         /\ ConfirmedRow(r) \in Rows
         /\ LockKey(req[r].token) \in LockKeys
<1>1. req[r].token.roomId \in RoomIds /\ req[r].token.userId \in Users
        /\ req[r].token.startAt \in Starts
  BY DEF Tokens
<1>2. req[r].endAt \in EndValues
  BY DEF TypeOK, RequestRecords
<1> QED
  BY <1>1, <1>2 DEF CreatedRow, ConfirmedRow, Rows, BookingStatus, EndValues,
                    LockKey, LockKeys

-----------------------------------------------------------------------------
(* Type correctness *)

LEMMA MoveTypes ==
  ASSUME TypeOK, NEW r \in Requests
  PROVE  /\ \A stage \in ActiveStages :
              Goto(r, stage) => req' \in [Requests -> RequestRecords]
         /\ \A reply \in Replies :
              Throw(r, reply) => req' \in [Requests -> RequestRecords]
         /\ \A next \in ActiveStages :
              CarriedOut(r, next) => req' \in [Requests -> RequestRecords]
         /\ \A op \in {"create", "confirm"}, token \in Tokens,
               stage \in ActiveStages, endAt \in EndValues :
              Begin(r, op, token, stage, endAt)
                => req' \in [Requests -> RequestRecords]
         /\ \A op \in {"create", "confirm"}, token \in Tokens,
               stage \in {"quit", "replied"}, reply \in Replies :
              Refuse(r, op, token, stage, reply)
                => req' \in [Requests -> RequestRecords]
<1> USE DEF TypeOK, RequestRecords
<1>1. \A stage \in ActiveStages :
        Goto(r, stage) => req' \in [Requests -> RequestRecords]
  BY DEF Goto
<1>2. \A reply \in Replies :
        Throw(r, reply) => req' \in [Requests -> RequestRecords]
  <2> TAKE reply \in Replies
  <2>1. \A stage \in {"quit", "replied"} :
          [req[r] EXCEPT !.stage = stage, !.reply = reply] \in RequestRecords
    BY DEF ActiveStages
  <2> QED
    BY <2>1 DEF Throw
<1>3. \A next \in ActiveStages :
        CarriedOut(r, next) => req' \in [Requests -> RequestRecords]
  <2>1. Rejection(r) \in Replies
    BY DEF Rejection, Replies
  <2> QED
    BY <1>1, <1>2, <2>1 DEF CarriedOut
<1>4. \A op \in {"create", "confirm"}, token \in Tokens,
         stage \in ActiveStages, endAt \in EndValues :
        Begin(r, op, token, stage, endAt)
          => req' \in [Requests -> RequestRecords]
  BY DEF Begin
<1>5. \A op \in {"create", "confirm"}, token \in Tokens,
         stage \in {"quit", "replied"}, reply \in Replies :
        Refuse(r, op, token, stage, reply)
          => req' \in [Requests -> RequestRecords]
  BY DEF Refuse, EndValues, ActiveStages
<1> QED
  BY <1>1, <1>2, <1>3, <1>4, <1>5

\* A verdict that lets a create go on comes from a room, and gives an end.
LEMMA SlotEnds ==
  ASSUME TypeOK, NEW token \in Tokens,
         CreateVerdict(rooms[token.roomId], token.startAt) = "OK"
  PROVE  LET endAt == token.startAt + rooms[token.roomId].slotDurationMin
         IN endAt \in EndTimes /\ token.startAt < endAt
<1>1. rooms[token.roomId] \in RoomRows
  BY DEF TypeOK, RoomsTypeOK, CreateVerdict, Tokens
<1>2. rooms[token.roomId].slotDurationMin \in SlotMins
  BY <1>1 DEF RoomRows
<1>3. token.startAt \in Starts
  BY DEF Tokens
<1> DEFINE slot == rooms[token.roomId].slotDurationMin
<1>4. token.startAt + slot \in EndTimes
  BY <1>2, <1>3 DEF EndTimes
<1>5. token.startAt \in Nat /\ slot \in Nat \ {0}
  BY <1>2, <1>3, SlotMinsAssumption, ClockAssumption
<1>6. token.startAt < token.startAt + slot
  BY <1>5
<1> QED
  BY <1>4, <1>6

LEMMA CommitTypes ==
  ASSUME TypeOK, NEW r \in Requests, NEW row \in Rows, NEW next \in ActiveStages,
         Commit(r, row, next)
  PROVE  bookings' \subseteq Rows /\ req' \in [Requests -> RequestRecords]
<1>1. "BOOKING.SLOT_TAKEN" \in Replies
  BY DEF Replies
<1>2. req' \in [Requests -> RequestRecords]
  BY <1>1, MoveTypes DEF Commit
<1> QED
  BY <1>2 DEF Commit, TypeOK

LEMMA TypeOKStep == TypeOK /\ RequestsWellFormed /\ [Next]_vars => TypeOK'
<1> SUFFICES ASSUME TypeOK, RequestsWellFormed, [Next]_vars
             PROVE  TypeOK'
  OBVIOUS
<1> USE DEF TypeOK, stores
<1>1. ASSUME NEW r \in Requests, NEW token \in Tokens, FindRoom(r, token)
      PROVE  TypeOK'
  <2> DEFINE verdict == CreateVerdict(rooms[token.roomId], token.startAt)
  <2>1. CASE verdict = "OK"
    BY <1>1, <2>1, SlotEnds, MoveTypes
       DEF FindRoom, RoomsTypeOK, ActiveStages, CallStages, CreateStages, EndValues
  <2>2. CASE verdict # "OK"
    <3>1. verdict \in Replies
      BY <2>2 DEF CreateVerdict, Replies
    <3> QED
      BY <1>1, <2>2, <3>1, MoveTypes DEF FindRoom, RoomsTypeOK
  <2> QED
    BY <2>1, <2>2
<1>2. ASSUME NEW r \in Requests, NEW userId \in Users, NEW token \in Tokens,
             GetHold(r, userId, token)
      PROVE  TypeOK'
  <2>1. holds[token] \in EndValues
    OBVIOUS
  <2> QED
    BY <1>2, <2>1, MoveTypes
       DEF GetHold, RoomsTypeOK, ActiveStages, CallStages, ConfirmStages, Replies
<1>3. ASSUME NEW r \in Requests, Proceed(r)
      PROVE  TypeOK'
  <2>1. req[r].token \in Tokens
    BY <1>3 DEF Proceed, InsertBooking, AcquireLock, PutHold, SaveConfirmed,
                DeleteHold, DeleteLock, NotifyConfirmed, Quit, RequestsWellFormed
  <2>2. LockKey(req[r].token) \in LockKeys /\ req[r].token.userId \in Users
    BY <2>1, RowTypes DEF Tokens
  <2>3. CASE InsertBooking(r)
    <3>1. bookings' \subseteq Rows /\ req' \in [Requests -> RequestRecords]
      BY <2>1, <2>3, RowTypes, CommitTypes
         DEF InsertBooking, ActiveStages, CallStages, CreateStages
    <3> QED
      BY <2>3, <3>1 DEF InsertBooking, RoomsTypeOK
  <2>4. CASE AcquireLock(r)
    BY <2>2, <2>4, MoveTypes
       DEF AcquireLock, RoomsTypeOK, ActiveStages, CallStages, CreateStages, Replies
  <2>5. CASE PutHold(r)
    <3>1. req[r].endAt \in EndValues
      BY DEF RequestRecords
    <3> QED
      BY <2>1, <2>5, <3>1, MoveTypes DEF PutHold, RoomsTypeOK, ActiveStages
  <2>6. CASE SaveConfirmed(r)
    <3>1. bookings' \subseteq Rows /\ req' \in [Requests -> RequestRecords]
      BY <2>1, <2>6, RowTypes, CommitTypes
         DEF SaveConfirmed, ActiveStages, CallStages, ConfirmStages
    <3> QED
      BY <2>6, <3>1 DEF SaveConfirmed, RoomsTypeOK
  <2>7. CASE DeleteHold(r)
    BY <2>1, <2>7, MoveTypes
       DEF DeleteHold, RoomsTypeOK, ActiveStages, CallStages, ConfirmStages, EndValues
  <2>8. CASE DeleteLock(r)
    BY <2>2, <2>8, MoveTypes
       DEF DeleteLock, RoomsTypeOK, ActiveStages, CallStages, ConfirmStages
  <2>9. CASE NotifyConfirmed(r)
    BY <2>2, <2>9, MoveTypes DEF NotifyConfirmed, RoomsTypeOK, ActiveStages
  <2>10. CASE Quit(r)
    <3>1. \A reply \in Replies :
            [req[r] EXCEPT !.stage = "replied", !.reply = reply] \in RequestRecords
      BY DEF RequestRecords
    <3>2. (IF req[r].reply = "none" THEN SuccessReply(req[r].op) ELSE req[r].reply)
            \in Replies
      BY DEF RequestRecords, SuccessReply, Replies
    <3>3. req' \in [Requests -> RequestRecords]
      BY <2>10, <3>1, <3>2 DEF Quit
    <3> QED
      BY <2>10, <3>3 DEF Quit, RoomsTypeOK
  <2> QED
    BY <1>3, <2>3, <2>4, <2>5, <2>6, <2>7, <2>8, <2>9, <2>10 DEF Proceed
<1>4. ASSUME NEW r \in Requests, CallRejected(r)
      PROVE  TypeOK'
  <2>1. Rejection(r) \in Replies
    BY DEF Rejection, Replies
  <2> QED
    BY <1>4, <2>1, MoveTypes DEF CallRejected, RoomsTypeOK
<1>5. CASE Crash
  <2>1. \A r \in Requests : [req[r] EXCEPT !.stage = "lost"] \in RequestRecords
    BY DEF RequestRecords
  <2>2. req' \in [Requests -> RequestRecords]
    BY <1>5, <2>1 DEF Crash, LoseRequests
  <2> QED
    BY <1>5, <2>2 DEF Crash, LoseRequests, RoomsTypeOK
<1>6. ASSUME NEW key \in LockKeys, ExpireLock(key)
      PROVE  TypeOK'
  BY <1>6 DEF ExpireLock, RoomsTypeOK
<1>7. ASSUME NEW token \in Tokens, ExpireHold(token)
      PROVE  TypeOK'
  BY <1>7 DEF ExpireHold, RoomsTypeOK, EndValues
<1>8. CASE Tick
  BY <1>8 DEF Tick, RoomsTypeOK
<1>9. CASE EditRooms
  <2>1. RoomsTypeOK'
    BY <1>9 DEF EditRooms, CreateRoom, UpdateRoom, MayManageRooms, RoomsTypeOK,
       RoomRows
  <2> QED
    BY <1>9, <2>1 DEF EditRooms
<1>10. CASE UNCHANGED vars
  BY <1>10 DEF vars, RoomsTypeOK
<1> QED
  BY <1>1, <1>2, <1>3, <1>4, <1>5, <1>6, <1>7, <1>8, <1>9, <1>10 DEF Next, Step

-----------------------------------------------------------------------------
(* What the exclusion constraint says about requests *)

\* A create and a confirm of one slot do not both have their rows.
LEMMA CreateShutsConfirmOut ==
  ASSUME NoOverlap, RequestsWellFormed, NEW r \in Requests, NEW q \in Requests,
         CreatedRow(q) \in bookings, ConfirmedRow(r) \in bookings,
         req[r].endAt # Null
  PROVE  LockKey(req[r].token) # LockKey(req[q].token)
<1> SUFFICES ASSUME LockKey(req[r].token) = LockKey(req[q].token)
             PROVE  FALSE
  OBVIOUS
<1>1. req[r].token.startAt < req[r].endAt
  BY DEF RequestsWellFormed
<1>2. Excluded(CreatedRow(q), ConfirmedRow(r))
  BY <1>1 DEF CreatedRow, ConfirmedRow, LockKey, Excluded, RangesOverlap
<1>3. CreatedRow(q) # ConfirmedRow(r)
  BY DEF CreatedRow, ConfirmedRow
<1> QED
  BY <1>2, <1>3 DEF NoOverlap

-----------------------------------------------------------------------------
(* The inductive invariant, action by action *)

\* The invariant but for its types.
StateInv ==
  /\ RequestsWellFormed
  /\ RowsAreOfRequests
  /\ NoOverlap
  /\ CommittedRowsStand
  /\ LocksAreOfCreates
  /\ HoldsEndAfterStart
  /\ SpentHoldsGone
  /\ MailsMatchRows

LEMMA BeginStep ==
  ASSUME IInv, NEW r \in Requests, req[r].stage = "idle",
         NEW rec \in RequestRecords,
         req' = [req EXCEPT ![r] = rec],
         rec.token \in Tokens, rec.op # "none",
         \/ /\ \/ rec.op = "create" /\ rec.stage = "insert"
               \/ rec.op = "confirm" /\ rec.stage = "save"
            /\ rec.endAt # Null /\ rec.reply = "none"
         \/ /\ rec.stage \in {"quit", "replied"}
            /\ rec.reply \notin {"CREATED", "CONFIRMED", "none"},
         rec.endAt # Null => rec.token.startAt < rec.endAt,
         UNCHANGED stores
  PROVE  StateInv'
<1> USE DEF IInv, TypeOK, stores
<1>1. \A op \in {"create", "confirm"} : ~Succeeded(r, op)'
  BY DEF Succeeded, SuccessReply
<1>2. \A q \in Requests : q # r => req'[q] = req[q]
  OBVIOUS
<1>3. RequestsWellFormed'
  <2> SUFFICES ASSUME NEW q \in Requests
               PROVE  RequestsWellFormed!(q)'
    BY DEF RequestsWellFormed
  <2>1. CASE q = r
    BY <1>1, <2>1 DEF RequestsWellFormed, CallStages, CreateStages, ConfirmStages
  <2>2. CASE q # r
    BY <1>2, <2>2 DEF RequestsWellFormed, Succeeded
  <2> QED
    BY <2>1, <2>2
<1>4. req[r].op = "none"
  BY DEF RequestsWellFormed
<1>5. ~CreateCommitted(r)' /\ ~ConfirmCommitted(r)'
  BY <1>1 DEF CreateCommitted, ConfirmCommitted
<1>6. \A q \in Requests : q # r =>
        /\ CreatedRow(q)' = CreatedRow(q)
        /\ ConfirmedRow(q)' = ConfirmedRow(q)
        /\ RowOf(q)' = RowOf(q)
        /\ Succeeded(q, "confirm")' = Succeeded(q, "confirm")
        /\ CreateCommitted(q)' = CreateCommitted(q)
        /\ ConfirmCommitted(q)' = ConfirmCommitted(q)
  BY <1>2 DEF CreatedRow, ConfirmedRow, RowOf, Succeeded, CreateCommitted,
              ConfirmCommitted
<1>7. RowsAreOfRequests'
  <2>1. \A row \in bookings : row.id \in Requests /\ row.id # r
    BY DEF RowsAreOfRequests, Rows
  <2> QED
    BY <1>2, <1>6, <2>1 DEF RowsAreOfRequests
<1>8. NoOverlap'
  BY DEF NoOverlap
<1>9. CommittedRowsStand'
  BY <1>5, <1>6 DEF CommittedRowsStand
<1>10. LocksAreOfCreates'
  BY <1>2, <1>4, <1>6 DEF LocksAreOfCreates
<1>11. HoldsEndAfterStart'
  BY DEF HoldsEndAfterStart
<1>12. SpentHoldsGone'
  BY <1>1, <1>2, <1>6 DEF SpentHoldsGone
<1>13. MailsMatchRows'
  <2>1. \A m \in mailed : m[2] \in Requests /\ m[2] # r
    BY <1>4 DEF MailsMatchRows
  <2> QED
    BY <1>1, <1>2, <1>6, <2>1 DEF MailsMatchRows
<1> QED
  BY <1>3, <1>7, <1>8, <1>9, <1>10, <1>11, <1>12, <1>13 DEF StateInv

\* What every request is about stays what it was.
SameCalls ==
  \A q \in Requests : /\ req'[q].op = req[q].op
                      /\ req'[q].token = req[q].token
                      /\ req'[q].endAt = req[q].endAt

\* The awaited call of r was rejected, or its outcome refused: r ends in failure.
Failing(r) ==
  /\ req[r].stage \in {"quit", "replied"}
  /\ req[r].reply \in {"BOOKING.SLOT_TAKEN", "INTERNAL"}

\* Request r goes on to the stage next, or starts to end in failure.
Moves(r, next) ==
  /\ SameCalls
  /\ \A q \in Requests : q # r => req'[q] = req[q]
  /\ Failing(r)' \/ (req'[r].stage = next /\ req'[r].reply = "none")

LEMMA CallsAreOfOne ==
  /\ CreateStages \cap ConfirmStages = {}
  /\ CallStages = CreateStages \cup ConfirmStages
  /\ CallStages \subseteq ActiveStages /\ "quit" \in ActiveStages
  /\ \A stage \in {"idle", "quit", "replied", "lost"} : stage \notin CallStages
BY DEF CallStages, ActiveStages, CreateStages, ConfirmStages

LEMMA GotoMoves ==
  ASSUME TypeOK, RequestsWellFormed, NEW r \in Requests,
         req[r].stage \in CallStages, NEW next \in ActiveStages, Goto(r, next)
  PROVE  Moves(r, next) /\ req'[r].stage = next /\ req'[r].reply = "none"
BY DEF TypeOK, RequestRecords, RequestsWellFormed, Goto, Moves, SameCalls

LEMMA ThrowMoves ==
  ASSUME TypeOK, NEW r \in Requests,
         NEW reply \in {"BOOKING.SLOT_TAKEN", "INTERNAL"}, Throw(r, reply),
         NEW next
  PROVE  Moves(r, next) /\ Failing(r)'
<1>1. /\ req'[r].stage \in {"quit", "replied"} /\ req'[r].reply = reply
      /\ req'[r].op = req[r].op /\ req'[r].token = req[r].token
      /\ req'[r].endAt = req[r].endAt
  <2>1. req[r] \in RequestRecords
    BY DEF TypeOK
  <2> QED
    BY <2>1 DEF TypeOK, RequestRecords, Throw
<1>2. \A q \in Requests : q # r => req'[q] = req[q]
  BY DEF TypeOK, Throw
<1> QED
  BY <1>1, <1>2 DEF Moves, SameCalls, Failing

LEMMA CarriedOutMoves ==
  ASSUME TypeOK, RequestsWellFormed, NEW r \in Requests,
         req[r].stage \in CallStages, NEW next \in ActiveStages, CarriedOut(r, next)
  PROVE  Moves(r, next)
<1>1. Rejection(r) \in {"BOOKING.SLOT_TAKEN", "INTERNAL"}
  BY DEF Rejection
<1> QED
  BY <1>1, GotoMoves, ThrowMoves DEF CarriedOut

LEMMA FailingIsNoSuccess ==
  ASSUME NEW r \in Requests, Failing(r), NEW op \in {"create", "confirm"}
  PROVE  ~Succeeded(r, op)
BY DEF Failing, Succeeded, SuccessReply

LEMMA SameRows ==
  ASSUME SameCalls, NEW q \in Requests
  PROVE  /\ CreatedRow(q)' = CreatedRow(q)
         /\ ConfirmedRow(q)' = ConfirmedRow(q)
         /\ RowOf(q)' = RowOf(q)
BY DEF SameCalls, CreatedRow, ConfirmedRow, RowOf

LEMMA MoveWellFormed ==
  ASSUME TypeOK, RequestsWellFormed, NEW r \in Requests,
         req[r].stage \in CallStages, NEW next, Moves(r, next),
         \/ req[r].stage \in CreateStages /\ next \in CreateStages \cup {"quit"}
         \/ req[r].stage \in ConfirmStages /\ next \in ConfirmStages \cup {"quit"}
  PROVE  RequestsWellFormed'
<1> SUFFICES ASSUME NEW q \in Requests
             PROVE  RequestsWellFormed!(q)'
  BY DEF RequestsWellFormed
<1>1. CASE q # r
  BY <1>1 DEF RequestsWellFormed, Moves, Succeeded
<1>2. CASE q = r
  <2>1. /\ req'[r].op = req[r].op /\ req'[r].token = req[r].token
        /\ req'[r].endAt = req[r].endAt
        /\ req[r].op \in {"create", "confirm"} /\ req[r].token \in Tokens
        /\ req[r].endAt # Null /\ req[r].token.startAt < req[r].endAt
    BY DEF RequestsWellFormed, Moves, SameCalls, CallStages, CreateStages, ConfirmStages
  <2>2. CASE Failing(r)'
    BY <1>2, <2>1, <2>2, CallsAreOfOne DEF RequestsWellFormed, Failing, Succeeded, SuccessReply
  <2>3. CASE req'[r].stage = next /\ req'[r].reply = "none"
    BY <1>2, <2>1, <2>3
       DEF RequestsWellFormed, CallStages, CreateStages, ConfirmStages
  <2> QED
    BY <2>2, <2>3 DEF Moves
<1> QED
  BY <1>1, <1>2

\* The parts of the invariant under a move of request r, each from what the
\* move does to the state that part is about.

LEMMA MoveKeepsRows ==
  ASSUME IInv, NEW r \in Requests, NEW next, Moves(r, next), UNCHANGED bookings,
         next \notin {"idle", "insert", "save"}
  PROVE  RowsAreOfRequests' /\ NoOverlap'
<1>1. \A row \in bookings : row.id \in Requests
  BY DEF IInv, TypeOK, Rows
<1>2. RowsAreOfRequests'
  BY <1>1, SameRows DEF IInv, RowsAreOfRequests, Moves, Failing
<1> QED
  BY <1>2 DEF IInv, NoOverlap

LEMMA MoveAddsRow ==
  ASSUME IInv, NEW r \in Requests, NEW next, Moves(r, next),
         req[r].stage \in {"insert", "save"}, req[r].token \in Tokens,
         Accepts(bookings, RowOf(r)),
         bookings' = bookings \cup {RowOf(r)},
         next \notin {"idle", "insert", "save"}
  PROVE  RowsAreOfRequests' /\ NoOverlap'
<1>1. \A row \in bookings : row.id \in Requests /\ row.id # r
  BY DEF IInv, TypeOK, Rows, RowsAreOfRequests
<1>2. RowOf(r).id = r
  BY DEF RowOf, CreatedRow, ConfirmedRow
<1>3. RowsAreOfRequests'
  BY <1>1, <1>2, SameRows DEF IInv, RowsAreOfRequests, Moves, Failing
<1>4. \A row \in bookings : ~Excluded(row, RowOf(r)) /\ ~Excluded(RowOf(r), row)
  BY DEF Accepts, Excluded, RangesOverlap
<1>5. NoOverlap'
  BY <1>4 DEF IInv, NoOverlap, Excluded, RangesOverlap
<1> QED
  BY <1>3, <1>5

LEMMA MoveKeepsCommitted ==
  ASSUME IInv, NEW r \in Requests, NEW next, Moves(r, next),
         bookings \subseteq bookings',
         CreateCommitted(r)' => CreatedRow(r) \in bookings',
         ConfirmCommitted(r)' => ConfirmedRow(r) \in bookings'
  PROVE  CommittedRowsStand'
<1> SUFFICES ASSUME NEW q \in Requests
             PROVE  /\ CreateCommitted(q)' => CreatedRow(q)' \in bookings'
                    /\ ConfirmCommitted(q)' => ConfirmedRow(q)' \in bookings'
  BY DEF CommittedRowsStand
<1>1. CreatedRow(q)' = CreatedRow(q) /\ ConfirmedRow(q)' = ConfirmedRow(q)
  BY SameRows DEF Moves
<1>2. CASE q = r
  BY <1>1, <1>2
<1>3. CASE q # r
  <2>1. req'[q] = req[q]
    BY <1>3 DEF Moves
  <2>2. /\ CreateCommitted(q)' = CreateCommitted(q)
        /\ ConfirmCommitted(q)' = ConfirmCommitted(q)
    BY <2>1 DEF CreateCommitted, ConfirmCommitted, Succeeded
  <2> QED
    BY <1>1, <2>2 DEF IInv, CommittedRowsStand
<1> QED
  BY <1>2, <1>3

\* A call makes its own handler succeed, if it is the last one, and no other.
LEMMA MoveIsOfItsOwn ==
  ASSUME RequestsWellFormed, NEW r \in Requests, req[r].stage \in CallStages,
         NEW next \in ActiveStages, Moves(r, next)
  PROVE  /\ req[r].op = "confirm" => ~Succeeded(r, "create")'
         /\ req[r].op = "create" => ~Succeeded(r, "confirm")'
         /\ next # "quit" => ~Succeeded(r, "create")' /\ ~Succeeded(r, "confirm")'
BY DEF Moves, SameCalls, Succeeded, SuccessReply, Failing, CallStages, ActiveStages,
       CreateStages, ConfirmStages

LEMMA MoveKeepsLocks ==
  ASSUME IInv, NEW r \in Requests, NEW next, Moves(r, next),
         bookings \subseteq bookings', next # "lock",
         \A key \in LockKeys : locks'[key] \in {locks[key], Null}
  PROVE  LocksAreOfCreates'
<1> SUFFICES ASSUME NEW key \in LockKeys, locks'[key] \in Requests
             PROVE  /\ req'[locks'[key]].op = "create"
                    /\ req'[locks'[key]].stage # "lock"
                    /\ LockKey(req'[locks'[key]].token) = key
                    /\ CreatedRow(locks[key])' \in bookings'
                    /\ locks'[key] = locks[key]
  BY DEF LocksAreOfCreates, LockKey, CreatedRow
<1>1. locks'[key] = locks[key]
  BY IdAssumption
<1> DEFINE q == locks[key]
<1>2. CreatedRow(q)' = CreatedRow(q)
  BY <1>1, SameRows DEF Moves, CreatedRow, SameCalls
<1>3. /\ req[q].op = "create" /\ req[q].stage # "lock"
      /\ LockKey(req[q].token) = key /\ CreatedRow(q) \in bookings
  BY <1>1 DEF IInv, LocksAreOfCreates
<1>4. req'[q].op = req[q].op /\ req'[q].token = req[q].token
  BY <1>1 DEF Moves, SameCalls
<1>5. req'[q].stage # "lock"
  BY <1>1, <1>3 DEF Moves, Failing
<1> QED
  BY <1>1, <1>2, <1>3, <1>4, <1>5

LEMMA MoveKeepsHolds ==
  ASSUME IInv, NEW r \in Requests, NEW next, Moves(r, next),
         \A token \in Tokens : holds'[token] \in {holds[token], Null},
         req[r].token \in Tokens,
         \/ next \notin {"delLock", "notify"} /\ ~Succeeded(r, "confirm")'
         \/ holds'[req[r].token] = Null
  PROVE  HoldsEndAfterStart' /\ SpentHoldsGone'
<1>1. HoldsEndAfterStart'
  BY DEF IInv, HoldsEndAfterStart
<1>2. ASSUME NEW q \in Requests,
             req'[q].stage \in {"delLock", "notify"} \/ Succeeded(q, "confirm")'
      PROVE  holds'[req'[q].token] = Null
  <2>1. CASE q = r
    BY <1>2, <2>1 DEF Moves, SameCalls, Failing
  <2>2. CASE q # r
    <3>1. req'[q] = req[q]
      BY <2>2 DEF Moves
    <3>2. req[q].stage \in {"delLock", "notify"} \/ Succeeded(q, "confirm")
      BY <1>2, <3>1 DEF Succeeded
    <3>3. req[q].token \in Tokens
      BY <3>2 DEF IInv, RequestsWellFormed, Succeeded
    <3> QED
      BY <3>1, <3>2, <3>3 DEF IInv, SpentHoldsGone
  <2> QED
    BY <2>1, <2>2
<1>3. SpentHoldsGone'
  BY <1>2 DEF SpentHoldsGone
<1> QED
  BY <1>1, <1>3

LEMMA MoveKeepsMails ==
  ASSUME IInv, NEW r \in Requests, NEW next, Moves(r, next), UNCHANGED mailed,
         bookings \subseteq bookings', ~Succeeded(r, "confirm")'
  PROVE  MailsMatchRows'
<1>1. \A q \in Requests : q # r =>
        Succeeded(q, "confirm")' = Succeeded(q, "confirm")
  BY DEF Moves, Succeeded
<1>2. SameCalls
  BY DEF Moves
<1>3. \A m \in mailed : m[2] \in Requests
  BY DEF IInv, TypeOK
<1>4. \A m \in mailed : ConfirmedRow(m[2])' = ConfirmedRow(m[2])
  BY <1>2, <1>3, SameRows
<1> QED
  BY <1>1, <1>2, <1>3, <1>4 DEF IInv, MailsMatchRows, SameCalls

\* Requests end: those that do succeed only if they had, and no store changes.
LEMMA EndStep ==
  ASSUME IInv, SameCalls, UNCHANGED stores, RequestsWellFormed',
         \A q \in Requests : \/ req'[q].stage = req[q].stage
                             \/ req'[q].stage \in {"quit", "replied", "lost"},
         \A q \in Requests, op \in {"create", "confirm"} :
           Succeeded(q, op)' => Succeeded(q, op)
  PROVE  StateInv'
<1> USE DEF StateInv, stores
<1>1. RowsAreOfRequests' /\ NoOverlap'
  <2>1. \A row \in bookings : row.id \in Requests
    BY DEF IInv, TypeOK, Rows
  <2> QED
    BY <2>1, SameRows DEF IInv, RowsAreOfRequests, NoOverlap
<1>2. CommittedRowsStand'
  BY SameRows DEF IInv, CommittedRowsStand, CreateCommitted, ConfirmCommitted
<1>3. LocksAreOfCreates'
  BY SameRows DEF IInv, LocksAreOfCreates, SameCalls
<1>4. HoldsEndAfterStart' /\ SpentHoldsGone'
  BY DEF IInv, HoldsEndAfterStart, SpentHoldsGone, SameCalls
<1>5. MailsMatchRows'
  <2>1. \A m \in mailed : m[2] \in Requests
    BY DEF IInv, TypeOK
  <2> QED
    BY <2>1, SameRows DEF IInv, MailsMatchRows, SameCalls
<1> QED
  BY <1>1, <1>2, <1>3, <1>4, <1>5

-----------------------------------------------------------------------------
(* The actions *)

LEMMA FindRoomStep ==
  ASSUME IInv, NEW r \in Requests, NEW token \in Tokens, FindRoom(r, token)
  PROVE  StateInv'
<1> DEFINE verdict == CreateVerdict(rooms[token.roomId], token.startAt)
           endAt == token.startAt + rooms[token.roomId].slotDurationMin
<1>1. req[r].stage = "idle" /\ UNCHANGED stores
  BY DEF FindRoom
<1>2. CASE verdict = "OK"
  <2> DEFINE rec == [op |-> "create", stage |-> "insert", token |-> token,
                     endAt |-> endAt, reply |-> "none"]
  <2>1. req' = [req EXCEPT ![r] = rec]
    BY <1>2 DEF FindRoom, Begin
  <2>2. endAt \in EndTimes /\ token.startAt < endAt
    BY <1>2, SlotEnds DEF IInv
  <2>3. endAt # Null
    BY <2>2, EndTimesAreInstants
  <2>4. rec \in RequestRecords
    BY <2>2 DEF RequestRecords, ActiveStages, CallStages, CreateStages, EndValues
  <2> QED
    BY <1>1, <2>1, <2>2, <2>3, <2>4, BeginStep
<1>3. CASE verdict # "OK"
  <2> DEFINE rec == [op |-> "create", stage |-> "replied", token |-> token,
                     endAt |-> Null, reply |-> verdict]
  <2>1. req' = [req EXCEPT ![r] = rec]
    BY <1>3 DEF FindRoom, Refuse
  <2>2. verdict \in Replies /\ verdict \notin {"CREATED", "CONFIRMED", "none"}
    BY <1>3 DEF CreateVerdict, Replies
  <2>3. rec \in RequestRecords
    BY <2>2 DEF RequestRecords, EndValues
  <2> QED
    BY <1>1, <2>1, <2>2, <2>3, BeginStep
<1> QED
  BY <1>2, <1>3

LEMMA GetHoldStep ==
  ASSUME IInv, NEW r \in Requests, NEW userId \in Users, NEW token \in Tokens,
         GetHold(r, userId, token)
  PROVE  StateInv'
<1>1. req[r].stage = "idle" /\ UNCHANGED stores
  BY DEF GetHold
<1>2. ASSUME NEW reply \in {"BOOKING.EXPIRED", "AUTH.FORBIDDEN"},
             Refuse(r, "confirm", token, "quit", reply)
      PROVE  StateInv'
  <2> DEFINE rec == [op |-> "confirm", stage |-> "quit", token |-> token,
                     endAt |-> Null, reply |-> reply]
  <2>1. req' = [req EXCEPT ![r] = rec]
    BY <1>2 DEF Refuse
  <2>2. rec \in RequestRecords
    BY DEF RequestRecords, Replies, EndValues, ActiveStages
  <2> QED
    BY <1>1, <2>1, <2>2, BeginStep
<1>3. ASSUME holds[token] # Null, Begin(r, "confirm", token, "save", holds[token])
      PROVE  StateInv'
  <2> DEFINE rec == [op |-> "confirm", stage |-> "save", token |-> token,
                     endAt |-> holds[token], reply |-> "none"]
  <2>1. req' = [req EXCEPT ![r] = rec]
    BY <1>3 DEF Begin
  <2>2. rec \in RequestRecords
    BY DEF IInv, TypeOK, RequestRecords, ActiveStages, CallStages, ConfirmStages
  <2>3. token.startAt < holds[token]
    BY <1>3 DEF IInv, HoldsEndAfterStart
  <2> QED
    BY <1>1, <1>3, <2>1, <2>2, <2>3, BeginStep
<1> QED
  BY <1>2, <1>3 DEF GetHold

\* Either transaction: r stands before it with the row it is to save.
LEMMA CommitStep ==
  ASSUME IInv, NEW r \in Requests, NEW next,
         \/ req[r].stage = "insert" /\ next = "lock"
         \/ req[r].stage = "save" /\ next = "delHold",
         Commit(r, RowOf(r), next),
         UNCHANGED <<locks, holds, mailed>>
  PROVE  StateInv'
<1> USE DEF StateInv
<1>1. /\ TypeOK /\ RequestsWellFormed /\ req[r].token \in Tokens
      /\ req[r].stage \in CallStages /\ next \in ActiveStages
      /\ \/ req[r].stage \in CreateStages /\ next \in CreateStages
         \/ req[r].stage \in ConfirmStages /\ next \in ConfirmStages
  BY DEF IInv, RequestsWellFormed, ActiveStages, CallStages, CreateStages, ConfirmStages
<1>2. Moves(r, next) /\ (Insertable(RowOf(r)) \/ Failing(r)')
  BY <1>1, CarriedOutMoves, ThrowMoves DEF Commit
<1>3. ~Succeeded(r, "create")' /\ ~Succeeded(r, "confirm")'
  BY <1>1, <1>2, MoveIsOfItsOwn
<1>4. RequestsWellFormed'
  BY <1>1, <1>2, MoveWellFormed
<1>5. RowsAreOfRequests' /\ NoOverlap'
  <2>1. CASE UNCHANGED bookings
    BY <1>2, <2>1, MoveKeepsRows
  <2>2. CASE Accepts(bookings, RowOf(r)) /\ bookings' = bookings \cup {RowOf(r)}
    BY <1>1, <1>2, <2>2, MoveAddsRow
  <2> QED
    BY <2>1, <2>2 DEF Commit, Insertable
<1>6. bookings \subseteq bookings' /\ (Failing(r)' \/ RowOf(r) \in bookings')
  BY <1>2 DEF Commit
<1>7. CommittedRowsStand'
  <2>1. CreateCommitted(r)' => CreatedRow(r) \in bookings'
    BY <1>1, <1>2, <1>3, <1>6
       DEF CreateCommitted, RowOf, RequestsWellFormed, CreateStages, Moves, Failing
  <2>2. ConfirmCommitted(r)' => ConfirmedRow(r) \in bookings'
    BY <1>1, <1>2, <1>3, <1>6
       DEF ConfirmCommitted, RowOf, RequestsWellFormed, ConfirmStages, Moves, Failing
  <2> QED
    BY <1>2, <1>6, <2>1, <2>2, MoveKeepsCommitted
<1>8. LocksAreOfCreates'
  <2>1. \A key \in LockKeys : locks[key] # r
    BY DEF IInv, LocksAreOfCreates, RowsAreOfRequests, CreatedRow, RequestsWellFormed,
           ConfirmStages
  <2>2. \A q \in Requests : CreatedRow(q)' = CreatedRow(q)
    BY <1>2, SameRows DEF Moves
  <2> QED
    BY <1>2, <1>6, <2>1, <2>2 DEF IInv, LocksAreOfCreates, Moves, SameCalls
<1>9. HoldsEndAfterStart' /\ SpentHoldsGone'
  BY <1>1, <1>2, <1>3, MoveKeepsHolds
<1>10. MailsMatchRows'
  BY <1>2, <1>3, <1>6, MoveKeepsMails
<1> QED
  BY <1>4, <1>5, <1>7, <1>8, <1>9, <1>10

LEMMA InsertBookingStep ==
  ASSUME IInv, NEW r \in Requests, InsertBooking(r)
  PROVE  StateInv'
<1>1. req[r].op = "create"
  BY DEF InsertBooking, IInv, RequestsWellFormed, CreateStages
<1>2. RowOf(r) = CreatedRow(r)
  BY <1>1 DEF RowOf
<1> QED
  BY <1>2, CommitStep DEF InsertBooking

LEMMA SaveConfirmedStep ==
  ASSUME IInv, NEW r \in Requests, SaveConfirmed(r)
  PROVE  StateInv'
<1>1. req[r].op = "confirm"
  BY DEF SaveConfirmed, IInv, RequestsWellFormed, ConfirmStages
<1>2. RowOf(r) = ConfirmedRow(r)
  BY <1>1 DEF RowOf
<1> QED
  BY <1>2, CommitStep DEF SaveConfirmed

\* The calls of a create after its transaction.
LEMMA CreatedFacts ==
  ASSUME IInv, NEW r \in Requests, req[r].stage \in {"lock", "hold"}
  PROVE  /\ TypeOK /\ RequestsWellFormed
         /\ req[r].op = "create" /\ req[r].token \in Tokens
         /\ CreatedRow(r) \in bookings /\ req[r].endAt # Null
         /\ req[r].stage \in CallStages /\ req[r].stage \in CreateStages
BY DEF IInv, RequestsWellFormed, CommittedRowsStand, CreateCommitted, CallStages,
       CreateStages

LEMMA AcquireLockStep ==
  ASSUME IInv, NEW r \in Requests, AcquireLock(r)
  PROVE  StateInv'
<1> USE DEF StateInv
<1> DEFINE key == LockKey(req[r].token)
<1>1. /\ TypeOK /\ RequestsWellFormed /\ req[r].token \in Tokens
      /\ req[r].op = "create" /\ CreatedRow(r) \in bookings
      /\ req[r].stage \in CallStages /\ req[r].stage \in CreateStages
      /\ UNCHANGED <<bookings, holds, mailed>>
  BY CreatedFacts DEF AcquireLock
<1>2. "hold" \in ActiveStages /\ "hold" \in CreateStages
  BY DEF ActiveStages, CallStages, CreateStages
<1>3. Moves(r, "hold")
  BY <1>1, <1>2, CarriedOutMoves, ThrowMoves DEF AcquireLock
<1>4. ~Succeeded(r, "create")' /\ ~Succeeded(r, "confirm")'
  BY <1>1, <1>2, <1>3, MoveIsOfItsOwn
<1>5. RequestsWellFormed' /\ RowsAreOfRequests' /\ NoOverlap'
  BY <1>1, <1>2, <1>3, MoveWellFormed, MoveKeepsRows
<1>6. CommittedRowsStand'
  BY <1>1, <1>3, <1>4, MoveKeepsCommitted DEF ConfirmCommitted, Moves, Failing
<1>7. LocksAreOfCreates'
  <2>1. CASE locks' = [locks EXCEPT ![key] = r]
    <3>1. \A q \in Requests : CreatedRow(q)' = CreatedRow(q)
      BY <1>3, SameRows DEF Moves
    <3>2. \A k \in LockKeys : locks'[k] = IF k = key THEN r ELSE locks[k]
      BY <1>1, <2>1, RowTypes DEF TypeOK
    <3>3. /\ req'[r].op = "create" /\ LockKey(req'[r].token) = key
          /\ req'[r].stage # "lock"
      BY <1>1, <1>3 DEF Moves, SameCalls, Failing
    <3> QED
      BY <1>1, <1>3, <3>1, <3>2, <3>3 DEF IInv, LocksAreOfCreates, Moves, SameCalls
  <2>2. CASE UNCHANGED locks
    BY <1>1, <1>3, <2>2, MoveKeepsLocks
  <2> QED
    BY <2>1, <2>2 DEF AcquireLock
<1>8. HoldsEndAfterStart' /\ SpentHoldsGone' /\ MailsMatchRows'
  BY <1>1, <1>3, <1>4, MoveKeepsHolds, MoveKeepsMails
<1> QED
  BY <1>5, <1>6, <1>7, <1>8

LEMMA PutHoldStep ==
  ASSUME IInv, NEW r \in Requests, PutHold(r)
  PROVE  StateInv'
<1> USE DEF StateInv
<1>1. /\ TypeOK /\ RequestsWellFormed /\ req[r].token \in Tokens
      /\ req[r].op = "create" /\ CreatedRow(r) \in bookings /\ req[r].endAt # Null
      /\ req[r].stage \in CallStages /\ req[r].stage \in CreateStages
      /\ UNCHANGED <<bookings, locks, mailed>>
  BY CreatedFacts DEF PutHold
<1>2. "quit" \in ActiveStages
  BY DEF ActiveStages
<1>3. Moves(r, "quit")
  BY <1>1, <1>2, CarriedOutMoves DEF PutHold
<1>4. ~Succeeded(r, "confirm")'
  BY <1>1, <1>2, <1>3, MoveIsOfItsOwn
<1>5. RequestsWellFormed' /\ RowsAreOfRequests' /\ NoOverlap'
  BY <1>1, <1>3, MoveWellFormed, MoveKeepsRows
<1>6. CommittedRowsStand'
  BY <1>1, <1>3, <1>4, MoveKeepsCommitted DEF ConfirmCommitted, Moves, Failing
<1>7. LocksAreOfCreates' /\ MailsMatchRows'
  BY <1>1, <1>3, <1>4, MoveKeepsLocks, MoveKeepsMails
<1>8. \A token \in Tokens :
        holds'[token] = IF token = req[r].token THEN req[r].endAt ELSE holds[token]
  BY <1>1 DEF PutHold, TypeOK
<1>9. HoldsEndAfterStart'
  BY <1>1, <1>8 DEF IInv, HoldsEndAfterStart, RequestsWellFormed
<1>10. SpentHoldsGone'
  \* A confirm of this token has no row, so it has not got past its transaction.
  <2> SUFFICES ASSUME NEW q \in Requests,
                      req'[q].stage \in {"delLock", "notify"} \/ Succeeded(q, "confirm")'
               PROVE  holds'[req'[q].token] = Null
    BY DEF SpentHoldsGone
  <2>1. q # r /\ req'[q] = req[q]
    BY <1>3, <1>4 DEF Moves, Failing
  <2>2. req[q].stage \in {"delLock", "notify"} \/ Succeeded(q, "confirm")
    BY <2>1 DEF Succeeded
  <2>3. req[q].token \in Tokens /\ req[q].endAt # Null
        /\ ConfirmedRow(q) \in bookings /\ holds[req[q].token] = Null
    BY <2>2 DEF IInv, RequestsWellFormed, CommittedRowsStand, ConfirmCommitted,
                SpentHoldsGone, Succeeded, CallStages, ConfirmStages
  <2>4. LockKey(req[q].token) # LockKey(req[r].token)
    BY <1>1, <2>3, CreateShutsConfirmOut DEF IInv
  <2> QED
    BY <1>8, <2>1, <2>3, <2>4
<1> QED
  BY <1>5, <1>6, <1>7, <1>9, <1>10

\* The calls of a confirm after its transaction.
LEMMA ConfirmedFacts ==
  ASSUME IInv, NEW r \in Requests, req[r].stage \in {"delHold", "delLock", "notify"}
  PROVE  /\ TypeOK /\ RequestsWellFormed
         /\ req[r].op = "confirm" /\ req[r].token \in Tokens
         /\ ConfirmedRow(r) \in bookings /\ req[r].endAt # Null
         /\ req[r].stage \in CallStages /\ req[r].stage \in ConfirmStages
BY DEF IInv, RequestsWellFormed, CommittedRowsStand, ConfirmCommitted, CallStages,
       ConfirmStages

LEMMA DeleteHoldStep ==
  ASSUME IInv, NEW r \in Requests, DeleteHold(r)
  PROVE  StateInv'
<1> USE DEF StateInv
<1>1. /\ TypeOK /\ RequestsWellFormed /\ req[r].token \in Tokens
      /\ req[r].op = "confirm" /\ ConfirmedRow(r) \in bookings
      /\ req[r].stage \in CallStages /\ req[r].stage \in ConfirmStages
      /\ UNCHANGED <<bookings, locks, mailed>>
  BY ConfirmedFacts DEF DeleteHold
<1>2. "delLock" \in ActiveStages /\ "delLock" \in ConfirmStages
  BY DEF ActiveStages, CallStages, ConfirmStages
<1>3. Moves(r, "delLock")
  BY <1>1, <1>2, CarriedOutMoves DEF DeleteHold
<1>4. ~Succeeded(r, "create")' /\ ~Succeeded(r, "confirm")'
  BY <1>1, <1>2, <1>3, MoveIsOfItsOwn
<1>5. RequestsWellFormed' /\ RowsAreOfRequests' /\ NoOverlap'
  BY <1>1, <1>2, <1>3, MoveWellFormed, MoveKeepsRows
<1>6. CommittedRowsStand'
  BY <1>1, <1>3, <1>4, MoveKeepsCommitted DEF CreateCommitted, Moves, Failing
<1>7. LocksAreOfCreates' /\ MailsMatchRows'
  BY <1>1, <1>3, <1>4, MoveKeepsLocks, MoveKeepsMails
<1>8. /\ holds'[req[r].token] = Null
      /\ \A token \in Tokens : holds'[token] \in {holds[token], Null}
  BY <1>1 DEF DeleteHold, TypeOK
<1>9. HoldsEndAfterStart' /\ SpentHoldsGone'
  BY <1>1, <1>3, <1>8, MoveKeepsHolds
<1> QED
  BY <1>5, <1>6, <1>7, <1>9

LEMMA DeleteLockStep ==
  ASSUME IInv, NEW r \in Requests, DeleteLock(r)
  PROVE  StateInv'
<1> USE DEF StateInv
<1>1. /\ TypeOK /\ RequestsWellFormed /\ req[r].token \in Tokens
      /\ req[r].op = "confirm" /\ ConfirmedRow(r) \in bookings
      /\ req[r].stage \in CallStages /\ req[r].stage \in ConfirmStages
      /\ req[r].stage = "delLock" /\ UNCHANGED <<bookings, holds, mailed>>
  BY ConfirmedFacts DEF DeleteLock
<1>2. "notify" \in ActiveStages /\ "notify" \in ConfirmStages
  BY DEF ActiveStages, CallStages, ConfirmStages
<1>3. Moves(r, "notify")
  BY <1>1, <1>2, CarriedOutMoves DEF DeleteLock
<1>4. ~Succeeded(r, "create")' /\ ~Succeeded(r, "confirm")'
  BY <1>1, <1>2, <1>3, MoveIsOfItsOwn
<1>5. RequestsWellFormed' /\ RowsAreOfRequests' /\ NoOverlap'
  BY <1>1, <1>2, <1>3, MoveWellFormed, MoveKeepsRows
<1>6. CommittedRowsStand'
  BY <1>1, <1>3, <1>4, MoveKeepsCommitted DEF CreateCommitted, Moves, Failing
<1>7. \A key \in LockKeys : locks'[key] \in {locks[key], Null}
  BY DEF DeleteLock, IInv, TypeOK
<1>8. LocksAreOfCreates' /\ MailsMatchRows'
  BY <1>1, <1>3, <1>4, <1>7, MoveKeepsLocks, MoveKeepsMails
<1>9. holds[req[r].token] = Null
  BY <1>1 DEF IInv, SpentHoldsGone
<1>10. HoldsEndAfterStart' /\ SpentHoldsGone'
  BY <1>1, <1>3, <1>9, MoveKeepsHolds
<1> QED
  BY <1>5, <1>6, <1>8, <1>10

LEMMA NotifyConfirmedStep ==
  ASSUME IInv, NEW r \in Requests, NotifyConfirmed(r)
  PROVE  StateInv'
<1> USE DEF StateInv
<1>1. /\ TypeOK /\ RequestsWellFormed /\ req[r].token \in Tokens
      /\ req[r].op = "confirm" /\ ConfirmedRow(r) \in bookings
      /\ req[r].stage \in CallStages /\ req[r].stage \in ConfirmStages
      /\ req[r].stage = "notify" /\ UNCHANGED <<bookings, locks, holds>>
  BY ConfirmedFacts DEF NotifyConfirmed
<1>2. "quit" \in ActiveStages
  BY DEF ActiveStages
<1>3. Moves(r, "quit")
  BY <1>1, <1>2, CarriedOutMoves DEF NotifyConfirmed
<1>4. ~Succeeded(r, "create")'
  BY <1>1, <1>2, <1>3, MoveIsOfItsOwn
<1>5. RequestsWellFormed' /\ RowsAreOfRequests' /\ NoOverlap'
  BY <1>1, <1>3, MoveWellFormed, MoveKeepsRows
<1>6. CommittedRowsStand'
  BY <1>1, <1>3, <1>4, MoveKeepsCommitted DEF CreateCommitted, Moves, Failing
<1>7. LocksAreOfCreates'
  BY <1>1, <1>3, MoveKeepsLocks
<1>8. holds[req[r].token] = Null
  BY <1>1 DEF IInv, SpentHoldsGone
<1>9. HoldsEndAfterStart' /\ SpentHoldsGone'
  BY <1>1, <1>3, <1>8, MoveKeepsHolds
<1>10. MailsMatchRows'
  <2>1. \A q \in Requests : q # r =>
          Succeeded(q, "confirm")' = Succeeded(q, "confirm")
    BY <1>3 DEF Moves, Succeeded
  <2>2. SameCalls /\ mailed' = mailed \cup {<<req[r].token.userId, r>>}
    BY <1>3 DEF Moves, NotifyConfirmed
  <2>3. \A q \in Requests :
          Succeeded(q, "confirm")' => <<req'[q].token.userId, q>> \in mailed'
    BY <2>1, <2>2 DEF IInv, MailsMatchRows, SameCalls
  <2>4. \A q \in Requests : ConfirmedRow(q)' = ConfirmedRow(q)
    BY <2>2, SameRows
  <2>5. \A m \in mailed : m[2] \in Requests
    BY <1>1 DEF TypeOK
  <2>6. ASSUME NEW m \in mailed'
        PROVE  /\ req'[m[2]].op = "confirm" /\ ConfirmedRow(m[2])' \in bookings'
               /\ req'[m[2]].token.userId = m[1]
    <3>1. CASE m \in mailed
      BY <1>1, <2>2, <2>4, <2>5, <3>1 DEF IInv, MailsMatchRows, SameCalls
    <3>2. CASE m = <<req[r].token.userId, r>>
      BY <1>1, <2>2, <2>4, <3>2 DEF SameCalls
    <3> QED
      BY <2>2, <2>6, <3>1, <3>2
  <2> QED
    BY <2>3, <2>6 DEF MailsMatchRows
<1> QED
  BY <1>5, <1>6, <1>7, <1>9, <1>10

\* Returning from quit makes a success of what had succeeded, and of nothing else.
LEMMA QuitStep ==
  ASSUME IInv, NEW r \in Requests, Quit(r)
  PROVE  StateInv'
<1>1. /\ req[r] \in RequestRecords /\ RequestsWellFormed /\ UNCHANGED stores
      /\ req[r].stage = "quit"
  BY DEF IInv, TypeOK, Quit
<1> DEFINE reply == IF req[r].reply = "none" THEN SuccessReply(req[r].op)
                    ELSE req[r].reply
<1>2. /\ req'[r].op = req[r].op /\ req'[r].token = req[r].token
      /\ req'[r].endAt = req[r].endAt
      /\ req'[r].stage = "replied" /\ req'[r].reply = reply
      /\ \A q \in Requests : q # r => req'[q] = req[q]
  BY <1>1 DEF Quit, IInv, TypeOK, RequestRecords
<1>3. SameCalls
  BY <1>2 DEF SameCalls
<1>4. req[r].reply \notin {"CREATED", "CONFIRMED"} /\ req[r].op \in {"create", "confirm"}
  BY <1>1 DEF RequestsWellFormed, Succeeded, RequestRecords
<1>5. \A q \in Requests, op \in {"create", "confirm"} :
        Succeeded(q, op)' => Succeeded(q, op)
  <2> SUFFICES ASSUME NEW op \in {"create", "confirm"}
               PROVE  Succeeded(r, op)' => Succeeded(r, op)
    BY <1>2 DEF Succeeded
  <2>1. Succeeded(r, op) <=> req[r].op = op /\ req[r].reply = "none"
    BY <1>1 DEF Succeeded
  <2>2. Succeeded(r, op)' <=> req[r].op = op /\ reply = SuccessReply(op)
    BY <1>2 DEF Succeeded
  <2>3. SuccessReply(op) \in {"CREATED", "CONFIRMED"}
    BY DEF SuccessReply
  <2> QED
    BY <1>4, <2>1, <2>2, <2>3
<1>6. RequestsWellFormed'
  <2> SUFFICES ASSUME NEW q \in Requests
               PROVE  RequestsWellFormed!(q)'
    BY DEF RequestsWellFormed
  <2>1. CASE q = r
    <3>1. reply \in {"CREATED", "CONFIRMED"} => Succeeded(r, req[r].op)'
      BY <1>2, <1>4 DEF Succeeded
    <3> QED
      BY <1>1, <1>2, <1>4, <1>5, <2>1, <3>1
         DEF RequestsWellFormed, CallStages, CreateStages, ConfirmStages
  <2>2. CASE q # r
    BY <1>1, <1>2, <2>2 DEF RequestsWellFormed, Succeeded
  <2> QED
    BY <2>1, <2>2
<1> QED
  BY <1>1, <1>2, <1>3, <1>5, <1>6, EndStep

LEMMA CallRejectedStep ==
  ASSUME IInv, NEW r \in Requests, CallRejected(r)
  PROVE  StateInv'
<1>1. /\ TypeOK /\ RequestsWellFormed /\ req[r].stage \in CallStages
      /\ UNCHANGED stores
      /\ Rejection(r) \in {"BOOKING.SLOT_TAKEN", "INTERNAL"}
  BY DEF CallRejected, IInv, Rejection
<1>2. Moves(r, "quit") /\ Failing(r)'
  BY <1>1, ThrowMoves DEF CallRejected
<1>3. RequestsWellFormed'
  BY <1>1, <1>2, MoveWellFormed, CallsAreOfOne
<1>4. \A q \in Requests, op \in {"create", "confirm"} :
        Succeeded(q, op)' => Succeeded(q, op)
  BY <1>2 DEF Moves, Succeeded, SuccessReply, Failing
<1> QED
  BY <1>1, <1>2, <1>3, <1>4, EndStep DEF Moves, Failing

LEMMA CrashStep ==
  ASSUME IInv, Crash
  PROVE  StateInv'
<1>1. \A q \in Requests :
        \/ req'[q] = req[q]
        \/ Active(q) /\ req'[q] = [req[q] EXCEPT !.stage = "lost"]
  BY DEF Crash, LoseRequests
<1>2. \A q \in Requests : req[q] \in RequestRecords
  BY DEF IInv, TypeOK
<1>3. SameCalls /\ UNCHANGED stores
  BY <1>1, <1>2 DEF SameCalls, RequestRecords, Crash, LoseRequests
<1>4. \A q \in Requests : /\ req'[q].stage \in {req[q].stage, "lost"}
                          /\ req'[q].reply = req[q].reply
  BY <1>1, <1>2 DEF RequestRecords
<1>5. \A q \in Requests, op \in {"create", "confirm"} :
        Succeeded(q, op)' => Succeeded(q, op)
  BY <1>3, <1>4 DEF Succeeded, SameCalls
<1>6. RequestsWellFormed'
  <2> SUFFICES ASSUME NEW q \in Requests
               PROVE  RequestsWellFormed!(q)'
    BY DEF RequestsWellFormed
  <2>1. CASE req'[q] = req[q]
    BY <2>1 DEF IInv, RequestsWellFormed, Succeeded
  <2>2. CASE Active(q) /\ req'[q] = [req[q] EXCEPT !.stage = "lost"]
    <3>1. req'[q].stage = "lost" /\ req[q].stage # "idle"
      BY <1>2, <2>2
         DEF RequestRecords, Active, ActiveStages, CallStages, CreateStages, ConfirmStages
    <3>2. req[q].reply \notin {"CREATED", "CONFIRMED"}
      BY <2>2 DEF IInv, RequestsWellFormed, Succeeded, Active, ActiveStages, CallStages,
                  CreateStages, ConfirmStages
    <3> QED
      BY <1>3, <1>4, <1>5, <3>1, <3>2
         DEF IInv, RequestsWellFormed, SameCalls, CallStages, CreateStages, ConfirmStages
  <2> QED
    BY <1>1, <2>1, <2>2
<1> QED
  BY <1>3, <1>4, <1>5, <1>6, EndStep

\* A key lapses, the clock ticks, a room is edited: no request moves, and no
\* lock or hold appears.
LEMMA QuietStep ==
  ASSUME IInv, UNCHANGED <<bookings, req, mailed>>,
         \A key \in LockKeys : locks'[key] \in {locks[key], Null},
         \A token \in Tokens : holds'[token] \in {holds[token], Null}
  PROVE  StateInv'
<1>1. RequestsWellFormed' /\ RowsAreOfRequests' /\ NoOverlap' /\ CommittedRowsStand'
  BY DEF IInv, RequestsWellFormed, RowsAreOfRequests, NoOverlap, CommittedRowsStand,
         CreateCommitted, ConfirmCommitted, Succeeded, RowOf, CreatedRow, ConfirmedRow
<1>2. LocksAreOfCreates'
  <2> SUFFICES ASSUME NEW key \in LockKeys, locks'[key] \in Requests
               PROVE  LocksAreOfCreates!(key)!2'
    BY DEF LocksAreOfCreates
  <2>1. locks'[key] = locks[key]
    BY IdAssumption
  <2> QED
    BY <2>1 DEF IInv, LocksAreOfCreates, CreatedRow
<1>3. HoldsEndAfterStart'
  BY DEF IInv, HoldsEndAfterStart
<1>4. SpentHoldsGone'
  <2> SUFFICES ASSUME NEW q \in Requests,
                      req[q].stage \in {"delLock", "notify"} \/ Succeeded(q, "confirm")
               PROVE  holds'[req[q].token] = Null
    BY DEF SpentHoldsGone, Succeeded
  <2>1. req[q].token \in Tokens
    BY DEF IInv, RequestsWellFormed, Succeeded
  <2> QED
    BY <2>1 DEF IInv, SpentHoldsGone
<1>5. MailsMatchRows'
  BY DEF IInv, MailsMatchRows, Succeeded, ConfirmedRow, CreatedRow
<1> QED
  BY <1>1, <1>2, <1>3, <1>4, <1>5 DEF StateInv

-----------------------------------------------------------------------------
(* The invariant holds *)

LEMMA InitIInv == Init => IInv
<1> SUFFICES ASSUME Init
             PROVE  IInv
  OBVIOUS
<1> USE DEF Init
<1>1. TypeOK
  <2>1. req \in [Requests -> RequestRecords]
    BY DEF NoRequest, RequestRecords, EndValues
  <2>2. now \in Nat
    BY ClockAssumption
  <2> QED
    BY <2>1, <2>2 DEF TypeOK, RoomsInit
<1>2. RequestsWellFormed
  BY DEF RequestsWellFormed, NoRequest, CallStages, CreateStages, ConfirmStages, Succeeded
<1>3. RowsAreOfRequests /\ NoOverlap
  BY DEF RowsAreOfRequests, NoOverlap
<1>4. CommittedRowsStand /\ SpentHoldsGone /\ MailsMatchRows
  BY DEF CommittedRowsStand, SpentHoldsGone, MailsMatchRows, CreateCommitted,
         ConfirmCommitted, Succeeded, NoRequest
<1>5. LocksAreOfCreates
  BY IdAssumption DEF LocksAreOfCreates
<1>6. HoldsEndAfterStart
  BY CarriedAssumption DEF HoldsEndAfterStart, CarriedOnly
<1> QED
  BY <1>1, <1>2, <1>3, <1>4, <1>5, <1>6 DEF IInv

LEMMA IInvStep == IInv /\ [Next]_vars => IInv'
<1> SUFFICES ASSUME IInv, [Next]_vars
             PROVE  IInv'
  OBVIOUS
<1>1. TypeOK'
  BY TypeOKStep DEF IInv
<1>2. StateInv'
  <2>1. ASSUME NEW r \in Requests, Proceed(r)
        PROVE  StateInv'
    BY <2>1, InsertBookingStep, AcquireLockStep, PutHoldStep, SaveConfirmedStep,
       DeleteHoldStep, DeleteLockStep, NotifyConfirmedStep, QuitStep DEF Proceed
  <2>2. ASSUME NEW key \in LockKeys, ExpireLock(key)
        PROVE  StateInv'
    BY <2>2, QuietStep DEF ExpireLock, IInv, TypeOK
  <2>3. ASSUME NEW token \in Tokens, ExpireHold(token)
        PROVE  StateInv'
    BY <2>3, QuietStep DEF ExpireHold, IInv, TypeOK
  <2>4. CASE Tick \/ EditRooms \/ UNCHANGED vars
    BY <2>4, QuietStep DEF Tick, EditRooms, vars, stores
  <2> QED
    BY <2>1, <2>2, <2>3, <2>4, FindRoomStep, GetHoldStep, CallRejectedStep, CrashStep
       DEF Next, Step
<1> QED
  BY <1>1, <1>2 DEF IInv, StateInv

\* The strengthening behind the theorems below.
THEOREM Invariance == Spec => []IInv
BY InitIInv, IInvStep, PTL DEF Spec

\* The state stays within its types: in particular a lock holds the UUID of a
\* request and a hold the end of a slot, whatever fails in between.
THEOREM TypeCorrect == Spec => []TypeOK
BY Invariance, PTL DEF IInv

-----------------------------------------------------------------------------
(* Safety of the slots *)

\* What a guest has been told is what has succeeded.
LEMMA ToldIsSucceeded ==
  ASSUME IInv, NEW r \in Requests
  PROVE  /\ Confirmed(r) => /\ Succeeded(r, "confirm") /\ ConfirmedRow(r) \in bookings
                            /\ req[r].token \in Tokens /\ req[r].endAt \in EndTimes
         /\ Created(r) => /\ Succeeded(r, "create") /\ CreatedRow(r) \in bookings
                          /\ req[r].token \in Tokens /\ req[r].endAt \in EndTimes
<1>1. /\ Confirmed(r) => Succeeded(r, "confirm")
      /\ Created(r) => Succeeded(r, "create")
  BY DEF Confirmed, Created, Replied, Succeeded, SuccessReply
<1>2. req[r].endAt \in EndTimes \cup {Null}
  BY DEF IInv, TypeOK, RequestRecords, EndValues
<1>3. Succeeded(r, "create") \/ Succeeded(r, "confirm")
        => req[r].token \in Tokens /\ req[r].endAt # Null
  BY DEF IInv, RequestsWellFormed, Succeeded
<1>4. /\ Succeeded(r, "create") => CreatedRow(r) \in bookings
      /\ Succeeded(r, "confirm") => ConfirmedRow(r) \in bookings
  BY DEF IInv, CommittedRowsStand, CreateCommitted, ConfirmCommitted
<1> QED
  BY <1>1, <1>2, <1>3, <1>4

\* No room is sold twice for one instant, for any number of requests.
THEOREM SlotsSoldOnce == Spec => []SlotSoldOnce
<1>1. IInv => SlotSoldOnce
  <2> SUFFICES ASSUME IInv, NEW r \in Requests, NEW q \in Requests,
                      Confirmed(r), Confirmed(q), r # q,
                      req[r].token.roomId = req[q].token.roomId
               PROVE  \/ req[r].endAt <= req[q].token.startAt
                      \/ req[q].endAt <= req[r].token.startAt
    BY DEF SlotSoldOnce
  <2>1. ConfirmedRow(r) \in bookings /\ ConfirmedRow(q) \in bookings
    BY ToldIsSucceeded
  <2>2. ~Excluded(ConfirmedRow(r), ConfirmedRow(q))
    BY <2>1 DEF IInv, NoOverlap, ConfirmedRow, CreatedRow
  <2>3. ~(/\ req[q].endAt = Null \/ req[r].token.startAt < req[q].endAt
          /\ req[r].endAt = Null \/ req[q].token.startAt < req[r].endAt)
    BY <2>2 DEF Excluded, RangesOverlap, ConfirmedRow, CreatedRow
  <2>4. /\ req[r].endAt \in Nat /\ req[q].endAt \in Nat
        /\ req[r].token.startAt \in Nat /\ req[q].token.startAt \in Nat
    BY ToldIsSucceeded, EndTimesAreInstants, ClockAssumption DEF Tokens
  <2> QED
    BY <2>3, <2>4
<1> QED
  BY <1>1, Invariance, PTL

\* Whoever is told CONFIRMED, or mailed so, has his row in the table.
THEOREM ConfirmationsBacked == Spec => []ConfirmationBacked
<1>1. IInv => ConfirmationBacked
  <2> SUFFICES ASSUME IInv
               PROVE  ConfirmationBacked
    OBVIOUS
  <2>1. \A r \in Requests :
          Confirmed(r) => Succeeded(r, "confirm") /\ ConfirmedRow(r) \in bookings
    BY ToldIsSucceeded
  <2> QED
    BY <2>1 DEF IInv, ConfirmationBacked, MailsMatchRows
<1> QED
  BY <1>1, Invariance, PTL

\* A created row has no end, so it shuts out every row of its room that would end
\* after its start, be it of a confirm or of another create.
LEMMA CreatedRowIsOpen ==
  ASSUME IInv, NEW r \in Requests, Created(r), NEW row \in bookings, row.id # r,
         row.roomId = req[r].token.roomId, row.endAt = Null \/ row.endAt \in Nat
  PROVE  row.endAt # Null /\ row.endAt <= req[r].token.startAt
<1>1. CreatedRow(r) \in bookings /\ req[r].token.startAt \in Nat
  BY ToldIsSucceeded, ClockAssumption DEF Tokens
<1>2. ~Excluded(CreatedRow(r), row)
  BY <1>1 DEF IInv, NoOverlap, CreatedRow
<1>3. ~(row.endAt = Null \/ req[r].token.startAt < row.endAt)
  BY <1>2 DEF Excluded, RangesOverlap, CreatedRow
<1> QED
  BY <1>1, <1>3

\* While a guest's hold lives, nobody confirms another token for his slot.
THEOREM HeldSlotsNotSold == Spec => []HeldSlotNotSold
<1>1. IInv => HeldSlotNotSold
  <2> SUFFICES ASSUME IInv, NEW r \in Requests, NEW q \in Requests,
                      Created(r), Confirmed(q),
                      req[r].token.roomId = req[q].token.roomId
               PROVE  req[q].endAt <= req[r].token.startAt
    BY DEF HeldSlotNotSold, Holding
  <2>1. ConfirmedRow(q) \in bookings /\ req[q].endAt \in Nat
    BY ToldIsSucceeded, EndTimesAreInstants
  <2>2. r # q
    BY DEF Created, Confirmed, Replied
  <2> QED
    BY <2>1, <2>2, CreatedRowIsOpen DEF ConfirmedRow, CreatedRow
<1> QED
  BY <1>1, Invariance, PTL

-----------------------------------------------------------------------------
(* The lock and the hold *)

\* Two guests never hold an instant of a room at a time: one room has one row
\* without an end.
THEOREM HoldsAreApart == Spec => []LiveHoldsApart
<1>1. IInv => LiveHoldsApart
  <2> SUFFICES ASSUME IInv, NEW r \in Requests, NEW q \in Requests,
                      Created(r), Created(q), r # q,
                      req[r].token.roomId = req[q].token.roomId
               PROVE  FALSE
    BY DEF LiveHoldsApart, Holding
  <2>1. CreatedRow(q) \in bookings
    BY ToldIsSucceeded
  <2> QED
    BY <2>1, CreatedRowIsOpen DEF CreatedRow
<1> QED
  BY <1>1, Invariance, PTL

\* A confirmed token cannot be confirmed again.
THEOREM ConfirmedTokensSpent == Spec => []ConfirmedTokenSpent
<1>1. IInv => ConfirmedTokenSpent
  BY ToldIsSucceeded DEF IInv, SpentHoldsGone, ConfirmedTokenSpent
<1> QED
  BY <1>1, Invariance, PTL

\* The unconditional DEL of the confirm deletes no lock that a create holds.
LEMMA ConfirmDeletesNoHeldLock ==
  ASSUME IInv, NEW r \in Requests, DeleteLock(r)
  PROVE  locks[LockKey(req[r].token)] \notin Requests
<1> SUFFICES ASSUME locks[LockKey(req[r].token)] \in Requests
             PROVE  FALSE
  OBVIOUS
<1> DEFINE q == locks[LockKey(req[r].token)]
<1>1. ConfirmedRow(r) \in bookings /\ req[r].token \in Tokens /\ req[r].endAt # Null
  BY ConfirmedFacts DEF DeleteLock
<1>2. CreatedRow(q) \in bookings /\ LockKey(req[q].token) = LockKey(req[r].token)
  BY <1>1, RowTypes DEF IInv, LocksAreOfCreates
<1> QED
  BY <1>1, <1>2, CreateShutsConfirmOut DEF IInv

\* A lock that a create holds leaves by its TTL only.
THEOREM LocksOnlyLapse == Spec => LocksLeaveByTTL
<1> DEFINE Leaves(key) == locks[key] \in Requests /\ locks'[key] # locks[key]
<1>1. ASSUME IInv, [Next]_vars, NEW key \in LockKeys, Leaves(key)
      PROVE  ExpireLock(key)
  <2>1. ASSUME NEW r \in Requests, AcquireLock(r)
        PROVE  FALSE
    BY <1>1, <2>1, IdAssumption DEF AcquireLock, IInv, TypeOK
  <2>2. ASSUME NEW r \in Requests, DeleteLock(r)
        PROVE  FALSE
    BY <1>1, <2>2, ConfirmDeletesNoHeldLock DEF DeleteLock, IInv, TypeOK
  <2>3. ASSUME NEW other \in LockKeys, ExpireLock(other)
        PROVE  other = key
    BY <1>1, <2>3 DEF ExpireLock, IInv, TypeOK
  <2>4. ASSUME NEW r \in Requests, Proceed(r)
        PROVE  FALSE
    BY <1>1, <2>1, <2>2, <2>4
       DEF Proceed, InsertBooking, PutHold, SaveConfirmed, DeleteHold,
           NotifyConfirmed, Quit, stores
  <2>5. locks' # locks
    BY <1>1
  <2> QED
    BY <1>1, <2>3, <2>4, <2>5
       DEF Next, Step, FindRoom, GetHold, CallRejected, Crash, LoseRequests,
           ExpireHold, Tick, EditRooms, stores, vars
<1>2. IInv /\ [Next]_vars =>
        [\A key \in LockKeys : Leaves(key) => ExpireLock(key)]_vars
  BY <1>1
<1> QED
  BY <1>2, Invariance, PTL DEF Spec, LocksLeaveByTTL

-----------------------------------------------------------------------------
(* The shipped schema *)

LEMMA EndsKnownStep == IInv /\ EndsKnown /\ [Next]_vars => EndsKnown'
<1> SUFFICES ASSUME IInv, EndsKnown, [Next]_vars, ~EndAtNullable
             PROVE  EndsKnown'
  BY DEF EndsKnown
<1>1. /\ \A row \in bookings : row.endAt # Null
      /\ \A token \in Tokens : CarriedOnly(token, holds[token])
  BY DEF EndsKnown
<1>2. ASSUME NEW r \in Requests, PutHold(r)
      PROVE  FALSE
  <2>1. CreatedRow(r) \in bookings
    BY <1>2 DEF PutHold, IInv, CommittedRowsStand, CreateCommitted
  <2> QED
    BY <1>1, <2>1 DEF CreatedRow
<1>3. ASSUME NEW r \in Requests, InsertBooking(r) \/ SaveConfirmed(r)
      PROVE  EndsKnown'
  <2>1. \A row \in bookings' : row.endAt # Null
    BY <1>1, <1>3 DEF InsertBooking, SaveConfirmed, Commit, Insertable, Accepts
  <2> QED
    BY <1>1, <1>3, <2>1 DEF InsertBooking, SaveConfirmed, EndsKnown, CarriedOnly
<1>4. ASSUME UNCHANGED bookings,
             \A token \in Tokens : holds'[token] \in {holds[token], Null}
      PROVE  EndsKnown'
  BY <1>1, <1>4 DEF EndsKnown, CarriedOnly
<1>5. ASSUME NEW r \in Requests, Proceed(r)
      PROVE  EndsKnown'
  <2>1. CASE AcquireLock(r) \/ DeleteLock(r) \/ NotifyConfirmed(r) \/ Quit(r)
    BY <1>4, <2>1 DEF AcquireLock, DeleteLock, NotifyConfirmed, Quit, stores
  <2>2. CASE DeleteHold(r)
    BY <1>4, <2>2 DEF DeleteHold, IInv, TypeOK
  <2> QED
    BY <1>2, <1>3, <1>5, <2>1, <2>2 DEF Proceed
<1>6. ASSUME NEW token \in Tokens, ExpireHold(token)
      PROVE  EndsKnown'
  BY <1>4, <1>6 DEF ExpireHold, IInv, TypeOK
<1> QED
  BY <1>4, <1>5, <1>6
     DEF Next, Step, FindRoom, GetHold, CallRejected, Crash, LoseRequests,
         ExpireLock, Tick, EditRooms, stores, vars

\* Under the migration's NOT NULL no create is ever answered with a token.
THEOREM CreatesAreDeadEnds == Spec => []CreateIsDeadEnd
<1>1. Init => EndsKnown
  BY DEF Init, EndsKnown
<1>2. IInv /\ EndsKnown => CreateIsDeadEnd
  <2> SUFFICES ASSUME IInv, EndsKnown, ~EndAtNullable
               PROVE  CreateIsDeadEnd
    BY DEF CreateIsDeadEnd
  <2>1. \A r \in Requests : CreatedRow(r) \notin bookings
    BY DEF EndsKnown, CreatedRow
  <2>2. \A r \in Requests : ~Created(r)
    BY <2>1, ToldIsSucceeded
  <2>3. \A key \in LockKeys : locks[key] \notin Requests
    BY <2>1 DEF IInv, LocksAreOfCreates
  <2>4. \A row \in bookings : req[row.id].op # "create"
    BY <2>1 DEF IInv, TypeOK, Rows, RowsAreOfRequests, RowOf
  <2> QED
    BY <2>2, <2>3, <2>4 DEF EndsKnown, CreateIsDeadEnd
<1>3. Spec => []EndsKnown
  BY <1>1, Invariance, EndsKnownStep, PTL DEF Spec
<1> QED
  BY <1>2, <1>3, Invariance, PTL
=============================================================================
