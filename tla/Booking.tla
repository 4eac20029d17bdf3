------------------------------- MODULE Booking -------------------------------
(***************************************************************************)
(* The booking context: POST /bookings (CreateBookingHandler) and          *)
(* POST /bookings/confirm (ConfirmBookingHandler), run as any number of    *)
(* interleaved requests, in one server process or in several, over three   *)
(* shared stores: the bookings table, the lock keys and the hold keys of   *)
(* Redis.                                                                  *)
(*                                                                         *)
(* A request is a state machine whose stage names the call it awaits; the  *)
(* code between two awaits runs without interruption and belongs to the    *)
(* action that ends the first of them.  A key with a TTL lapses at any     *)
(* moment, which covers every value of PAYMENT_TTL_SEC.                    *)
(***************************************************************************)
EXTENDS RoomCatalog

CONSTANTS
  Requests,        \* the calls clients make; each is used at most once
  Starts,          \* the slot starts clients name, in clock units
  HourLength,      \* clock units in an hour: 60 when a unit is a minute
  Opening,         \* the clock runs from Opening ...
  Closing,         \* ... to Closing (the bound of the clock)
  CarriedHolds,    \* holds that Redis may keep from an earlier process whose
                   \* rows the database has lost: [token |-> t, endAt |-> e]
  CarriedLocks,    \* lock keys it may keep from then
  Earlier,         \* the value of such a lock: a UUID of none of Requests
  Instants,        \* the instants at which the calendar of a room is read
  FaultsPossible   \* TRUE: calls to a store may fail, the process may crash

\* hold:token:<HMAC(roomId|startAt|userId)>; the HMAC is taken to be injective.
Tokens == [roomId : RoomIds, startAt : Starts, userId : Users]

\* lock:room:<roomId>:<startAt>
LockKeys == [roomId : RoomIds, startAt : Starts]

\* The ends a slot can have, and what an end_at column or a hold key may hold.
EndTimes == {startAt + slot : startAt \in Starts, slot \in SlotMins}
              \cup {h.endAt : h \in CarriedHolds}
EndValues == EndTimes \cup {Null}

ASSUME ClockAssumption ==
  /\ Starts \subseteq Nat
  /\ HourLength \in Nat \ {0}
  /\ Opening \in Nat /\ Closing \in Nat
  /\ Instants \subseteq Nat

ASSUME CarriedAssumption ==
  /\ CarriedHolds \subseteq [token : Tokens, endAt : Nat]
  /\ \A h \in CarriedHolds : h.token.startAt < h.endAt
  /\ CarriedLocks \subseteq LockKeys

ASSUME IdAssumption ==
  /\ Null \notin Requests
  /\ Earlier \notin Requests
  /\ Earlier # Null

ASSUME FaultsAssumption == FaultsPossible \in BOOLEAN

VARIABLES
  now,       \* what the create handler compares startAt with: the time less
             \* the second of grace of line 48
  bookings,  \* the bookings table: a set of rows
  locks,     \* lock key -> Null, Earlier, or the request whose UUID it holds
  holds,     \* token -> Null, or the endAt of the stored JSON (its other
             \* fields repeat the token)
  req,       \* the locals of the handler that serves each request
  mailed     \* <<userId, booking id>> of the confirmation mails sent

stores == <<bookings, locks, holds, mailed>>
vars == <<rooms, now, bookings, locks, holds, req, mailed>>

-----------------------------------------------------------------------------
(* Types *)

Rows == [id : Requests, roomId : RoomIds, userId : Users, startAt : Starts,
         endAt : EndValues, status : BookingStatus]

CreateStages  == {"insert", "lock", "hold"}
ConfirmStages == {"save", "delHold", "delLock", "notify"}
CallStages    == CreateStages \cup ConfirmStages
ActiveStages  == CallStages \cup {"quit"}

Replies == {"CREATED", "CONFIRMED", "ROOM.NOT_FOUND", "ROOM.INVALID_SLOT",
            "BOOKING.PAST_SLOT", "BOOKING.MISALIGNED_SLOT",
            "BOOKING.SLOT_TAKEN", "BOOKING.EXPIRED", "AUTH.FORBIDDEN",
            "INTERNAL"}

RequestRecords ==
  [op    : {"none", "create", "confirm"},
   stage : ActiveStages \cup {"idle", "replied", "lost"},
   token : Tokens \cup {Null},
   endAt : EndValues,
   reply : Replies \cup {"none"}]

NoRequest == [op |-> "none", stage |-> "idle", token |-> Null,
              endAt |-> Null, reply |-> "none"]

Active(r) == req[r].stage \in ActiveStages

\* The reply of a handler that runs to its end.
SuccessReply(op) == IF op = "create" THEN "CREATED" ELSE "CONFIRMED"

LockKey(token) == [roomId |-> token.roomId, startAt |-> token.startAt]

TypeOK ==
  /\ RoomsTypeOK
  /\ now \in Nat
  /\ bookings \subseteq Rows
  /\ locks \in [LockKeys -> Requests \cup {Null, Earlier}]
  /\ holds \in [Tokens -> EndValues]
  /\ req \in [Requests -> RequestRecords]
  /\ mailed \subseteq Users \X Requests

-----------------------------------------------------------------------------
(* Initial states: some rooms, no bookings, and what Redis still keeps *)

CarriedOnly(token, endAt) ==
  endAt = Null \/ [token |-> token, endAt |-> endAt] \in CarriedHolds

Init ==
  /\ RoomsInit
  /\ now = Opening
  /\ bookings = {}
  /\ locks \in {f \in [LockKeys -> {Null, Earlier}] :
                  \A key \in LockKeys : f[key] = Null \/ key \in CarriedLocks}
  /\ holds \in {f \in [Tokens -> EndValues] :
                  \A token \in Tokens : CarriedOnly(token, f[token])}
  /\ req = [r \in Requests |-> NoRequest]
  /\ mailed = {}

-----------------------------------------------------------------------------
(* Moves of one request *)

Goto(r, stage) == req' = [req EXCEPT ![r].stage = stage]

\* Inside a try whose finally awaits redis.quit(): all of the confirm, and the
\* create while it stores the hold.
InTry(r) == req[r].op = "confirm" \/ req[r].stage = "hold"

\* The handler throws: the reply is decided, and out once quit has returned.
Throw(r, reply) ==
  req' = [req EXCEPT ![r].stage = IF InTry(r) THEN "quit" ELSE "replied",
                     ![r].reply = reply]

\* What a rejected await is turned into: only the transactions have a catch.
Rejection(r) ==
  IF req[r].stage \in {"insert", "save"} THEN "BOOKING.SLOT_TAKEN" ELSE "INTERNAL"

\* The awaited call has been carried out: the handler goes on, or the answer of
\* the store is lost and the await is rejected all the same.
CarriedOut(r, next) ==
  \/ Goto(r, next)
  \/ FaultsPossible /\ Throw(r, Rejection(r))

Begin(r, op, token, stage, endAt) ==
  req' = [req EXCEPT ![r] = [op |-> op, stage |-> stage, token |-> token,
                             endAt |-> endAt, reply |-> "none"]]

Refuse(r, op, token, stage, reply) ==
  req' = [req EXCEPT ![r] = [op |-> op, stage |-> stage, token |-> token,
                             endAt |-> Null, reply |-> reply]]

-----------------------------------------------------------------------------
(* CreateBookingHandler.execute *)

\* The checks between the room lookup and the transaction, in their order.
\* getUTCMinutes() is the offset into the hour.  "OK" lets the request go on.
CreateVerdict(room, startAt) ==
  IF room = Null THEN "ROOM.NOT_FOUND"
  ELSE IF room.slotDurationMin <= 0 THEN "ROOM.INVALID_SLOT"
  ELSE IF startAt < now THEN "BOOKING.PAST_SLOT"
  ELSE IF (startAt % HourLength) % room.slotDurationMin # 0
       THEN "BOOKING.MISALIGNED_SLOT"
  ELSE "OK"

\* rooms.findById answers: the request is refused, or goes on to its
\* transaction with the end of the slot computed from the length just read.
FindRoom(r, token) ==
  LET room == rooms[token.roomId]
      verdict == CreateVerdict(room, token.startAt)
  IN /\ req[r].stage = "idle"
     /\ \/ /\ verdict = "OK"
           /\ Begin(r, "create", token, "insert",
                    token.startAt + room.slotDurationMin)
        \/ /\ verdict # "OK"
           /\ Refuse(r, "create", token, "replied", verdict)
     /\ UNCHANGED <<rooms, now, stores>>

\* The row lines 62-67 save.  It names no endAt, so the column gets NULL.
CreatedRow(r) ==
  [id |-> r, roomId |-> req[r].token.roomId, userId |-> req[r].token.userId,
   startAt |-> req[r].token.startAt, endAt |-> Null, status |-> "CONFIRMED"]

\* The constraints of the table let the row in: room_id REFERENCES rooms, end_at
\* NOT NULL, no_overlap_per_room.
Insertable(row) == rooms[row.roomId] # Null /\ Accepts(bookings, row)

\* Faulty variant: the catch logs the failure and the handler goes on.
CommitSwallowed(r, row, next) ==
  /\ bookings' = IF Insertable(row) THEN bookings \cup {row} ELSE bookings
  /\ Goto(r, next)

\* Faulty variant: save() replaces an earlier row of the same guest and slot.
CommitReplacing(r, row, next) ==
  LET others == {b \in bookings : \/ b.roomId # row.roomId
                                  \/ b.userId # row.userId
                                  \/ b.startAt # row.startAt}
  IN /\ Accepts(others, row)
     /\ bookings' = others \cup {row}
     /\ Goto(r, next)

\* The transaction of either handler: it commits, also when its outcome is lost
\* with the connection, or a constraint refuses the row.  catch(() => ...) turns
\* every failure into SLOT_TAKEN.
Commit(r, row, next) ==
  \/ /\ Insertable(row)
     /\ bookings' = bookings \cup {row}
     /\ CarriedOut(r, next)
  \/ /\ ~Insertable(row)
     /\ Throw(r, "BOOKING.SLOT_TAKEN")
     /\ UNCHANGED bookings

\* Faulty variant: the create relies on its lock and writes no row.
InsertNothing(r) ==
  /\ req[r].stage = "insert"
  /\ Goto(r, "lock")
  /\ UNCHANGED <<rooms, now, stores>>

InsertBooking(r) ==
  /\ req[r].stage = "insert"
  /\ Commit(r, CreatedRow(r), "lock")
  /\ UNCHANGED <<rooms, now, locks, holds, mailed>>

\* Faulty variant: the lock carries the user's id in place of a fresh UUID.
AcquireLockForUser(r) ==
  LET key == LockKey(req[r].token)
  IN /\ req[r].stage = "lock"
     /\ locks[key] = Null
     /\ locks' = [locks EXCEPT ![key] = req[r].token.userId]
     /\ Goto(r, "hold")
     /\ UNCHANGED <<rooms, now, bookings, holds, mailed>>

\* lock.acquire: SET key uuid NX EX ttl.  The row stays when it is refused.
AcquireLock(r) ==
  LET key == LockKey(req[r].token)
  IN /\ req[r].stage = "lock"
     /\ \/ /\ locks[key] = Null
           /\ locks' = [locks EXCEPT ![key] = r]
           /\ CarriedOut(r, "hold")
        \/ /\ locks[key] # Null
           /\ Throw(r, "BOOKING.SLOT_TAKEN")
           /\ UNCHANGED locks
     /\ UNCHANGED <<rooms, now, bookings, holds, mailed>>

\* redis.set of the hold, EX ttl.
PutHold(r) ==
  /\ req[r].stage = "hold"
  /\ holds' = [holds EXCEPT ![req[r].token] = req[r].endAt]
  /\ CarriedOut(r, "quit")
  /\ UNCHANGED <<rooms, now, bookings, locks, mailed>>

-----------------------------------------------------------------------------
(* ConfirmBookingHandler.execute *)

\* redis.get of the hold: none, another user's, or the caller's own.
GetHold(r, userId, token) ==
  /\ req[r].stage = "idle"
  /\ \/ /\ holds[token] = Null
        /\ Refuse(r, "confirm", token, "quit", "BOOKING.EXPIRED")
     \/ /\ holds[token] # Null
        /\ token.userId # userId
        /\ Refuse(r, "confirm", token, "quit", "AUTH.FORBIDDEN")
     \/ /\ holds[token] # Null
        /\ token.userId = userId
        /\ Begin(r, "confirm", token, "save", holds[token])
  /\ UNCHANGED <<rooms, now, stores>>

\* The row lines 49-55 save, built from the hold read before.
ConfirmedRow(r) == [CreatedRow(r) EXCEPT !.endAt = req[r].endAt]

\* Faulty variant: a refused confirm still releases the lock of the slot.
SaveOrRelease(r) ==
  /\ req[r].stage = "save"
  /\ \/ Insertable(ConfirmedRow(r)) /\ Commit(r, ConfirmedRow(r), "delHold")
     \/ /\ ~Insertable(ConfirmedRow(r))
        /\ Goto(r, "delLock")
        /\ UNCHANGED bookings
  /\ UNCHANGED <<rooms, now, locks, holds, mailed>>

SaveConfirmed(r) ==
  /\ req[r].stage = "save"
  /\ Commit(r, ConfirmedRow(r), "delHold")
  /\ UNCHANGED <<rooms, now, locks, holds, mailed>>

\* Faulty variant: the key that is deleted is not the key of the hold.
DeleteOtherKey(r) ==
  /\ req[r].stage = "delHold"
  /\ Goto(r, "delLock")
  /\ UNCHANGED <<rooms, now, stores>>

DeleteHold(r) ==
  /\ req[r].stage = "delHold"
  /\ holds' = [holds EXCEPT ![req[r].token] = Null]
  /\ CarriedOut(r, "delLock")
  /\ UNCHANGED <<rooms, now, bookings, locks, mailed>>

\* A plain DEL: the value of the lock is not compared with anything.
DeleteLock(r) ==
  /\ req[r].stage = "delLock"
  /\ locks' = [locks EXCEPT ![LockKey(req[r].token)] = Null]
  /\ CarriedOut(r, "notify")
  /\ UNCHANGED <<rooms, now, bookings, holds, mailed>>

\* sendBookingConfirmed: one mail (getUserContact returns no phone).
NotifyConfirmed(r) ==
  /\ req[r].stage = "notify"
  /\ mailed' = mailed \cup {<<req[r].token.userId, r>>}
  /\ CarriedOut(r, "quit")
  /\ UNCHANGED <<rooms, now, bookings, locks, holds>>

-----------------------------------------------------------------------------
(* The finally of both handlers *)

\* await redis.quit(), whose failure an empty catch swallows: the handler returns,
\* or throws what it was about to throw.
Quit(r) ==
  /\ req[r].stage = "quit"
  /\ req' = [req EXCEPT
       ![r].stage = "replied",
       ![r].reply = IF @ = "none" THEN SuccessReply(req[r].op) ELSE @]
  /\ UNCHANGED <<rooms, now, stores>>

-----------------------------------------------------------------------------
(* The environment *)

\* The awaited call fails without effect.
CallRejected(r) ==
  /\ FaultsPossible
  /\ req[r].stage \in CallStages
  /\ Throw(r, Rejection(r))
  /\ UNCHANGED <<rooms, now, stores>>

\* The requests of gone end with the process that serves them.
LoseRequests(gone) ==
  req' = [r \in Requests |->
            IF r \in gone THEN [req[r] EXCEPT !.stage = "lost"] ELSE req[r]]

\* One or several server processes stop; the stores stay.
Crash ==
  /\ FaultsPossible
  /\ \E gone \in SUBSET {r \in Requests : Active(r)} :
       gone # {} /\ LoseRequests(gone)
  /\ UNCHANGED <<rooms, now, stores>>

ExpireLock(key) ==
  /\ locks[key] # Null
  /\ locks' = [locks EXCEPT ![key] = Null]
  /\ UNCHANGED <<rooms, now, bookings, holds, req, mailed>>

\* The create r has stored its hold, and nothing has failed so far.
HoldStored(r) ==
  req[r].reply = "CREATED" \/ (req[r].stage = "quit" /\ req[r].reply = "none")

\* A create writes its lock before its hold, both with the same TTL, so the
\* hold it wrote does not lapse while its lock stands.
ExpireHold(token) ==
  /\ holds[token] # Null
  /\ LET holder == locks[LockKey(token)]
     IN ~ /\ holder \in Requests
          /\ req[holder].token = token
          /\ HoldStored(holder)
  /\ holds' = [holds EXCEPT ![token] = Null]
  /\ UNCHANGED <<rooms, now, bookings, locks, req, mailed>>

Tick ==
  /\ now < Closing
  /\ now' = now + 1
  /\ UNCHANGED <<rooms, stores, req>>

EditRooms ==
  /\ \E userId \in Users, roomId \in RoomIds, slot \in SlotMins :
       CreateRoom(userId, roomId, slot) \/ UpdateRoom(userId, roomId, slot)
  /\ UNCHANGED <<now, stores, req>>

-----------------------------------------------------------------------------
(* The specification *)

\* The awaited call of request r is carried out.
Proceed(r) ==
  \/ InsertBooking(r)
  \/ AcquireLock(r)
  \/ PutHold(r)
  \/ SaveConfirmed(r)
  \/ DeleteHold(r)
  \/ DeleteLock(r)
  \/ NotifyConfirmed(r)
  \/ Quit(r)

\* Every step but a crash.
Step ==
  \/ \E r \in Requests, token \in Tokens : FindRoom(r, token)
  \/ \E r \in Requests, userId \in Users, token \in Tokens :
       GetHold(r, userId, token)
  \/ \E r \in Requests : Proceed(r)
  \/ \E r \in Requests : CallRejected(r)
  \/ \E key \in LockKeys : ExpireLock(key)
  \/ \E token \in Tokens : ExpireHold(token)
  \/ Tick
  \/ EditRooms

Next == Step \/ Crash

Spec == Init /\ [][Next]_vars

\* A pending call is eventually answered (or rejected, or lost in a crash),
\* and Redis eventually drops a key whose TTL has run out.  Nothing obliges a
\* client to call, the clock to advance, or a fault to happen.
Fairness ==
  /\ \A r \in Requests : WF_vars(Proceed(r))
  /\ \A key \in LockKeys : WF_vars(ExpireLock(key))
  /\ \A token \in Tokens : WF_vars(ExpireHold(token))

FairSpec == Spec /\ Fairness

-----------------------------------------------------------------------------
(* Safety *)

Replied(r, op, reply) ==
  req[r].op = op /\ req[r].stage = "replied" /\ req[r].reply = reply

Confirmed(r) == Replied(r, "confirm", "CONFIRMED")
Created(r)   == Replied(r, "create", "CREATED")

\* A guest who is told CONFIRMED, or is sent the mail that says so, has the row
\* in the table, as his hold described it; and whoever is told is also mailed.
\* (confirm: the transaction, its catch, the notification, the return.)
ConfirmationBacked ==
  /\ \A r \in Requests :
       Confirmed(r) => /\ ConfirmedRow(r) \in bookings
                       /\ <<req[r].token.userId, r>> \in mailed
  /\ \A m \in mailed : /\ ConfirmedRow(m[2]) \in bookings
                       /\ req[m[2]].token.userId = m[1]

\* No room is sold twice for one instant, whatever slot lengths the holds were
\* computed with, and however requests, expiries, crashes and retries interleave.
SlotSoldOnce ==
  \A r, q \in Requests :
    /\ Confirmed(r) /\ Confirmed(q) /\ r # q
    /\ req[r].token.roomId = req[q].token.roomId
    => \/ req[r].endAt <= req[q].token.startAt
       \/ req[q].endAt <= req[r].token.startAt

\* The guest of create r has been told that the slot is his for now.
Holding(r) == Created(r) /\ holds[req[r].token] = req[r].endAt

\* As long as a guest's hold lives, nobody confirms another token for an instant
\* of his slot: neither a guest who came by his own token earlier, nor one whose
\* slot starts elsewhere or has another length.
HeldSlotNotSold ==
  \A r, q \in Requests :
    /\ Holding(r) /\ Confirmed(q)
    /\ req[q].token # req[r].token
    /\ req[r].token.roomId = req[q].token.roomId
    => \/ req[r].endAt <= req[q].token.startAt
       \/ req[q].endAt <= req[r].token.startAt

\* No instant of a room is held for two guests at a time.  The lock names a start
\* and could not see to that: slots of two starts, or of two lengths, overlap too,
\* and a lock may lapse while its hold, written later, lives on.
LiveHoldsApart ==
  \A r, q \in Requests :
    /\ Holding(r) /\ Holding(q)
    /\ req[q].token # req[r].token
    /\ req[r].token.roomId = req[q].token.roomId
    => \/ req[r].endAt <= req[q].token.startAt
       \/ req[q].endAt <= req[r].token.startAt

\* A confirmed token is spent: its hold is gone and no later create brings it
\* back, so it cannot be confirmed again.
ConfirmedTokenSpent ==
  \A r \in Requests : Confirmed(r) => holds[req[r].token] = Null

\* The lock a create holds leaves by its TTL only.  The confirm deletes a lock
\* without looking at its value, yet never one that a create of this process
\* holds: that create's row would have kept the confirm's row out.
LocksLeaveByTTL ==
  [][\A key \in LockKeys :
       locks[key] \in Requests /\ locks'[key] # locks[key] => ExpireLock(key)]_vars

\* Under the schema the migration creates, POST /bookings is a dead end: no
\* create is ever answered with a token, takes a lock or leaves a row, and no
\* hold appears that Redis did not keep from before.
CreateIsDeadEnd ==
  ~EndAtNullable =>
    /\ \A r \in Requests : ~Created(r)
    /\ \A key \in LockKeys : locks[key] \notin Requests
    /\ \A row \in bookings : req[row.id].op # "create" /\ row.endAt # Null
    /\ \A token \in Tokens : CarriedOnly(token, holds[token])

-----------------------------------------------------------------------------
(* The calendar the bookings table implements *)

Entries ==
  {row \in [id : Requests, roomId : RoomIds, userId : Users, startAt : Starts,
            endAt : EndValues, status : {"CONFIRMED"}] :
     row.endAt = Null \/ row.startAt < row.endAt}

Calendar ==
  INSTANCE RoomCalendar
    WITH calendar <- bookings,
         receipts <- {r \in Requests : Confirmed(r)}

\* Every behaviour of the two handlers is one of the calendar: CONFIRMED rows
\* are added where they share no instant with another, never changed or removed,
\* and a CONFIRMED answer is a receipt for a row that has an end.
ImplementsCalendar == Calendar!CalendarSpec

-----------------------------------------------------------------------------
(* What the README says.  Runs in which no call fails refute each of these. *)

\* README:48-58 and the text of the 409: SLOT_TAKEN means that the range is
\* already booked.
ConflictMeansTaken ==
  \A r \in Requests :
    Replied(r, "create", "BOOKING.SLOT_TAKEN") =>
      \E row \in bookings :
        Excluded(row, [CreatedRow(r) EXCEPT !.endAt = req[r].endAt])

\* README "Create Booking: redis lock -> insert PENDING", and its diagram, where a
\* lock that is FAIL leads to the 409 and to no INSERT: a create that is refused
\* leaves no row behind.
RefusedLeavesNoRow ==
  \A r \in Requests :
    Replied(r, "create", "BOOKING.SLOT_TAKEN") => \A row \in bookings : row.id # r

\* README "Confirm Booking": a held slot goes from PENDING to CONFIRMED.  The
\* owner of a hold is refused only for the row of some other request than the
\* create that gave him the token.
HeldSlotConfirmable ==
  \A r \in Requests :
    Replied(r, "confirm", "BOOKING.SLOT_TAKEN") =>
      \E row \in bookings :
        /\ Excluded(row, ConfirmedRow(r))
        /\ ~(Created(row.id) /\ req[row.id].token = req[r].token)

\* A create whose hold has lapsed, whose token nobody confirmed, and whose row
\* is still a confirmed booking.
Unpaid(r) ==
  /\ Created(r)
  /\ holds[req[r].token] = Null
  /\ CreatedRow(r) \in bookings
  /\ \A q \in Requests : Confirmed(q) => req[q].token # req[r].token

\* README "Expire": the row of a create that is not paid for in time does not
\* stay a booking for ever.
UnpaidRowExpires == \A r \in Requests : Unpaid(r) ~> ~Unpaid(r)
=============================================================================
