-------------------------- MODULE BookingInvariant --------------------------
(***************************************************************************)
(* The inductive invariant behind the safety properties of Booking.        *)
(*                                                                         *)
(* The argument: every row of the table is the one row of one request, and *)
(* says what that request was about; a request past its transaction has    *)
(* its row there; a lock belongs to a create whose row is there.  The      *)
(* exclusion constraint then speaks about requests, and two requests that  *)
(* would quarrel over a lock, a hold or a slot cannot both have a row.     *)
(***************************************************************************)
EXTENDS Booking

\* The only row request r can ever have.
RowOf(r) == IF req[r].op = "create" THEN CreatedRow(r) ELSE ConfirmedRow(r)

\* Every awaited call of r has been carried out and none was rejected.
Succeeded(r, op) ==
  /\ req[r].op = op
  /\ \/ req[r].stage = "quit" /\ req[r].reply = "none"
     \/ req[r].stage = "replied" /\ req[r].reply = SuccessReply(op)

\* Request r is past its transaction, and nothing has failed since.
CreateCommitted(r)  == req[r].stage \in {"lock", "hold"} \/ Succeeded(r, "create")
ConfirmCommitted(r) ==
  req[r].stage \in {"delHold", "delLock", "notify"} \/ Succeeded(r, "confirm")

\* The fields of a request agree with its stage.
RequestsWellFormed ==
  \A r \in Requests :
    /\ req[r].stage = "idle" <=> req[r].op = "none"
    /\ req[r].stage # "idle" => req[r].token \in Tokens
    /\ req[r].stage \in CreateStages => req[r].op = "create"
    /\ req[r].stage \in ConfirmStages => req[r].op = "confirm"
    /\ req[r].stage \in CallStages \cup {"idle"} => req[r].reply = "none"
    /\ req[r].reply \in {"CREATED", "CONFIRMED"} => Succeeded(r, req[r].op)
    /\ req[r].stage \in CallStages => req[r].endAt # Null
    /\ Succeeded(r, "create") \/ Succeeded(r, "confirm") => req[r].endAt # Null
    /\ req[r].endAt # Null => req[r].token.startAt < req[r].endAt

\* A row is the row of the request whose id it bears.
RowsAreOfRequests ==
  \A row \in bookings :
    /\ row = RowOf(row.id)
    /\ req[row.id].stage \notin {"idle", "insert", "save"}

\* no_overlap_per_room, for the whole table.
NoOverlap == \A a, b \in bookings : a # b => ~Excluded(a, b)

CommittedRowsStand ==
  \A r \in Requests :
    /\ CreateCommitted(r) => CreatedRow(r) \in bookings
    /\ ConfirmCommitted(r) => ConfirmedRow(r) \in bookings

LocksAreOfCreates ==
  \A key \in LockKeys :
    locks[key] \in Requests =>
      /\ req[locks[key]].op = "create"
      /\ req[locks[key]].stage # "lock"
      /\ LockKey(req[locks[key]].token) = key
      /\ CreatedRow(locks[key]) \in bookings

HoldsEndAfterStart ==
  \A token \in Tokens : holds[token] # Null => token.startAt < holds[token]

\* From its DEL on, a confirm's hold stays gone.
SpentHoldsGone ==
  \A r \in Requests :
    req[r].stage \in {"delLock", "notify"} \/ Succeeded(r, "confirm")
      => holds[req[r].token] = Null

\* A confirm that has succeeded has sent its mail.  One that has sent its mail may
\* still be lost or answered INTERNAL, but it is past its transaction.
MailsMatchRows ==
  /\ \A r \in Requests :
       Succeeded(r, "confirm") => <<req[r].token.userId, r>> \in mailed
  /\ \A m \in mailed : /\ req[m[2]].op = "confirm"
                       /\ ConfirmedRow(m[2]) \in bookings
                       /\ req[m[2]].token.userId = m[1]

\* What the two handlers keep true over the three stores: every row is the one row
\* of its request, and locks, holds, answers and mails agree with the rows.
IInv ==
  /\ TypeOK
  /\ RequestsWellFormed
  /\ RowsAreOfRequests
  /\ NoOverlap
  /\ CommittedRowsStand
  /\ LocksAreOfCreates
  /\ HoldsEndAfterStart
  /\ SpentHoldsGone
  /\ MailsMatchRows

\* What NOT NULL adds: no row lacks an end, and every hold is one carried over.
EndsKnown ==
  ~EndAtNullable =>
    /\ \A row \in bookings : row.endAt # Null
    /\ \A token \in Tokens : CarriedOnly(token, holds[token])
=============================================================================
