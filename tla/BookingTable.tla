---------------------------- MODULE BookingTable ----------------------------
(***************************************************************************)
(* The bookings table: the rows it can hold and the constraints Postgres   *)
(* enforces on an INSERT.  The booking handlers rely on these constraints, *)
(* and on nothing else, to keep two guests out of one slot.                *)
(***************************************************************************)
EXTENDS Naturals

CONSTANTS
  Null,          \* SQL NULL, and the null that a Redis or repository read returns
  EndAtNullable  \* FALSE: bookings.end_at is NOT NULL, as the migration creates it.
                 \* TRUE: the table existed before (the migration says CREATE TABLE
                 \* IF NOT EXISTS and leaves such a table alone) and admits NULL.

ASSUME NullAssumption == Null \notin Nat
ASSUME EndAtAssumption == EndAtNullable \in BOOLEAN

BookingStatus == {"PENDING", "CONFIRMED", "CANCELLED", "EXPIRED"}

\* tstzrange(start, end, '[)') of a and b share an instant.  A NULL end makes
\* the range unbounded above.
RangesOverlap(a, b) ==
  /\ b.endAt = Null \/ a.startAt < b.endAt
  /\ a.endAt = Null \/ b.startAt < a.endAt

\* EXCLUDE USING gist (room_id WITH =, tstzrange WITH &&): the status of the
\* rows plays no part in it.
Excluded(a, b) == a.roomId = b.roomId /\ RangesOverlap(a, b)

\* Faulty variant: a UNIQUE (room_id, start_at) in place of the range exclusion.
AcceptsByStart(table, row) ==
  /\ row.endAt # Null \/ EndAtNullable
  /\ \A b \in table : b.roomId # row.roomId \/ b.startAt # row.startAt

\* Faulty variant: an end_at column without NOT NULL.
AcceptsNullEnd(table, row) == \A b \in table : ~Excluded(b, row)

\* The INSERT of row is not refused by a NOT NULL or the exclusion constraint.
Accepts(table, row) ==
  /\ row.endAt # Null \/ EndAtNullable
  /\ \A b \in table : ~Excluded(b, row)
=============================================================================
