---------------------------- MODULE RoomCalendar ----------------------------
(***************************************************************************)
(* What the booking context promises, without handlers, locks or holds:    *)
(* each room has a calendar to which entries are only ever added, each     *)
(* under an id of its own, no instant of a room belongs to two entries,    *)
(* and a receipt is given at most once, only for an entry that is in the   *)
(* calendar and has an end.                                                *)
(*                                                                         *)
(* What an entry occupies is defined by the instants themselves, not by    *)
(* comparing bounds as the constraint of the bookings table does.          *)
(***************************************************************************)
EXTENDS Naturals

CONSTANTS
  Entries,   \* records with id, roomId, startAt and endAt
  Instants,  \* the instants at which the calendar is read
  Null       \* the endAt of an entry without an end

VARIABLES
  calendar,  \* the entries made so far
  receipts   \* the ids of the entries whose guest has been given a receipt

calendarVars == <<calendar, receipts>>

Occupied(entry) ==
  {t \in Instants : entry.startAt <= t /\ (entry.endAt = Null \/ t < entry.endAt)}

Clash(a, b) == a.roomId = b.roomId /\ Occupied(a) \cap Occupied(b) # {}

CalendarInit == calendar = {} /\ receipts = {}

Enter(entry) ==
  /\ calendar' = calendar \cup {entry}
  /\ \A other \in calendar : other.id # entry.id /\ ~Clash(other, entry)
  /\ UNCHANGED receipts

GiveReceipt(entry) ==
  /\ receipts' = receipts \cup {entry.id}
  /\ entry.id \notin receipts
  /\ entry \in calendar
  /\ entry.endAt # Null
  /\ UNCHANGED calendar

CalendarNext == \E entry \in Entries : Enter(entry) \/ GiveReceipt(entry)

CalendarSpec == CalendarInit /\ [][CalendarNext]_calendarVars
=============================================================================
