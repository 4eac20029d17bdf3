---------------------------- MODULE BookingSearch ----------------------------
(***************************************************************************)
(* GET /bookings/me, /owner and /admin (ListMyBookingsHandler and its two  *)
(* siblings over TypeOrmBookingRepo.search): the confirmed bookings of a   *)
(* guest, of a host's rooms, or all, page by page.                         *)
(*                                                                         *)
(* A search is two awaits, a COUNT and a SELECT; rows may be added before, *)
(* between and after them.  A client walks through a list: he asks for the *)
(* next page as long as the last one was full, and starts over with the    *)
(* same or another query whenever he likes, also after a failed page.      *)
(*                                                                         *)
(* The table is a RoomCalendar, which is what the handlers that write it   *)
(* make of it (Booking!ImplementsCalendar).                                *)
(***************************************************************************)
EXTENDS RoomCalendar, FiniteSets

CONSTANTS
  OwnerOf,      \* rooms.owner_id of each room: it never changes
  Users,        \* the users who have a token
  Clients,      \* who reads the lists
  Filters,      \* the filters clients send
  PageSizes,    \* the page sizes they ask for
  MaxPageSize   \* the largest one granted: 100

\* The foreign key to rooms, and ranges that are not empty.
ASSUME EntriesAssumption ==
  \A e \in Entries :
    /\ e.roomId \in DOMAIN OwnerOf
    /\ e.startAt \in Nat \cap Instants
    /\ e.endAt = Null \/ (e.endAt \in Nat /\ e.startAt < e.endAt)

ASSUME SearchAssumption ==
  /\ Null \notin Nat
  /\ Filters \subseteq [roomId   : DOMAIN OwnerOf \cup {Null},
                        userId   : Users \cup {Null},
                        dateFrom : Nat \cup {Null},
                        dateTo   : Nat \cup {Null}]
  /\ PageSizes \subseteq Nat
  /\ MaxPageSize \in Nat \ {0}

VARIABLE walk  \* the walk each client is on: what he asked and was answered

searchVars == <<calendar, receipts, walk>>

-----------------------------------------------------------------------------
(* Types *)

Routes == {"me", "owner", "admin"}

NoFilter == [roomId |-> Null, userId |-> Null, dateFrom |-> Null, dateTo |-> Null]

Ids == {e.id : e \in Entries}

\* The row of an answer.  new Date(null) is the epoch.
Item(e) == [id |-> e.id, roomId |-> e.roomId, userId |-> e.userId,
            startAt |-> e.startAt, endAt |-> IF e.endAt = Null THEN 0 ELSE e.endAt]

\* seen and known are history, which no action reads: the ids this walk has
\* shown, and those somebody had been told or shown before it began.
WalkRecords ==
  [stage  : {"idle", "count", "read", "answered", "failed"},
   route  : Routes,
   caller : Users \cup {Null},
   filter : Filters \cup {[f EXCEPT !.userId = Null] : f \in Filters} \cup {NoFilter},
   size   : 1 .. MaxPageSize,
   page   : Nat \ {0},
   total  : Nat,
   items  : SUBSET {Item(e) : e \in Entries},
   seen   : SUBSET Ids,
   known  : SUBSET Ids]

NoWalk == [stage |-> "idle", route |-> "me", caller |-> Null, filter |-> NoFilter,
           size |-> 1, page |-> 1, total |-> 0, items |-> {}, seen |-> {},
           known |-> {}]

SearchTypeOK ==
  /\ calendar \subseteq Entries
  /\ receipts \subseteq Ids
  /\ walk \in [Clients -> WalkRecords]

Answered(c) == walk[c].stage = "answered"

\* A page is full, so there may be another one.
FullPage(c) == Cardinality(walk[c].items) = walk[c].size

-----------------------------------------------------------------------------
(* TypeOrmBookingRepo.search *)

\* Faulty variant: Math.min(100, pageSize).
ClampAbove(size) == IF size > MaxPageSize THEN MaxPageSize ELSE size

\* Math.min(100, Math.max(1, pageSize))
Clamp(size) == IF size < 1 THEN 1 ELSE IF size > MaxPageSize THEN MaxPageSize ELSE size

\* The scope that the handler of the route names.
InScope(c, e) ==
  CASE walk[c].route = "me"    -> e.userId = walk[c].caller
    [] walk[c].route = "owner" -> OwnerOf[e.roomId] = walk[c].caller
    [] walk[c].route = "admin" -> TRUE

\* Faulty variant: the end of the range is compared with dateFrom, too.
PassesByEnd(c, e) ==
  LET f == walk[c].filter
  IN /\ f.roomId # Null => e.roomId = f.roomId
     /\ f.userId # Null /\ walk[c].route = "admin" => e.userId = f.userId
     /\ f.dateFrom # Null => e.endAt # Null /\ e.endAt >= f.dateFrom
     /\ f.dateTo # Null => e.endAt # Null /\ e.endAt <= f.dateTo

\* The optional conditions.  The user is one for administrators only, and
\* end_at <= dateTo is not true of a NULL.
Passes(c, e) ==
  LET f == walk[c].filter
  IN /\ f.roomId # Null => e.roomId = f.roomId
     /\ f.userId # Null /\ walk[c].route = "admin" => e.userId = f.userId
     /\ f.dateFrom # Null => e.startAt >= f.dateFrom
     /\ f.dateTo # Null => e.endAt # Null /\ e.endAt <= f.dateTo

\* WHERE: every entry is a CONFIRMED row.
Matching(c) == {e \in calendar : InScope(c, e) /\ Passes(c, e)}

Offset(c) == (walk[c].page - 1) * walk[c].size

Least(m, n) == IF m < n THEN m ELSE n

\* OFFSET and LIMIT: the rows of the page, those before it, and the rest.
Slice(c, page, before) ==
  /\ Cardinality(before) = Least(Offset(c), Cardinality(Matching(c)))
  /\ Cardinality(page) =
       Least(walk[c].size, Cardinality(Matching(c)) - Cardinality(before))

\* Faulty variant: no ORDER BY.
AnyPage(c, page, before) == Slice(c, page, before)

\* ORDER BY start_at DESC: later starts come first.  Rows that start together,
\* in different rooms, come in whatever order this SELECT finds them.
IsPage(c, page, before) ==
  LET rest == Matching(c) \ (page \cup before)
  IN /\ Slice(c, page, before)
     /\ \A e \in before, f \in page \cup rest : e.startAt >= f.startAt
     /\ \A e \in page, f \in rest : e.startAt >= f.startAt

\* Faulty variant: getCount without the optional conditions.
CountScope(c) ==
  /\ walk[c].stage = "count"
  /\ walk' = [walk EXCEPT ![c].stage = "read",
       ![c].total = Cardinality({e \in calendar : InScope(c, e)})]

\* getCount answers.
CountRows(c) ==
  /\ walk[c].stage = "count"
  /\ walk' = [walk EXCEPT ![c].stage = "read",
                          ![c].total = Cardinality(Matching(c))]

\* getRawMany answers, and so does the handler.
ReadPage(c) ==
  /\ walk[c].stage = "read"
  /\ \E page \in SUBSET Matching(c) :
       /\ \E before \in SUBSET (Matching(c) \ page) : IsPage(c, page, before)
       /\ walk' = [walk EXCEPT ![c].stage = "answered",
                               ![c].items = {Item(e) : e \in page},
                               ![c].seen  = @ \cup {e.id : e \in page}]

\* The process stops, or a read is rejected: nothing catches that.
SearchFails(c) ==
  /\ walk[c].stage \in {"count", "read"}
  /\ walk' = [walk EXCEPT ![c].stage = "failed"]

-----------------------------------------------------------------------------
(* The clients *)

\* What guests have been told and clients have been shown.
KnownIds == receipts \cup UNION {walk[c].seen \cup walk[c].known : c \in Clients}

\* The first page.  me and owner do not pass a userId on.
BeginWalk(c, route, caller, filter, size) ==
  /\ walk[c].stage \in {"idle", "answered", "failed"}
  /\ walk' = [walk EXCEPT ![c] =
       [NoWalk EXCEPT
          !.stage  = "count",
          !.route  = route,
          !.caller = caller,
          !.filter = IF route = "admin" THEN filter ELSE [filter EXCEPT !.userId = Null],
          !.size   = Clamp(size),
          !.known  = KnownIds]]

NextPage(c) ==
  /\ Answered(c)
  /\ FullPage(c)
  /\ walk' = [walk EXCEPT ![c].stage = "count", ![c].page = @ + 1]

-----------------------------------------------------------------------------
(* The specification: walks over a calendar that grows *)

WalkStep(c) ==
  \/ \E route \in Routes, caller \in Users, filter \in Filters, size \in PageSizes :
       BeginWalk(c, route, caller, filter, size)
  \/ CountRows(c)
  \/ ReadPage(c)
  \/ NextPage(c)
  \/ SearchFails(c)

SearchInit == CalendarInit /\ walk = [c \in Clients |-> NoWalk]

SearchNext ==
  \/ \E c \in Clients : WalkStep(c) /\ UNCHANGED calendarVars
  \/ CalendarNext /\ UNCHANGED walk

SearchSpec == SearchInit /\ [][SearchNext]_searchVars

-----------------------------------------------------------------------------
(* Safety *)

\* What the client of walk c asked to see: his own stays, those in his rooms, or
\* all of them; of one room or guest; that lie between two dates.
Wanted(c, e) ==
  LET f == walk[c].filter
  IN /\ walk[c].route = "me" => e.userId = walk[c].caller
     /\ walk[c].route = "owner" => OwnerOf[e.roomId] = walk[c].caller
     /\ f.roomId \in {Null, e.roomId}
     /\ f.userId \in {Null, e.userId}
     /\ f.dateFrom # Null => f.dateFrom <= e.startAt
     /\ f.dateTo # Null => e.endAt \in 0 .. f.dateTo

\* A list shows bookings that still stand, and no others than its client asked
\* for and may see.  One that its guest has a receipt for is listed with the end
\* it was sold with, and never as one that ends in 1970.
ItemsStand ==
  \A c \in Clients : \A item \in walk[c].items : \E e \in calendar :
    /\ item.id = e.id
    /\ Wanted(c, e)
    /\ e.id \in receipts => item.endAt = e.endAt

\* The total is read before the page, and rows are never removed: the rows that
\* the total announces for this page are there.
PageKeepsPromise ==
  \A c \in Clients :
    Answered(c) /\ walk[c].total > Offset(c) =>
      Cardinality(walk[c].items) >= Least(walk[c].size, walk[c].total - Offset(c))

\* A client who walks through the list of a room until a page is short has been
\* shown every stay he asked for that anyone knew of when he began, by a receipt
\* or from a list, although rows that are added meanwhile push others from page
\* to page.  The starts of one room are distinct, by no_overlap_per_room; rows of
\* two rooms that start together may change places between two pages.
NothingMissed ==
  \A c \in Clients :
    Answered(c) /\ ~FullPage(c) /\ walk[c].filter.roomId # Null =>
      \A e \in calendar : e.id \in walk[c].known /\ Wanted(c, e) => e.id \in walk[c].seen
=============================================================================
