# Verification of reservation-schedule

TLA+ models of the reservation service (NestJS, Postgres, Redis, RabbitMQ), the
TLC configurations that check them on small instances, and proofs that TLAPS
checks for every value of the constants. Paths are relative to the parent of
this directory: the service is under `src/`, its TypeScript under `src/src/`.

Run inside this directory, for a run of `PROJECT.json` with module `M` and
configuration `X.cfg`:

    tlc -workers 2 -config X.cfg M
    tlapm BookingProofs.tla
    tlapm BookingCalendar.tla
    tlapm ScheduleProofs.tla
    tlapm IdentityProofs.tla
    tlapm SearchProofs.tla

## 1. The system

A server process handles HTTP requests concurrently on one event loop: the code
between two `await`s is never interrupted, and anything may happen at an `await`.
All state is in three stores outside the process, so that several processes may serve
the bookings side by side; one that stops takes the requests it serves with it.

| store | content | written by |
|---|---|---|
| Postgres `rooms` | id, owner, `slot_duration_min` | create / update room |
| Postgres `bookings` | rows under NOT NULL, a foreign key and `no_overlap_per_room` (exclusion of overlapping `[start_at, end_at)` per room, whatever the status) | create booking, confirm booking |
| Postgres `users` | accounts, `email` UNIQUE | register |
| Redis `lock:room:<room>:<start>` | a UUID, `SET NX EX` | create booking; deleted by confirm and by its TTL |
| Redis `hold:token:<hmac(room,start,user)>` | room, start, end, user; `SET EX` | create booking; deleted by confirm and by its TTL |
| RabbitMQ | one exclusive queue per subscription | register, login; read by the subscriber |

| component | operations | how it interacts | what is hard | what makes it correct |
|---|---|---|---|---|
| create booking (`create-booking.handler.ts`) | look up the room, check the slot, INSERT, take the lock, put the hold, answer a token | all three kinds of state, in this order | the row is committed before the lock is asked for; each later call may fail or the process may die; the slot length was read before | no instant is held for two guests at a time; a refusal leaves nothing that blocks the room (it does, section 5) |
| confirm booking (`confirm-booking.handler.ts`) | read the hold, check its owner, INSERT, delete hold and lock, mail | as above, and the mailer | the hold may lapse or be confirmed twice between read and use; the DEL of the lock compares nothing; a commit may be reported as a failure | CONFIRMED means a row; no instant is sold twice; a token is spent once |
| bookings table (`1710000000000-init_core.ts`) | INSERT under constraints | the only arbiter between requests | NULL ends, half-open ranges | rows that coexist share no instant |
| Redis lock (`redis-lock.service.ts`) | acquire; release (no caller) | create, confirm, schedule | expiry at any moment | a lock a create holds leaves by its TTL only |
| room catalog (`create-room`, `update-room`) | create, change the slot length | read by create and by the schedule | the length changes while holds are live | slots of mixed lengths never overlap when sold |
| room schedule (`get-room-schedule.handler.ts`) | one status per day of a window | reads rooms, bookings, Redis | three reads at three moments; midnights | what was confirmed is shown; answers do not contradict each other |
| identity (`register-user`, `login-user`) | look up, save, sign, publish | users, event bus | two registers of one address; publish after save | a token names an account; one account per address |
| event bus (`rabbitmq-event-bus.adapter.ts`) | publish, subscribe, ack, nack | identity, subscriber | exclusive queues, requeue, no reconnect | an event is handled, not twice |
| identity subscriber (`identity-events.subscriber.ts`) | look the address up, mail | bus, users, mailer | a failing lookup, a channel that closes underneath | one mail, to the owner |
| booking lists (`list-booking.handler.ts`, `booking.repo.ts`) | COUNT and SELECT of a page, for a guest, a host or an administrator | bookings, rooms | two reads, pages read one after the other, of a table that grows; an ORDER BY with ties; NULL ends | a page stands and is the caller's; nobody misses a booking he knows of |
| room lists | one SELECT | rooms | - | - |
| Redis pub/sub adapter, `RedisLockService`, `RabbitMqListener`, notification domain service, role seeder, outbox tables | provided by no module, or written by nothing | - | - | - |
| guards, JWT, error filter, DTOs, configuration | pure | every request | - | - |

`PROJECT.json` lists every component with its sources and, under `hazards`, what
is hard to test in this code, at its line, with the properties aimed at it.

## 2. Modules

    BookingTable <- RoomCatalog <- Booking <- BookingInvariant <- MCBooking
                                      |              ^--- BookingProofs <- BookingCalendar
                                      |--- INSTANCE RoomCalendar (abstract)
                                      |
                            RoomSchedule <- ScheduleInvariant <- MCRoomSchedule
                                                     ^--- ScheduleProofs
    RoomCalendar <- BookingSearch <- SearchInvariant <- MCBookingSearch
                                            ^--- SearchProofs
    EventBus <- Identity <- IdentityInvariant <- MCIdentity
                   |                ^--- IdentityProofs
                   |--- INSTANCE AccountRegistry (abstract)

`ScheduleInvariant` and `ScheduleProofs` also extend `BookingInvariant` and
`BookingProofs`. Each `...Invariant` module holds an inductive invariant, named part by
part; a run checks it and the `...Proofs` module proves it (section 4).

* **BookingTable** - rows and what an INSERT has to satisfy: `Accepts` is NOT NULL
  plus `no_overlap_per_room`. A NULL end makes a range unbounded, as `tstzrange` does.
* **RoomCatalog** - `rooms`, `CreateRoom`, `UpdateRoom`.
* **Booking** - the two handlers. `req[r]` holds the locals of the handler that
  serves request `r`; `stage` names the call it awaits. One action per awaited call:
  `FindRoom`, `InsertBooking`, `AcquireLock`, `PutHold` for the create; `GetHold`,
  `SaveConfirmed`, `DeleteHold`, `DeleteLock`, `NotifyConfirmed` for the confirm; `Quit`,
  the `await redis.quit()` of both `finally` blocks, which ends in the answer. The
  checks the code makes between two awaits belong to the action that ends the first,
  in the code's order (`CreateVerdict`). `Commit` is the transaction of both handlers
  with its `catch`: it commits, is refused, or commits and is reported as SLOT_TAKEN
  because its outcome is lost. `CarriedOut` is the same for every other call: it takes effect, and
  its reply arrives or is lost, upon which the handler throws (`Throw`: SLOT_TAKEN from a
  transaction, INTERNAL from anything else, and through the `finally` where the code has one).
  So a hold can be stored and a mail sent for a request that is then answered INTERNAL,
  or that a crash takes before its answer. `redis.connect()` goes with the GET or SET that
  follows it, and the look-up of the contact and the log line, which change nothing, with
  the mail. The environment: `CallRejected` (the awaited call fails without effect), `Crash`
  (a process stops, and any nonempty set of the active requests with it), `ExpireLock`,
  `ExpireHold`, `Tick`, `EditRooms`.
* **RoomCalendar** - what the booking context promises: entries that share no instant
  are added and never changed, and a receipt is given only for an entry. Not a word of
  Redis, requests or time-outs. `Booking!ImplementsCalendar` is its specification under
  the refinement `calendar <- bookings`, `receipts <- requests answered CONFIRMED`: the
  table itself is the calendar, and an entry is a row with all its columns whose range,
  when it has an end, is not empty.
* **RoomSchedule** - the schedule query next to the handlers of `Booking`:
  `FindScheduleRoom`, `ReadRows`, `ScanKeys`, `QueryFails`. `told` and `earlier` are
  history fields (what had been answered when the query began); no action reads them.
* **BookingSearch** - the three list routes next to a calendar that grows. It builds on
  `RoomCalendar`, not on `Booking`: what the handlers do to the table is a behaviour of the
  calendar (`ImplementsCalendar`, proved), so whatever holds next to every calendar holds
  next to the handlers, for any number of them and of faults. `CountRows` and `ReadPage` are
  the two awaits of `search`; `BeginWalk` is a route with its scope and its clamped page
  size; `NextPage` is the client, who goes on while pages are full. `seen` and `known` are
  history fields.
* **EventBus** - channel, queues, events being handled; `Publish`, `Deliver`, `Ack`,
  `Nack`, `LoseConnection`.
* **Identity** - `StartRegister`, `SaveAccount`, `StartLogin`, `PublishAndAnswer`, and
  the subscriber: `MailEvent`, `LookupFails`.
* **AccountRegistry** - what the identity context promises, without channels or queues:
  accounts are added, one per address; a token is for an account there is; at most one
  letter per token, to the address of its account. `Identity!ImplementsRegistry` is its
  specification under `accounts <- users`, `tokens <- the accounts of calls answered with a
  token`, `letters <- mails`.

Definitions headed "Faulty variant" are the bugs the properties are measured
against: each replaces one mapped definition, and the property named in
`PROJECT.json` then fails. No specification uses them.

### Modelling choices

* **`EndAtNullable`.** The create handler saves a row without `endAt`
  (`create-booking.handler.ts:62-67`) and the migration declares `end_at NOT NULL`
  (line 58). Over the migration's schema every create therefore ends in SLOT_TAKEN.
  The migration says `CREATE TABLE IF NOT EXISTS` and keeps an older table that admits
  NULL; only there do the lock, the hold and the token come into play. The theorems
  hold for both values; `CreateIsDeadEnd` states what FALSE means.
* **`CarriedHolds`, `CarriedLocks`.** Over either schema the row of a create keeps the
  confirm of its own hold out (finding `held_slot_confirmable`). A confirm succeeds only for
  a hold whose row is not in the table: Redis keeps its keys for up to `PAYMENT_TTL_SEC`
  when the database is restored or re-created. Such keys are part of the initial states,
  so that everything after the transaction of the confirm is exercised. Without them
  every property of confirmed bookings would hold emptily.
* **TTLs** are not counted: a key with a TTL may lapse at any moment, which covers every
  `PAYMENT_TTL_SEC`. One order is kept: a create writes lock, then hold, with one TTL,
  so the hold it has stored outlives its lock (`ExpireHold`, `HoldStored`). A hold whose SET was
  reported as failed may lapse in any order, which adds behaviours and leaves none out.
* **HMAC** tokens are taken to be injective in room, start and user.
* **Time** is in abstract units. `now` is the time less the second of grace of line 48.
* **Left out**: BAD_START and PARSE_ERROR (malformed input) and a failing first read,
  which refuse a request before it has touched anything; message texts; trace ids.
* **Schedule**: no stored key matches `hold:room:*` (holds are under `hold:token:`), and
  the minutes and seconds that an ISO start on a whole second leaves when it is split at
  `:` do not parse as a range, so both scans yield nothing (`HoldRanges`, `LockRanges`). The day status HELD is thus never shown, and a created but
  unconfirmed booking, whose end is NULL, leaves its days FREE.
* **Identity** takes a `roles` table that the entity can read. Over the migration's it
  cannot: `role.entity.ts:14` maps `createdAt` to a column of that name, the migration
  creates `created_at` (line 15), and every `findByEmail` joins roles. Then all
  registers and logins are answered 500, which needs no model checker.
* **Processes.** Bookings may be served by several processes: requests share nothing but
  the stores, so only a crash tells processes apart. `Identity` has one process. A second
  one would declare queues of its own and mail every event again.
* **Lists.** The three handlers are not providers of `booking.module.ts` (lines 28-37), so
  as shipped the routes fail; `BookingSearch` is what they do once they are. `@Roles` of
  `booking.controller.ts` (41, 54, 67) is read by no guard of that class, which has
  `AuthApiGuard` only: any caller with a token uses any route. Rows are all `CONFIRMED` and
  have no other condition in the WHERE. Page numbers and sizes that are no numbers are left
  out, and so is a client who names a page without having seen the one before.
  A SELECT puts rows that start together in any order, which may differ from that of
  the SELECT before.

## 3. Runs

Each is one question. Times are for two workers.

| run | instance | shows | states |
|---|---|---|---|
| `overlap` | 2 requests, 1 room, 2 users, starts 3 and 4, lengths 2 and 3, the clock stands | `SlotSoldOnce`, `HeldSlotNotSold`, `LiveHoldsApart`, type correctness, and that the handlers implement `RoomCalendar` | 0.50 M, 115 s |
| `contention` | 3 requests for one start, the clock moves | `IInv` (the proofs' invariant), `ConfirmationBacked`, `ConfirmedTokenSpent`, `LocksLeaveByTTL` | 0.92 M, 46 s |
| `shipped_schema` | 2 requests as in `overlap`, NOT NULL | `CreateIsDeadEnd` | 0.43 M, 15 s |
| `conflict_means_taken` | no fault, NOT NULL, empty stores | **violated**: a free slot is answered SLOT_TAKEN | |
| `refused_leaves_no_row` | no fault, NULL admitted, a carried lock | **violated**: a create refused by the lock leaves its row | |
| `held_slot_confirmable` | no fault, NULL admitted | **violated**: the owner of a live hold is refused because of his own row | |
| `unpaid_row_expires` | no fault, fair | **violated**: the row of an unpaid create stays for ever | |
| `schedule` | 2 queries, 2 requests, midnight at 4, two windows of 2 days | `ScheduleInv`, `ConfirmedDaysShown`, `BookedDaysReal`, `BookedStaysBooked` | 1.75 M, 105 s |
| `identity` | 4 calls, 2 addresses, 2 passwords, all faults | `IdentityInv`, `TokenNamesAccount`, `MailsReachOwners`, `MailedOnce`, and that all of it implements `AccountRegistry` | 0.68 M, 80 s |
| `identity_delivery` | 2 calls, fair, all faults | `AnsweredIsMailed`, `CallsEnd` | 4 k |
| `search` | 1 client, 5 rows in 2 rooms, pages of 1 and 2 | `SearchInv`, `ItemsStand`, `PageKeepsPromise`, `NothingMissed` | 0.59 M, 1 min |
| `duplicate_email` | 2 registers, no fault | **violated**: the loser of a race is answered 500, not 400 | |

**Bounds.** Every property about bookings relates at most two requests, and a third
party (another create, a retry, an expiry) is either a third request (`contention`) or an
environment step. Start 3 is aligned with a length of 3 and not with 2; slots from 3 and
from 4 overlap when the first is long and touch when it ends at 4 (a carried hold). The
clock moves in `contention` and `shipped_schema`, where it makes start 3 past;
it is read by the past-slot check alone, which refuses creates, so `overlap` lets it stand. One room suffices since rooms share nothing but the table, where
every condition names the room; two users since an owner and somebody else are all the
code tells apart. `schedule` has slots that end at, cross and start at midnight, and
two windows that share the day after it, of which one begins with that day: a stay that
crosses the midnight is in both, one that ends there only in the other. In `identity` two registers race, a third
call logs in or races too, and the fourth leaves room for a retry. `search` has
three stays of one room that follow each other, a fourth without an end that excludes one
of them, and a stay of another room that ties with one: with pages of one and two rows
a walk crosses pages while rows are added before, between and after its reads. Clients do
not affect each other, so one is enough: his own earlier walks stand for those of others.
Filters name a room, a guest from a date, and a room up to a date.

Symmetry is used in the safety runs of `Booking`, `RoomSchedule` and `Identity` only, over requests, queries, calls, addresses and passwords, which
nothing orders. The `FaultsPossible = FALSE` of the violation runs means that the
disagreement needs no failure.

`CHECK_DEADLOCK FALSE` is set for `duplicate_email`, where the calls are used up, the
broker never fails and nothing is left to do.

**Fairness.** `Booking!Fairness`: weak fairness of the awaited call of each request (drivers
answer or reject; there is no unbounded wait in the handlers) and of the expiry of each
key (Redis drops it some time after its TTL); `unpaid_row_expires` is refuted under it. That
a request ends is not among the properties: the two handlers are straight lines that wait
for no other request, so it would only repeat the fairness. No client is obliged to call,
the clock need not advance, and no fault has to happen. `Identity!Fairness`: weak fairness of the
handlers and of delivery, strong fairness of a successful lookup: the broker redelivers
a requeued event at once and for ever, so it is tried infinitely often and succeeds when
the database comes back. Connections may be lost and processes may stop in that run;
`AnsweredIsMailed` then excuses an event whose connection is lost before its mail, since
the queues are exclusive and go with it, and nothing else.

## 4. Proofs

Every invariant, action property and refinement that a passing run checks is a theorem of
the specification, for all values of the constants: any number of requests, queries,
calls and clients, any slot lengths, windows, page sizes and filters.

**Assumptions**, each a named ASSUME that TLC evaluates in the runs: times are natural
numbers, `HourLength`, `DayLength`, slot lengths (`@Min(5)`), day counts (`@Min(1)`) and
`MaxPageSize` are positive; `Null` is no number, no request id, no row of `rooms`, no
address and no account; the value of an old lock is no request id; carried holds end after
they start; queries are no requests. `BookingSearch` also assumes that each entry of its calendar
has a room, starts at one of the instants the calendar is read at, and ends, if it ends,
after its start. That is no restriction on the service: `BookingCalendar!EntriesSuitLists`
proves it of the rows the handlers write.

| module | theorem | states |
|---|---|---|
| `BookingProofs` | `Invariance` | `Spec => []IInv` |
| | `TypeCorrect` | `Spec => []TypeOK` |
| | `SlotsSoldOnce` | `Spec => []SlotSoldOnce` |
| | `HeldSlotsNotSold` | `Spec => []HeldSlotNotSold` |
| | `HoldsAreApart` | `Spec => []LiveHoldsApart` |
| | `ConfirmationsBacked` | `Spec => []ConfirmationBacked` |
| | `ConfirmedTokensSpent` | `Spec => []ConfirmedTokenSpent` |
| | `LocksOnlyLapse` | `Spec => LocksLeaveByTTL` |
| | `CreatesAreDeadEnds` | `Spec => []CreateIsDeadEnd` |
| `BookingCalendar` | `ExclusionIsDisjointness` | rows not `Excluded` share no instant |
| | `BookingImplementsCalendar` | `Spec => ImplementsCalendar` |
| `ScheduleProofs` | `ScheduleInvariance` | `ScheduleSpec => []ScheduleInv` |
| | `ScheduleRefinesBooking` | `ScheduleSpec => Spec` |
| | `ScheduleTypes` | `ScheduleSpec => []ScheduleTypeOK` |
| | `ConfirmedDaysAreShown` | `ScheduleSpec => []ConfirmedDaysShown` |
| | `BookedDaysAreReal` | `ScheduleSpec => []BookedDaysReal` |
| | `BookedDaysStayBooked` | `ScheduleSpec => []BookedStaysBooked` |
| `IdentityProofs` | `IdentityInvariance` | `Spec => []IdentityInv` |
| | `IdentityTypes` | `Spec => []IdentityTypeOK` |
| | `TokensNameAccounts` | `Spec => []TokenNamesAccount` |
| | `MailsReachTheirOwners` | `Spec => []MailsReachOwners` |
| | `MailsAreSentOnce` | `Spec => []MailedOnce` |
| | `IdentityImplementsRegistry` | `Spec => ImplementsRegistry` |
| `SearchProofs` | `SearchInvariance` | `SearchSpec => []SearchInv` |
| | `SearchTypes` | `SearchSpec => []SearchTypeOK` |
| | `ListedItemsStand` | `SearchSpec => []ItemsStand` |
| | `PagesKeepPromises` | `SearchSpec => []PageKeepsPromise` |
| | `NothingIsMissed` | `SearchSpec => []NothingMissed` |

### The arguments

**Bookings.** `SlotSoldOnce` and its companions talk about answers, the constraint about
rows; neither is inductive alone. `IInv` ties them: every row is *the* row of the request
whose id it bears (`RowsAreOfRequests`), a request past its transaction has its row there
(`CommittedRowsStand`), and the table has no overlap (`NoOverlap`). So two requests that
both got past their transactions have two rows that do not overlap, whatever Redis did
meanwhile. That the confirm's unconditional DEL never frees a lock of a running create
follows too: a lock belongs to a create whose row is in the table (`LocksAreOfCreates`),
that row has no end, and it would have kept out the row the confirm has just written. The
spent token needs `SpentHoldsGone`: only the create of the same slot could write the hold
again, and its row cannot be in the table next to the confirm's. `CreateIsDeadEnd` adds
`EndsKnown` to `IInv`. `RequestsWellFormed` carries the stages, and `MailsMatchRows` the
mails: one that is out may be for a request that never gives its answer, since a crash or
a lost reply fits between the two, but its row is in the table.

`HeldSlotNotSold` and `LiveHoldsApart` are about guests who hold a token. Neither claims
that the owner cannot confirm his own token; that he cannot is finding `held_slot_confirmable`.
A create that was answered has its row in the table, and that row has no end: the room has
one such row at most, so two holds given out are never alive at once in one room
(`CreatedRowIsOpen`), and every confirmed row ends before that row starts. No step
of the argument uses the lock: the exclusion constraint alone makes the service safe. That
is so because the code writes the row before it asks for the lock, in the reverse of the
order that the README of the service describes (finding `refused_leaves_no_row`).

**Schedule.** `ConfirmedDaysShown` compares an answer with what was known before the query
began, three reads earlier. `ScheduleInv` carries that over the reads: rows never leave
the table, and an answered request or query never moves again (`HistoryStands`), so the
rows of `told` and of `earlier` answers are among those the SELECT returns for every day of
the window (`KnownRowsRead`), and what it returned still stands at the answer
(`ReadRowsStand`). Two facts about the code are needed on the way: a
confirmed row has a room (`RowsHaveRooms`, the foreign key), hence the first read cannot
answer an empty window for it (`KnownRoomHasDays`); and a row that touches one day of the window
touches the window, which is what makes one SELECT over the window agree with one
test per day. The queries only read, except that a crash takes
requests and queries together; so `ScheduleRefinesBooking` holds, and `IInv` with everything
proved of `Booking` carries over to the composition.

**Identity.** A mail is sent by a subscriber that knows nothing but the id in the event.
`EventsAwaitMail` says whose event it can be: one of a call that has been answered with a
token and not been mailed yet, with the role `queued` or `handling` and never both. Then
a requeue moves the event, a lost connection drops it, and no fault doubles it, so
`MailedOnce` follows. That its lookup finds the right address needs `AccountsApart` (ids and
addresses are unique, although `findByEmail` and `save` are awaits apart) and
`CallsWellFormed` (the account a call holds at `publish` is in the table). The step of the
registry is then the step of the table, of the answer or of the mail.

**Lists.** `NothingMissed` speaks of a whole walk, of which no state holds more than one
page. The measure is the place of a row in its list: in the list of one room no two
rows start together, since each occupies its own start and the calendar excludes that, so the place
of a row is the number of rows that start after it (`Ahead`), and a page holds exactly the
rows whose place lies between its offset and the next (a lemma about every order that
`IsPage` admits). Rows are only added, so a place only grows. Hence a row that is
still owed to the client lies at or behind the page he asks for (`OwedLieAhead`), and behind
it once he has that page in hand; a short page has nothing behind it. `PageKeepsPromise` needs
`TotalStands`: the rows counted are still there when the page is read.

**Model-checked only.** The liveness properties (`AnsweredIsMailed`,
`CallsEnd`): liveness under fairness is out of the prover's reach. The five
refuted statements of section 5 are counterexamples, which TLC exhibits. Nothing else.

## 5. Findings

1. `create-booking.handler.ts:62` - no `endAt` in the row that is inserted: over the shipped
   schema POST /bookings always answers SLOT_TAKEN (`conflict_means_taken`).
2. `create-booking.handler.ts:60` - the row is written before the lock is asked for, where
   `src/README.md:68` and its diagram (lines 132-142) have the lock first: a create that
   the lock refuses leaves a CONFIRMED row behind (`refused_leaves_no_row`).
3. `confirm-booking.handler.ts:49` - confirm inserts a second row instead of updating the
   first, which keeps it out (`held_slot_confirmable`).
4. `create-booking.handler.ts:66` - no row is ever PENDING and none expires
   (`unpaid_row_expires`).
5. `register-user.handler.ts:32` - a lost race for an address is a 500 (`duplicate_email`).

Seen while reading, without a run: `role.entity.ts:14` against the migration; the three
list handlers missing from `booking.module.ts:28-37`; HELD never shown
(`get-room-schedule.handler.ts:54-93`); the Redis connection that a failing schedule query
leaves open (line 95); no reconnection to RabbitMQ.

About the lists, seen by varying `BookingSearch`; no document claims otherwise:

* A client must walk until a page is short. One who stops at `total` may miss a row he
  knows of, when another row was added between the COUNT and the SELECT of his last page
  (`booking.repo.ts:60-64`).
* `NothingMissed` is stated for the list of one room. Across rooms, two stays that start
  together may change places between two pages, since `start_at` alone orders them
  (`booking.repo.ts:58`): one is then shown twice and the other not at all.
* An open row (NULL end) is listed as ending in 1970 (`booking.repo.ts:71`), and a filter
  by `dateTo` hides it. `ItemsStand` says that this never happens to a booking its guest has
  a receipt for.

## 6. Plan

Done, in this order: BookingTable, RoomCatalog, Booking (the core) with its runs;
BookingInvariant and BookingProofs; RoomCalendar and BookingCalendar; RoomSchedule;
EventBus and Identity; BookingSearch on top of RoomCalendar; AccountRegistry and its
refinement by Identity; IdentityInvariant and IdentityProofs; ScheduleInvariant and
ScheduleProofs; SearchInvariant and SearchProofs.

Next:

* **Composition of the lists with the handlers** - one theorem that instantiates
  `BookingSearch` with the table of `Booking`: `BookingImplementsCalendar` gives the steps,
  `EntriesSuitLists` the assumption on entries; what is left is to write the composed
  next-state relation.
* **SlotGrid** - the alignment arithmetic of `create-booking.handler.ts:50-59`: when two
  aligned slots of one length can overlap, as a lemma and a bounded check.
* **RedisLock** - `release` (get, compare, del as separate calls) next to expiry, should a
  caller appear.

Not planned: the components listed in section 1 that no module provides, the layout of
error bodies, JWT verification, DTO validation, the room lists (one SELECT each, which
one await makes atomic).
