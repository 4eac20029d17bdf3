----------------------------- MODULE RoomCatalog -----------------------------
(***************************************************************************)
(* The room context: rooms are created by hosts, and their slot length is  *)
(* changed by their owner.  No code removes a room or changes its owner.   *)
(***************************************************************************)
EXTENDS BookingTable

CONSTANTS
  RoomIds,   \* the ids the rooms table may hand out
  Users,     \* the user ids that tokens carry
  Hosts,     \* users whose token carries the role HOST or ADMIN
  SlotMins   \* the slotDurationMin values hosts send, in clock units

ASSUME HostsAssumption == Hosts \subseteq Users
\* @Min(5) of both DTOs
ASSUME SlotMinsAssumption == SlotMins \subseteq Nat \ {0}

VARIABLE rooms  \* the rooms table: id -> row, Null while the id is unused

RoomRows == [ownerId : Hosts, slotDurationMin : SlotMins]

\* null is not a row.
ASSUME NullIsNoRoom == Null \notin RoomRows

RoomsTypeOK == rooms \in [RoomIds -> RoomRows \cup {Null}]

\* The server starts over a database that may already hold rooms.
RoomsInit == RoomsTypeOK

\* RolesGuard with @Roles('HOST', 'ADMIN') over the user the JWT names.
MayManageRooms(userId) == userId \in Hosts

\* POST /rooms/create behind RolesGuard: one INSERT.
CreateRoom(userId, roomId, slot) ==
  /\ MayManageRooms(userId)
  /\ rooms[roomId] = Null
  /\ rooms' = [rooms EXCEPT ![roomId] =
                 [ownerId |-> userId, slotDurationMin |-> slot]]

\* PATCH /rooms/:id with a slotDurationMin.  The handler reads the row, checks
\* its owner and saves.  One step is exact: the owner never changes, and the
\* save writes the columns of the DTO only (fields absent from the DTO are
\* undefined and are skipped by the repository).
UpdateRoom(userId, roomId, slot) ==
  /\ MayManageRooms(userId)
  /\ rooms[roomId] # Null
  /\ rooms[roomId].ownerId = userId
  /\ rooms' = [rooms EXCEPT ![roomId].slotDurationMin = slot]
=============================================================================
