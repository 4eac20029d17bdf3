--------------------------- MODULE SearchInvariant ---------------------------
(***************************************************************************)
(* The inductive invariant behind the safety properties of BookingSearch.  *)
(*                                                                         *)
(* The argument: in the list of one room no two rows start together, so    *)
(* the place of a row is the number of rows that start after it.  Rows are *)
(* only added, so a row can only move towards later pages; a client who    *)
(* has not been shown it yet has it at or behind the page he asks for.     *)
(***************************************************************************)
EXTENDS BookingSearch

\* The primary key and the exclusion constraint, for the whole table.
CalendarSound ==
  /\ IsFiniteSet(calendar)
  /\ \A e, f \in calendar : e # f => e.id # f.id /\ ~Clash(e, f)

ReceiptsHaveEnds ==
  \A id \in receipts : \E e \in calendar : e.id = id /\ e.endAt # Null

\* Nobody knows of a booking that is not there.
KnownAreEntered ==
  \A c \in Clients : walk[c].seen \cup walk[c].known \subseteq {e.id : e \in calendar}

OnlyAdminsNameUsers ==
  \A c \in Clients : walk[c].route # "admin" => walk[c].filter.userId = Null

ItemsMatch ==
  \A c \in Clients : \A item \in walk[c].items : \E e \in Matching(c) : item = Item(e)

TotalStands ==
  \A c \in Clients :
    walk[c].stage = "read" => walk[c].total <= Cardinality(Matching(c))

\* The rows that a list shows before e.
Ahead(c, e) == {f \in Matching(c) : f.startAt > e.startAt}

\* The entries that walk c still owes to its client.
Owed(c) ==
  {e \in calendar : e.id \in walk[c].known /\ Wanted(c, e) /\ e.id \notin walk[c].seen}

OwedLieAhead ==
  \A c \in Clients : walk[c].filter.roomId # Null =>
    \A e \in Owed(c) :
      /\ walk[c].stage \in {"count", "read"} =>
           Offset(c) <= Cardinality(Ahead(c, e))
      /\ Answered(c) =>
           FullPage(c) /\ Offset(c) + walk[c].size <= Cardinality(Ahead(c, e))

\* What the COUNT and the SELECT of a search keep true while rows are added: a
\* total counts rows that are still there, and a row that a walk owes to its
\* client is at or behind the page he is on.
SearchInv ==
  /\ SearchTypeOK
  /\ CalendarSound
  /\ ReceiptsHaveEnds
  /\ KnownAreEntered
  /\ OnlyAdminsNameUsers
  /\ ItemsMatch
  /\ TotalStands
  /\ PageKeepsPromise
  /\ OwedLieAhead
=============================================================================
