---------------------------- MODULE SearchProofs ----------------------------
(***************************************************************************)
(* Proofs about the booking lists, for every calendar, every set of        *)
(* clients, filters and page sizes, and every way in which rows are added  *)
(* while clients walk from page to page.                                   *)
(***************************************************************************)
EXTENDS SearchInvariant, FiniteSetTheorems, TLAPS

-----------------------------------------------------------------------------
(* Entries *)

LEMMA EntryFields ==
  ASSUME NEW e \in Entries
  PROVE  /\ e.roomId \in DOMAIN OwnerOf
         /\ e.startAt \in Nat /\ e.startAt \in Instants
         /\ e.endAt = Null \/ (e.endAt \in Nat /\ e.startAt < e.endAt)
BY EntriesAssumption

LEMMA ClashIsSymmetric ==
  ASSUME NEW e, NEW f
  PROVE  Clash(e, f) <=> Clash(f, e)
BY DEF Clash

\* An entry occupies the instant at which it starts.
LEMMA StartIsOccupied ==
  ASSUME NEW e \in Entries
  PROVE  e.startAt \in Occupied(e)
BY EntryFields DEF Occupied

\* No two entries of a room start together.
LEMMA StartsAreDistinct ==
  ASSUME CalendarSound, calendar \subseteq Entries,
         NEW e \in calendar, NEW f \in calendar, e # f, e.roomId = f.roomId
  PROVE  e.startAt # f.startAt
<1>1. ~Clash(e, f)
  BY DEF CalendarSound
<1>2. e.startAt \in Occupied(e) /\ f.startAt \in Occupied(f)
  BY StartIsOccupied
<1> QED
  BY <1>1, <1>2 DEF Clash

-----------------------------------------------------------------------------
(* Filters and scopes *)

LEMMA FilterFields ==
  ASSUME SearchTypeOK, NEW c \in Clients
  PROVE  /\ walk[c].filter.dateFrom \in Nat \cup {Null}
         /\ walk[c].filter.dateTo \in Nat \cup {Null}
<1>1. walk[c].filter \in Filters
        \cup {[f EXCEPT !.userId = Null] : f \in Filters} \cup {NoFilter}
  BY DEF SearchTypeOK, WalkRecords
<1>2. ASSUME NEW f \in Filters
      PROVE  /\ f.dateFrom \in Nat \cup {Null} /\ f.dateTo \in Nat \cup {Null}
             /\ [f EXCEPT !.userId = Null].dateFrom = f.dateFrom
             /\ [f EXCEPT !.userId = Null].dateTo = f.dateTo
  BY SearchAssumption
<1>3. CASE walk[c].filter \in Filters
  BY <1>2, <1>3
<1>4. ASSUME NEW f \in Filters, walk[c].filter = [f EXCEPT !.userId = Null]
      PROVE  /\ walk[c].filter.dateFrom \in Nat \cup {Null}
             /\ walk[c].filter.dateTo \in Nat \cup {Null}
  BY <1>2, <1>4
<1>5. CASE walk[c].filter = NoFilter
  BY <1>5 DEF NoFilter
<1> QED
  BY <1>1, <1>3, <1>4, <1>5

\* The WHERE clause selects what the client asked for and may see.
LEMMA MatchingIsWanted ==
  ASSUME SearchTypeOK, OnlyAdminsNameUsers, NEW c \in Clients, NEW e \in calendar
  PROVE  e \in Matching(c) <=> Wanted(c, e)
<1>1. walk[c].route \in {"me", "owner", "admin"}
  BY DEF SearchTypeOK, WalkRecords, Routes
<1>2. e.endAt = Null \/ e.endAt \in Nat
  BY EntryFields DEF SearchTypeOK
<1>3. walk[c].filter.dateTo # Null =>
        (e.endAt # Null /\ e.endAt <= walk[c].filter.dateTo
           <=> e.endAt \in 0 .. walk[c].filter.dateTo)
  BY <1>2, FilterFields, SearchAssumption
<1>4. walk[c].filter.dateFrom # Null =>
        (e.startAt >= walk[c].filter.dateFrom <=> walk[c].filter.dateFrom <= e.startAt)
  BY FilterFields, EntryFields DEF SearchTypeOK
<1>5. InScope(c, e) <=> /\ walk[c].route = "me" => e.userId = walk[c].caller
                        /\ walk[c].route = "owner" => OwnerOf[e.roomId] = walk[c].caller
  BY <1>1 DEF InScope
<1>6. (walk[c].filter.userId # Null /\ walk[c].route = "admin"
         => e.userId = walk[c].filter.userId)
        <=> walk[c].filter.userId \in {Null, e.userId}
  BY DEF OnlyAdminsNameUsers
<1> QED
  BY <1>3, <1>4, <1>5, <1>6 DEF Matching, Passes, Wanted

-----------------------------------------------------------------------------
(* Counting *)

LEMMA MatchingFinite ==
  ASSUME CalendarSound, NEW c
  PROVE  /\ IsFiniteSet(Matching(c)) /\ Cardinality(Matching(c)) \in Nat
         /\ \A part \in SUBSET Matching(c) :
              /\ IsFiniteSet(part) /\ Cardinality(part) \in Nat
              /\ Cardinality(part) <= Cardinality(Matching(c))
<1>1. Matching(c) \in SUBSET calendar /\ IsFiniteSet(calendar)
  BY DEF Matching, CalendarSound
<1>2. IsFiniteSet(Matching(c))
  BY <1>1, FS_Subset
<1> QED
  BY <1>2, FS_Subset, FS_CardinalityType

\* Entries have ids of their own, and so have their items.
LEMMA ItemsOfPage ==
  ASSUME CalendarSound, NEW page \in SUBSET calendar
  PROVE  Cardinality({Item(e) : e \in page}) = Cardinality(page)
<1> DEFINE items == {Item(e) : e \in page}
           itemOf == [e \in page |-> Item(e)]
<1>1. IsFiniteSet(page)
  BY FS_Subset DEF CalendarSound
<1>2. \A e, f \in page : Item(e) = Item(f) => e = f
  <2>1. \A e, f \in page : Item(e) = Item(f) => e.id = f.id
    BY DEF Item
  <2> QED
    BY <2>1 DEF CalendarSound
<1>3. itemOf \in Bijection(page, items)
  BY <1>2 DEF Bijection, Injection, IsInjective, Surjection
<1>4. ExistsBijection(page, items)
  BY <1>3 DEF ExistsBijection
<1> QED
  BY <1>1, <1>4, FS_Bijection

LEMMA OffsetIsNat ==
  ASSUME SearchTypeOK, NEW c \in Clients
  PROVE  Offset(c) \in Nat /\ walk[c].size \in Nat \ {0}
<1>1. walk[c].page \in Nat \ {0} /\ walk[c].size \in Nat \ {0}
  BY SearchAssumption DEF SearchTypeOK, WalkRecords
<1>2. walk[c].page - 1 \in Nat
  BY <1>1
<1> QED
  BY <1>1, <1>2 DEF Offset

-----------------------------------------------------------------------------
(* Steps *)

\* The calendar only grows.
LEMMA CalendarGrows ==
  ASSUME [SearchNext]_searchVars
  PROVE  calendar \subseteq calendar' /\ receipts \subseteq receipts'
BY DEF SearchNext, calendarVars, searchVars, CalendarNext, Enter, GiveReceipt

\* One call of the client of walk c, while nobody writes.
Walks(c) ==
  /\ UNCHANGED calendarVars
  /\ \/ \E route \in Routes, caller \in Users, filter \in Filters, size \in PageSizes :
          BeginWalk(c, route, caller, filter, size)
     \/ CountRows(c)
     \/ ReadPage(c)
     \/ NextPage(c)
     \/ SearchFails(c)

LEMMA WalkMoves ==
  ASSUME SearchTypeOK, [SearchNext]_searchVars, NEW c \in Clients
  PROVE  walk'[c] = walk[c] \/ Walks(c)
<1>1. ASSUME NEW d \in Clients, WalkStep(d), d # c
      PROVE  walk'[c] = walk[c]
  <2>1. walk \in [Clients -> WalkRecords]
    BY DEF SearchTypeOK
  <2> QED
    BY <1>1, <2>1 DEF WalkStep, BeginWalk, CountRows, ReadPage, NextPage, SearchFails
<1> QED
  BY <1>1 DEF SearchNext, WalkStep, Walks, searchVars

\* A walk asks the same question.
SameQuery(c) ==
  /\ walk'[c].route = walk[c].route
  /\ walk'[c].caller = walk[c].caller
  /\ walk'[c].filter = walk[c].filter

\* It asks for the same page, having been shown no more.
SamePage(c) ==
  /\ walk'[c].size = walk[c].size /\ walk'[c].page = walk[c].page
  /\ walk'[c].items = walk[c].items
  /\ walk'[c].seen = walk[c].seen /\ walk'[c].known = walk[c].known

\* The fields of a walk after each of its calls.

LEMMA AfterBeginWalk ==
  ASSUME SearchTypeOK, NEW c \in Clients, NEW route, NEW caller, NEW filter, NEW size,
         BeginWalk(c, route, caller, filter, size)
  PROVE  /\ walk'[c].stage = "count" /\ walk'[c].route = route
         /\ walk'[c].filter = IF route = "admin" THEN filter
                              ELSE [filter EXCEPT !.userId = Null]
         /\ walk'[c].page = 1 /\ walk'[c].items = {} /\ walk'[c].seen = {}
         /\ walk'[c].known = KnownIds
BY DEF SearchTypeOK, BeginWalk, NoWalk

LEMMA AfterCountRows ==
  ASSUME SearchTypeOK, NEW c \in Clients, CountRows(c)
  PROVE  /\ SameQuery(c) /\ SamePage(c)
         /\ walk[c].stage = "count" /\ walk'[c].stage = "read"
         /\ walk'[c].total = Cardinality(Matching(c))
<1>1. walk[c] \in WalkRecords /\ walk[c].stage = "count"
  BY DEF SearchTypeOK, CountRows
<1>2. walk'[c] = [walk[c] EXCEPT !.stage = "read", !.total = Cardinality(Matching(c))]
  BY DEF SearchTypeOK, CountRows
<1> QED
  BY <1>1, <1>2 DEF WalkRecords, SameQuery, SamePage

LEMMA AfterReadPage ==
  ASSUME SearchTypeOK, NEW c \in Clients, ReadPage(c)
  PROVE  /\ SameQuery(c) /\ walk[c].stage = "read" /\ walk'[c].stage = "answered"
         /\ walk'[c].size = walk[c].size /\ walk'[c].page = walk[c].page
         /\ walk'[c].total = walk[c].total /\ walk'[c].known = walk[c].known
         /\ \E page \in SUBSET Matching(c) :
              /\ \E before \in SUBSET (Matching(c) \ page) : IsPage(c, page, before)
              /\ walk'[c].items = {Item(e) : e \in page}
              /\ walk'[c].seen = walk[c].seen \cup {e.id : e \in page}
<1>1. PICK page \in SUBSET Matching(c) :
        /\ \E before \in SUBSET (Matching(c) \ page) : IsPage(c, page, before)
        /\ walk' = [walk EXCEPT ![c].stage = "answered",
                                ![c].items = {Item(e) : e \in page},
                                ![c].seen  = @ \cup {e.id : e \in page}]
  BY DEF ReadPage
<1>2. walk[c] \in WalkRecords /\ walk[c].stage = "read"
  BY DEF SearchTypeOK, ReadPage
<1> DEFINE items == {Item(e) : e \in page}
           seen == walk[c].seen \cup {e.id : e \in page}
<1>3. walk'[c] = [walk[c] EXCEPT !.stage = "answered", !.items = items, !.seen = seen]
  BY <1>1 DEF SearchTypeOK
<1> HIDE DEF items, seen
<1>4. /\ SameQuery(c) /\ walk'[c].stage = "answered"
      /\ walk'[c].size = walk[c].size /\ walk'[c].page = walk[c].page
      /\ walk'[c].total = walk[c].total /\ walk'[c].known = walk[c].known
      /\ walk'[c].items = items /\ walk'[c].seen = seen
  BY <1>2, <1>3 DEF WalkRecords, SameQuery
<1> QED
  BY <1>1, <1>2, <1>4 DEF items, seen

LEMMA AfterNextPage ==
  ASSUME SearchTypeOK, NEW c \in Clients, NextPage(c)
  PROVE  /\ SameQuery(c) /\ Answered(c) /\ FullPage(c) /\ walk'[c].stage = "count"
         /\ walk'[c].size = walk[c].size /\ walk'[c].page = walk[c].page + 1
         /\ walk'[c].items = walk[c].items
         /\ walk'[c].seen = walk[c].seen /\ walk'[c].known = walk[c].known
<1>1. walk[c] \in WalkRecords
  BY DEF SearchTypeOK
<1> DEFINE next == walk[c].page + 1
<1>2. walk'[c] = [walk[c] EXCEPT !.stage = "count", !.page = next]
  BY DEF SearchTypeOK, NextPage
<1> HIDE DEF next
<1>3. /\ SameQuery(c) /\ walk'[c].stage = "count"
      /\ walk'[c].size = walk[c].size /\ walk'[c].page = next
      /\ walk'[c].items = walk[c].items
      /\ walk'[c].seen = walk[c].seen /\ walk'[c].known = walk[c].known
  BY <1>1, <1>2 DEF WalkRecords, SameQuery
<1> QED
  BY <1>3 DEF next, NextPage

LEMMA AfterSearchFails ==
  ASSUME SearchTypeOK, NEW c \in Clients, SearchFails(c)
  PROVE  SameQuery(c) /\ SamePage(c) /\ walk'[c].stage = "failed"
<1>1. walk[c] \in WalkRecords
  BY DEF SearchTypeOK
<1>2. walk'[c] = [walk[c] EXCEPT !.stage = "failed"]
  BY DEF SearchTypeOK, SearchFails
<1> QED
  BY <1>1, <1>2 DEF WalkRecords, SameQuery, SamePage

-----------------------------------------------------------------------------
(* Type correctness *)

LEMMA ClampInRange ==
  ASSUME NEW size \in PageSizes
  PROVE  Clamp(size) \in 1 .. MaxPageSize
BY SearchAssumption DEF Clamp

LEMMA BeginWalkTypes ==
  ASSUME SearchTypeOK, NEW c \in Clients, NEW route \in Routes, NEW caller \in Users,
         NEW filter \in Filters, NEW size \in PageSizes,
         BeginWalk(c, route, caller, filter, size)
  PROVE  walk' \in [Clients -> WalkRecords]
<1> DEFINE asked == IF route = "admin" THEN filter ELSE [filter EXCEPT !.userId = Null]
           begun == [NoWalk EXCEPT !.stage = "count", !.route = route, !.caller = caller,
                                   !.filter = asked, !.size = Clamp(size),
                                   !.known = KnownIds]
<1>1. KnownIds \subseteq Ids
  BY DEF KnownIds, SearchTypeOK, WalkRecords
<1>2. asked \in Filters \cup {[f EXCEPT !.userId = Null] : f \in Filters}
  OBVIOUS
<1> HIDE DEF asked
<1>3. NoWalk \in [stage : {"idle"}, route : {"me"}, caller : {Null}, filter : {NoFilter},
                 size : {1}, page : Nat \ {0}, total : Nat,
                 items : SUBSET {Item(e) : e \in Entries}, seen : SUBSET Ids,
                 known : SUBSET Ids]
  BY DEF NoWalk
<1>4. begun \in WalkRecords
  BY <1>1, <1>2, <1>3, ClampInRange DEF WalkRecords
<1> USE DEF asked
<1>5. walk' = [walk EXCEPT ![c] = begun]
  BY DEF BeginWalk
<1> QED
  BY <1>4, <1>5 DEF SearchTypeOK

LEMMA WalkTypes ==
  ASSUME SearchTypeOK, CalendarSound, NEW c \in Clients, WalkStep(c)
  PROVE  walk' \in [Clients -> WalkRecords]
<1>1. walk \in [Clients -> WalkRecords] /\ walk[c] \in WalkRecords
  BY DEF SearchTypeOK
<1>2. CASE CountRows(c)
  <2>1. [walk[c] EXCEPT !.stage = "read", !.total = Cardinality(Matching(c))]
          \in WalkRecords
    BY <1>1, MatchingFinite DEF WalkRecords
  <2> QED
    BY <1>1, <1>2, <2>1 DEF CountRows
<1>3. CASE ReadPage(c)
  <2>1. PICK page \in SUBSET Matching(c) :
          walk' = [walk EXCEPT ![c].stage = "answered",
                               ![c].items = {Item(e) : e \in page},
                               ![c].seen  = @ \cup {e.id : e \in page}]
    BY <1>3 DEF ReadPage
  <2>2. page \subseteq Entries
    BY DEF Matching, SearchTypeOK
  <2>3. [walk[c] EXCEPT !.stage = "answered", !.items = {Item(e) : e \in page},
                        !.seen = @ \cup {e.id : e \in page}] \in WalkRecords
    BY <1>1, <2>2 DEF WalkRecords, Ids
  <2> QED
    BY <1>1, <2>1, <2>3
<1>4. CASE NextPage(c)
  <2>1. walk[c].page + 1 \in Nat \ {0}
    BY <1>1 DEF WalkRecords
  <2>2. [walk[c] EXCEPT !.stage = "count", !.page = @ + 1] \in WalkRecords
    BY <1>1, <2>1 DEF WalkRecords
  <2> QED
    BY <1>1, <1>4, <2>2 DEF NextPage
<1>5. CASE SearchFails(c)
  BY <1>1, <1>5 DEF SearchFails, WalkRecords
<1> QED
  BY <1>2, <1>3, <1>4, <1>5, BeginWalkTypes DEF WalkStep

LEMMA SearchTypesStep ==
  ASSUME SearchTypeOK, CalendarSound, [SearchNext]_searchVars
  PROVE  SearchTypeOK'
<1>1. calendar' \subseteq Entries /\ receipts' \subseteq Ids
  BY DEF SearchNext, searchVars, calendarVars, CalendarNext, Enter, GiveReceipt,
         SearchTypeOK, Ids
<1>2. walk' \in [Clients -> WalkRecords]
  BY WalkTypes DEF SearchNext, searchVars, SearchTypeOK
<1> QED
  BY <1>1, <1>2 DEF SearchTypeOK

-----------------------------------------------------------------------------
(* The table *)

LEMMA CalendarSoundStep ==
  ASSUME CalendarSound, [SearchNext]_searchVars
  PROVE  CalendarSound'
<1>1. ASSUME NEW entry \in Entries, Enter(entry)
      PROVE  CalendarSound'
  <2>1. IsFiniteSet(calendar')
    BY <1>1, FS_AddElement DEF Enter, CalendarSound
  <2>2. \A e, f \in calendar' : e # f => e.id # f.id /\ ~Clash(e, f)
    BY <1>1, ClashIsSymmetric DEF Enter, CalendarSound
  <2> QED
    BY <2>1, <2>2 DEF CalendarSound, Clash, Occupied
<1>2. CASE UNCHANGED calendar
  BY <1>2 DEF CalendarSound, Clash, Occupied
<1> QED
  BY <1>1, <1>2 DEF SearchNext, calendarVars, searchVars, CalendarNext, GiveReceipt

LEMMA ReceiptsHaveEndsStep ==
  ASSUME ReceiptsHaveEnds, [SearchNext]_searchVars
  PROVE  ReceiptsHaveEnds'
<1>1. ASSUME NEW entry \in Entries, GiveReceipt(entry)
      PROVE  ReceiptsHaveEnds'
  BY <1>1 DEF GiveReceipt, ReceiptsHaveEnds
<1>2. CASE UNCHANGED receipts
  BY <1>2, CalendarGrows DEF ReceiptsHaveEnds
<1> QED
  BY <1>1, <1>2 DEF SearchNext, calendarVars, searchVars, CalendarNext, Enter

\* The ids of the entries.
EnteredIds == {e.id : e \in calendar}

LEMMA KnownAreEnteredStep ==
  ASSUME SearchTypeOK, ReceiptsHaveEnds, KnownAreEntered, [SearchNext]_searchVars
  PROVE  KnownAreEntered'
<1>1. EnteredIds \subseteq EnteredIds'
  BY CalendarGrows DEF EnteredIds
<1> SUFFICES ASSUME NEW c \in Clients
             PROVE  walk'[c].seen \cup walk'[c].known \subseteq EnteredIds
  BY <1>1 DEF KnownAreEntered, EnteredIds
<1>2. walk[c].seen \cup walk[c].known \subseteq EnteredIds
  BY DEF KnownAreEntered, EnteredIds
<1>3. ASSUME NEW route, NEW caller, NEW filter, NEW size,
             BeginWalk(c, route, caller, filter, size)
      PROVE  walk'[c].seen \cup walk'[c].known \subseteq EnteredIds
  <2>1. receipts \subseteq EnteredIds
    BY DEF ReceiptsHaveEnds, EnteredIds
  <2>2. KnownIds \subseteq EnteredIds
    BY <2>1 DEF KnownIds, KnownAreEntered, EnteredIds
  <2> QED
    BY <1>3, <2>2, AfterBeginWalk
<1>4. CASE ReadPage(c)
  <2>1. PICK page \in SUBSET Matching(c) :
          walk'[c].seen = walk[c].seen \cup {e.id : e \in page}
    BY <1>4, AfterReadPage
  <2>2. {e.id : e \in page} \subseteq EnteredIds
    BY DEF Matching, EnteredIds
  <2>3. walk'[c].known = walk[c].known
    BY <1>4, AfterReadPage
  <2> QED
    BY <1>2, <2>1, <2>2, <2>3
<1>5. CASE CountRows(c) \/ NextPage(c) \/ SearchFails(c)
  BY <1>2, <1>5, AfterCountRows, AfterNextPage, AfterSearchFails DEF SamePage
<1> QED
  BY <1>2, <1>3, <1>4, <1>5, WalkMoves DEF Walks

-----------------------------------------------------------------------------
(* The query of a walk *)

\* A walk asks the same question until it begins anew.
LEMMA QueryStays ==
  ASSUME SearchTypeOK, [SearchNext]_searchVars, NEW c \in Clients
  PROVE  \/ SameQuery(c)
         \/ \E route \in Routes, caller \in Users, filter \in Filters,
               size \in PageSizes : BeginWalk(c, route, caller, filter, size)
<1>1. walk'[c] = walk[c] => SameQuery(c)
  BY DEF SameQuery
<1> QED
  BY <1>1, WalkMoves, AfterCountRows, AfterReadPage, AfterNextPage, AfterSearchFails
     DEF Walks

\* What matches goes on matching, and what was wanted is wanted still.
LEMMA MatchingGrows ==
  ASSUME [SearchNext]_searchVars, NEW c, SameQuery(c)
  PROVE  /\ Matching(c) \subseteq Matching(c)'
         /\ UNCHANGED calendar => Matching(c)' = Matching(c)
         /\ \A e : Wanted(c, e)' <=> Wanted(c, e)
<1>1. \A e : InScope(c, e)' <=> InScope(c, e)
  BY DEF SameQuery, InScope
<1>2. \A e : Passes(c, e)' <=> Passes(c, e)
  BY DEF SameQuery, Passes
<1>3. \A e : Wanted(c, e)' <=> Wanted(c, e)
  BY DEF SameQuery, Wanted
<1> QED
  BY <1>1, <1>2, <1>3, CalendarGrows DEF Matching

LEMMA OnlyAdminsNameUsersStep ==
  ASSUME SearchTypeOK, OnlyAdminsNameUsers, [SearchNext]_searchVars
  PROVE  OnlyAdminsNameUsers'
<1> SUFFICES ASSUME NEW c \in Clients, walk'[c].route # "admin"
             PROVE  walk'[c].filter.userId = Null
  BY DEF OnlyAdminsNameUsers
<1>1. CASE SameQuery(c)
  BY <1>1 DEF SameQuery, OnlyAdminsNameUsers
<1>2. ASSUME NEW route \in Routes, NEW caller \in Users, NEW filter \in Filters,
             NEW size \in PageSizes, BeginWalk(c, route, caller, filter, size)
      PROVE  walk'[c].filter.userId = Null
  <2>1. walk'[c].filter = [filter EXCEPT !.userId = Null]
    BY <1>2, AfterBeginWalk
  <2>2. [filter EXCEPT !.userId = Null].userId = Null
    BY SearchAssumption
  <2> QED
    BY <2>1, <2>2
<1> QED
  BY <1>1, <1>2, QueryStays

LEMMA ItemsMatchStep ==
  ASSUME SearchTypeOK, ItemsMatch, [SearchNext]_searchVars
  PROVE  ItemsMatch'
<1> SUFFICES ASSUME NEW c \in Clients, NEW item \in walk'[c].items
             PROVE  \E e \in Matching(c)' : item = Item(e)
  BY DEF ItemsMatch, Item
<1>1. ASSUME NEW route, NEW caller, NEW filter, NEW size,
             BeginWalk(c, route, caller, filter, size)
      PROVE  FALSE
  BY <1>1, AfterBeginWalk
<1>2. SameQuery(c) /\ Matching(c) \subseteq Matching(c)'
  BY <1>1, QueryStays, MatchingGrows
<1>3. CASE walk'[c].items = walk[c].items
  BY <1>2, <1>3 DEF ItemsMatch
<1>4. CASE ReadPage(c)
  BY <1>2, <1>4, AfterReadPage
<1>5. CASE CountRows(c) \/ NextPage(c) \/ SearchFails(c)
  BY <1>3, <1>5, AfterCountRows, AfterNextPage, AfterSearchFails DEF SamePage
<1> QED
  BY <1>1, <1>3, <1>4, <1>5, WalkMoves DEF Walks

-----------------------------------------------------------------------------
(* Pages *)

LEMMA TotalStandsStep ==
  ASSUME SearchTypeOK, CalendarSound, TotalStands, [SearchNext]_searchVars
  PROVE  TotalStands'
<1> SUFFICES ASSUME NEW c \in Clients, walk'[c].stage = "read"
             PROVE  walk'[c].total <= Cardinality(Matching(c)')
  BY DEF TotalStands
<1>1. CASE walk'[c] = walk[c]
  <2>1. Matching(c) \subseteq Matching(c)'
    BY <1>1, MatchingGrows DEF SameQuery
  <2>2. IsFiniteSet(Matching(c)') /\ Cardinality(Matching(c)') \in Nat
    <3>1. CalendarSound'
      BY CalendarSoundStep
    <3>2. Matching(c)' \in SUBSET calendar' /\ IsFiniteSet(calendar')
      BY <3>1 DEF Matching, CalendarSound
    <3> QED
      BY <3>2, FS_Subset, FS_CardinalityType
  <2>3. Cardinality(Matching(c)) <= Cardinality(Matching(c)')
    BY <2>1, <2>2, FS_Subset
  <2>4. walk[c].total <= Cardinality(Matching(c)) /\ walk[c].total \in Nat
    BY <1>1 DEF TotalStands, SearchTypeOK, WalkRecords
  <2> QED
    BY <1>1, <2>2, <2>3, <2>4, MatchingFinite
<1>2. CASE CountRows(c) /\ UNCHANGED calendarVars
  <2>1. Matching(c)' = Matching(c)
    BY <1>2, AfterCountRows, MatchingGrows DEF calendarVars
  <2> QED
    BY <1>2, <2>1, AfterCountRows, MatchingFinite
<1> QED
  BY <1>1, <1>2, WalkMoves, AfterBeginWalk, AfterReadPage, AfterNextPage, AfterSearchFails
     DEF Walks

\* What OFFSET and LIMIT return: all of what is left, or a full page.
LEMMA SliceSizes ==
  ASSUME SearchTypeOK, CalendarSound, NEW c \in Clients,
         NEW page \in SUBSET Matching(c), NEW before \in SUBSET (Matching(c) \ page),
         Slice(c, page, before)
  PROVE  LET matches == Cardinality(Matching(c))
         IN /\ Cardinality(page) \in Nat /\ Cardinality(before) \in Nat
            /\ matches \in Nat
            /\ Cardinality(page \cup before) = Cardinality(page) + Cardinality(before)
            /\ Cardinality(page \cup before) <= matches
            /\ Cardinality(before) <= Offset(c)
            /\ Cardinality(before) < matches => Cardinality(before) = Offset(c)
            /\ Cardinality(page \cup before) < matches =>
                 Cardinality(page) = walk[c].size
<1> DEFINE matches == Cardinality(Matching(c))
<1>1. /\ Cardinality(page) \in Nat /\ Cardinality(before) \in Nat /\ matches \in Nat
      /\ IsFiniteSet(page) /\ IsFiniteSet(before)
      /\ Cardinality(before) <= matches
      /\ Cardinality(page \cup before) <= matches
  <2>1. before \in SUBSET Matching(c) /\ page \cup before \in SUBSET Matching(c)
    OBVIOUS
  <2> QED
    BY <2>1, MatchingFinite
<1>2. Cardinality(page \cup before) = Cardinality(page) + Cardinality(before)
  <2>1. page \cap before = {}
    OBVIOUS
  <2>2. Cardinality(page \cup before)
          = Cardinality(page) + Cardinality(before) - Cardinality({})
    BY <1>1, <2>1, FS_Union
  <2> QED
    BY <1>1, <2>2, FS_EmptySet
<1>3. Offset(c) \in Nat /\ walk[c].size \in Nat \ {0}
  BY OffsetIsNat
<1>4. /\ Cardinality(before) = Least(Offset(c), matches)
      /\ Cardinality(page) = Least(walk[c].size, matches - Cardinality(before))
  BY DEF Slice
<1> HIDE DEF matches
<1>5. Cardinality(before) <= Offset(c)
      /\ (Cardinality(before) < matches => Cardinality(before) = Offset(c))
  BY <1>1, <1>3, <1>4 DEF Least
<1>6. Cardinality(page) + Cardinality(before) < matches => Cardinality(page) = walk[c].size
  BY <1>1, <1>3, <1>4 DEF Least
<1> QED
  BY <1>1, <1>2, <1>5, <1>6 DEF matches

LEMMA PageKeepsPromiseStep ==
  ASSUME SearchTypeOK, CalendarSound, TotalStands, PageKeepsPromise,
         [SearchNext]_searchVars
  PROVE  PageKeepsPromise'
<1> SUFFICES ASSUME NEW c \in Clients, Answered(c)', walk'[c].total > Offset(c)'
             PROVE  Cardinality(walk'[c].items)
                      >= Least(walk'[c].size, walk'[c].total - Offset(c)')
  BY DEF PageKeepsPromise, Least
<1>1. CASE walk'[c] = walk[c]
  BY <1>1 DEF PageKeepsPromise, Answered, Offset
<1>2. CASE ReadPage(c)
  <2>1. /\ walk'[c].size = walk[c].size /\ walk'[c].total = walk[c].total
        /\ Offset(c)' = Offset(c) /\ walk[c].stage = "read"
    BY <1>2, AfterReadPage DEF Offset
  <2>2. PICK page \in SUBSET Matching(c) :
          /\ \E before \in SUBSET (Matching(c) \ page) : IsPage(c, page, before)
          /\ walk'[c].items = {Item(e) : e \in page}
    BY <1>2, AfterReadPage
  <2>3. Cardinality(walk'[c].items) = Cardinality(page)
    <3>1. page \in SUBSET calendar
      BY DEF Matching
    <3> QED
      BY <2>2, <3>1, ItemsOfPage
  <2>4. walk[c].total <= Cardinality(Matching(c)) /\ walk[c].total \in Nat
    BY <2>1 DEF TotalStands, SearchTypeOK, WalkRecords
  <2>5. PICK before \in SUBSET (Matching(c) \ page) : Slice(c, page, before)
    BY <2>2 DEF IsPage
  <2>6. /\ Cardinality(page) \in Nat /\ Cardinality(before) \in Nat
        /\ Cardinality(Matching(c)) \in Nat
        /\ Cardinality(page \cup before) = Cardinality(page) + Cardinality(before)
        /\ Cardinality(page \cup before) <= Cardinality(Matching(c))
        /\ Cardinality(before) <= Offset(c)
        /\ Cardinality(page \cup before) < Cardinality(Matching(c)) =>
             Cardinality(page) = walk[c].size
    BY <2>5, SliceSizes
  <2>7. Offset(c) \in Nat /\ walk[c].size \in Nat
    BY OffsetIsNat
  <2>8. walk[c].total > Offset(c)
    BY <2>1
  <2>9. CASE Cardinality(page) = walk[c].size
    BY <2>1, <2>3, <2>4, <2>7, <2>9 DEF Least
  <2>10. CASE Cardinality(page) + Cardinality(before) = Cardinality(Matching(c))
    <3>1. Cardinality(page) >= walk[c].total - Offset(c)
      BY <2>4, <2>6, <2>7, <2>10
    <3>2. Least(walk[c].size, walk[c].total - Offset(c)) <= walk[c].total - Offset(c)
      BY <2>4, <2>7 DEF Least
    <3>3. Least(walk[c].size, walk[c].total - Offset(c)) \in Int
      BY <2>4, <2>7 DEF Least
    <3> QED
      BY <2>1, <2>3, <2>4, <2>6, <2>7, <3>1, <3>2, <3>3
  <2> QED
    BY <2>6, <2>9, <2>10
<1> QED
  BY <1>1, <1>2, WalkMoves, AfterBeginWalk, AfterCountRows, AfterNextPage, AfterSearchFails
     DEF Walks, Answered

-----------------------------------------------------------------------------
(* What a walk through the list of one room still owes *)

\* A row that is not on the page, and does not belong to an earlier one, belongs
\* to a later one: the page is full, and all of it lies ahead of that row.
LEMMA OwedLieBehindPage ==
  ASSUME SearchTypeOK, CalendarSound, NEW c \in Clients, walk[c].filter.roomId # Null,
         NEW page \in SUBSET Matching(c), NEW before \in SUBSET (Matching(c) \ page),
         IsPage(c, page, before),
         NEW e \in Matching(c), e \notin page, Offset(c) <= Cardinality(Ahead(c, e))
  PROVE  /\ Cardinality(page) = walk[c].size
         /\ Offset(c) + walk[c].size <= Cardinality(Ahead(c, e))
<1>1. /\ Cardinality(page) \in Nat /\ Cardinality(before) \in Nat
      /\ Cardinality(Matching(c)) \in Nat
      /\ Cardinality(page \cup before) = Cardinality(page) + Cardinality(before)
      /\ Cardinality(before) <= Offset(c)
      /\ Cardinality(before) < Cardinality(Matching(c)) => Cardinality(before) = Offset(c)
      /\ Cardinality(page \cup before) < Cardinality(Matching(c)) =>
           Cardinality(page) = walk[c].size
  <2>1. Slice(c, page, before)
    BY DEF IsPage
  <2> QED
    BY <2>1, SliceSizes
<1>2. \A f \in Matching(c) : f \in calendar /\ f \in Entries /\ f.startAt \in Nat
  BY EntryFields DEF Matching, SearchTypeOK
<1>3. \A f \in Matching(c) : f # e => f.startAt # e.startAt
  <2>1. \A f \in Matching(c) : f.roomId = walk[c].filter.roomId
    BY DEF Matching, Passes
  <2> QED
    BY <1>2, <2>1, StartsAreDistinct DEF SearchTypeOK
<1>4. /\ Ahead(c, e) \in SUBSET Matching(c)
      /\ IsFiniteSet(Ahead(c, e)) /\ Cardinality(Ahead(c, e)) \in Nat
  <2>1. Ahead(c, e) \in SUBSET Matching(c)
    BY DEF Ahead
  <2> QED
    BY <2>1, MatchingFinite
<1>5. e \notin before
  <2> SUFFICES ASSUME e \in before
               PROVE  FALSE
    OBVIOUS
  <2>1. Ahead(c, e) \subseteq before \ {e}
    <3> SUFFICES ASSUME NEW f \in Ahead(c, e), f \notin before
                 PROVE  FALSE
      BY <1>2 DEF Ahead
    <3>1. f \in Matching(c) /\ f.startAt > e.startAt
      BY DEF Ahead
    <3>2. e.startAt >= f.startAt
      BY <3>1 DEF IsPage
    <3> QED
      BY <1>2, <3>1, <3>2
  <2>2. before \in SUBSET Matching(c)
    OBVIOUS
  <2>3. IsFiniteSet(before)
    BY <2>2, MatchingFinite
  <2>4. IsFiniteSet(before \ {e}) /\ Cardinality(before \ {e}) = Cardinality(before) - 1
    BY <2>3, FS_RemoveElement
  <2>5. Cardinality(Ahead(c, e)) <= Cardinality(before) - 1
    BY <2>1, <2>4, FS_Subset
  <2> QED
    BY <1>1, <1>4, <2>5, OffsetIsNat
<1>6. page \cup before \in SUBSET Ahead(c, e)
  <2>1. e \in Matching(c) \ (page \cup before)
    BY <1>5
  <2>2. \A f \in page \cup before : f.startAt >= e.startAt
    BY <2>1 DEF IsPage
  <2>3. \A f \in page \cup before : f \in Matching(c) /\ f.startAt > e.startAt
    BY <1>2, <1>3, <2>1, <2>2
  <2> QED
    BY <2>3 DEF Ahead
<1>7. Cardinality(page \cup before) <= Cardinality(Ahead(c, e))
  BY <1>4, <1>6, FS_Subset
<1>8. Cardinality(Ahead(c, e)) < Cardinality(Matching(c))
  <2>1. e \notin Ahead(c, e)
    BY <1>2 DEF Ahead
  <2>2. /\ Cardinality(Ahead(c, e)) <= Cardinality(Matching(c))
        /\ Cardinality(Matching(c)) = Cardinality(Ahead(c, e)) => Matching(c) = Ahead(c, e)
    BY <1>4, MatchingFinite, FS_Subset
  <2> QED
    BY <1>1, <1>4, <2>1, <2>2
<1>9. Cardinality(page) = walk[c].size /\ Cardinality(before) = Offset(c)
  BY <1>1, <1>4, <1>7, <1>8
<1> QED
  BY <1>1, <1>7, <1>9, OffsetIsNat

LEMMA OwedStay ==
  ASSUME KnownAreEntered, CalendarSound', [SearchNext]_searchVars, NEW c \in Clients,
         SameQuery(c), walk'[c].known = walk[c].known, walk[c].seen \subseteq walk'[c].seen
  PROVE  Owed(c)' \subseteq Owed(c)
<1> SUFFICES ASSUME NEW e \in Owed(c)'
             PROVE  e \in Owed(c)
  OBVIOUS
<1>1. e \in calendar' /\ e.id \in walk[c].known /\ e.id \notin walk[c].seen
        /\ Wanted(c, e)
  BY MatchingGrows DEF Owed
<1>2. PICK f \in calendar : f.id = e.id
  BY <1>1 DEF KnownAreEntered
<1>3. e = f
  BY <1>1, <1>2, CalendarGrows DEF CalendarSound
<1> QED
  BY <1>1, <1>3 DEF Owed

LEMMA AheadGrows ==
  ASSUME CalendarSound, CalendarSound', [SearchNext]_searchVars, NEW c, SameQuery(c), NEW e
  PROVE  /\ Cardinality(Ahead(c, e)) \in Nat /\ Cardinality(Ahead(c, e)') \in Nat
         /\ Cardinality(Ahead(c, e)) <= Cardinality(Ahead(c, e)')
<1>1. Ahead(c, e) \in SUBSET Ahead(c, e)'
  BY MatchingGrows DEF Ahead
<1>2. Ahead(c, e)' \in SUBSET calendar' /\ IsFiniteSet(calendar')
  BY DEF Ahead, Matching, CalendarSound
<1>3. IsFiniteSet(Ahead(c, e)')
  BY <1>2, FS_Subset
<1>4. IsFiniteSet(Ahead(c, e))
  BY <1>1, <1>3, FS_Subset
<1> QED
  BY <1>1, <1>3, <1>4, FS_Subset, FS_CardinalityType

LEMMA OwedLieAheadStep ==
  ASSUME SearchInv, CalendarSound', [SearchNext]_searchVars
  PROVE  OwedLieAhead'
<1> USE DEF SearchInv
<1> SUFFICES ASSUME NEW c \in Clients, walk'[c].filter.roomId # Null,
                    NEW e \in Owed(c)'
             PROVE  /\ walk'[c].stage \in {"count", "read"} =>
                         Offset(c)' <= Cardinality(Ahead(c, e)')
                    /\ Answered(c)' =>
                         /\ FullPage(c)'
                         /\ Offset(c)' + walk'[c].size <= Cardinality(Ahead(c, e)')
  BY DEF OwedLieAhead
<1>1. Offset(c) \in Nat /\ walk[c].size \in Nat \ {0}
  BY OffsetIsNat
<1>2. ASSUME NEW route, NEW caller, NEW filter, NEW size,
             BeginWalk(c, route, caller, filter, size)
      PROVE  walk'[c].stage = "count" /\ Offset(c)' <= Cardinality(Ahead(c, e)')
  <2>1. SearchTypeOK'
    BY SearchTypesStep
  <2>2. walk'[c].page = 1 /\ walk'[c].stage = "count"
    BY <1>2, AfterBeginWalk
  <2>3. Offset(c)' = 0
    <3>1. walk'[c].size \in 1 .. MaxPageSize
      BY <2>1 DEF SearchTypeOK, WalkRecords
    <3>2. walk'[c].size \in Nat
      BY <3>1
    <3> QED
      BY <2>2, <3>2 DEF Offset
  <2>4. Ahead(c, e)' \in SUBSET calendar' /\ IsFiniteSet(calendar')
    BY DEF Ahead, Matching, CalendarSound
  <2>5. Cardinality(Ahead(c, e)') \in Nat
    BY <2>4, FS_Subset, FS_CardinalityType
  <2> QED
    BY <2>2, <2>3, <2>5
\* In the other cases the walk goes on, and e was owed before.
<1>3. ASSUME SameQuery(c), walk'[c].known = walk[c].known,
             walk[c].seen \subseteq walk'[c].seen
      PROVE  /\ e \in Owed(c) /\ walk[c].filter.roomId # Null
             /\ Cardinality(Ahead(c, e)) \in Nat /\ Cardinality(Ahead(c, e)') \in Nat
             /\ Cardinality(Ahead(c, e)) <= Cardinality(Ahead(c, e)')
  BY <1>3, OwedStay, AheadGrows DEF SameQuery
<1>4. CASE walk'[c] = walk[c]
  <2>1. SameQuery(c) /\ Offset(c)' = Offset(c) /\ FullPage(c)' = FullPage(c)
    BY <1>4 DEF SameQuery, Offset, FullPage
  <2> QED
    BY <1>1, <1>3, <1>4, <2>1 DEF OwedLieAhead, Answered
<1>5. CASE CountRows(c)
  <2>1. SameQuery(c) /\ Offset(c)' = Offset(c)
    BY <1>5, AfterCountRows DEF SamePage, Offset
  <2> QED
    BY <1>1, <1>3, <1>5, <2>1, AfterCountRows DEF OwedLieAhead, Answered, SamePage
<1>6. CASE ReadPage(c)
  <2>1. /\ SameQuery(c) /\ Offset(c)' = Offset(c) /\ walk'[c].size = walk[c].size
        /\ walk[c].stage = "read" /\ walk'[c].stage = "answered"
        /\ walk'[c].known = walk[c].known
    BY <1>6, AfterReadPage DEF Offset
  <2>2. PICK page \in SUBSET Matching(c) :
          /\ \E before \in SUBSET (Matching(c) \ page) : IsPage(c, page, before)
          /\ walk'[c].items = {Item(f) : f \in page}
          /\ walk'[c].seen = walk[c].seen \cup {f.id : f \in page}
    BY <1>6, AfterReadPage
  <2>3. /\ e \in Owed(c) /\ walk[c].filter.roomId # Null
        /\ Cardinality(Ahead(c, e)) \in Nat /\ Cardinality(Ahead(c, e)') \in Nat
        /\ Cardinality(Ahead(c, e)) <= Cardinality(Ahead(c, e)')
    BY <1>3, <2>1, <2>2
  <2>4. e \in Matching(c)
    BY <2>3, MatchingIsWanted DEF Owed
  <2>5. e \notin page
    BY <2>2 DEF Owed
  <2>6. Offset(c) <= Cardinality(Ahead(c, e))
    BY <2>1, <2>3 DEF OwedLieAhead
  <2>7. /\ Cardinality(page) = walk[c].size
        /\ Offset(c) + walk[c].size <= Cardinality(Ahead(c, e))
    BY <2>2, <2>3, <2>4, <2>5, <2>6, OwedLieBehindPage
  <2>8. FullPage(c)'
    <3>1. page \in SUBSET calendar
      BY DEF Matching
    <3> QED
      BY <2>1, <2>2, <2>7, <3>1, ItemsOfPage DEF FullPage
  <2> QED
    BY <1>1, <2>1, <2>3, <2>7, <2>8
<1>7. CASE NextPage(c)
  <2>1. /\ SameQuery(c) /\ walk'[c].stage = "count" /\ Answered(c)
        /\ walk'[c].size = walk[c].size /\ walk'[c].page = walk[c].page + 1
        /\ walk'[c].seen = walk[c].seen /\ walk'[c].known = walk[c].known
    BY <1>7, AfterNextPage
  <2>2. Offset(c)' = Offset(c) + walk[c].size
    <3>1. walk[c].page \in Nat /\ walk[c].size \in Nat
      BY SearchAssumption DEF SearchTypeOK, WalkRecords
    <3> QED
      BY <2>1, <3>1 DEF Offset
  <2> QED
    BY <1>1, <1>3, <2>1, <2>2 DEF OwedLieAhead, Answered
<1>8. CASE SearchFails(c)
  BY <1>8, AfterSearchFails DEF Answered
<1> QED
  BY <1>2, <1>4, <1>5, <1>6, <1>7, <1>8, WalkMoves DEF Walks, Answered

-----------------------------------------------------------------------------
(* The invariant holds *)

LEMMA InitSearchInv == SearchInit => SearchInv
<1> SUFFICES ASSUME SearchInit
             PROVE  SearchInv
  OBVIOUS
<1>1. calendar = {} /\ receipts = {} /\ \A c \in Clients : walk[c] = NoWalk
  BY DEF SearchInit, CalendarInit
<1>2. SearchTypeOK
  <2>1. 1 \in 1 .. MaxPageSize
    BY SearchAssumption
  <2>2. NoWalk \in WalkRecords
    BY <2>1 DEF NoWalk, WalkRecords, Routes
  <2> QED
    BY <1>1, <2>2 DEF SearchInit, SearchTypeOK
<1>3. CalendarSound /\ ReceiptsHaveEnds
  BY <1>1, FS_EmptySet DEF CalendarSound, ReceiptsHaveEnds
<1>4. KnownAreEntered /\ OnlyAdminsNameUsers /\ ItemsMatch
  BY <1>1 DEF NoWalk, NoFilter, KnownAreEntered, OnlyAdminsNameUsers, ItemsMatch
<1>5. TotalStands /\ PageKeepsPromise /\ OwedLieAhead
  BY <1>1 DEF NoWalk, TotalStands, PageKeepsPromise, OwedLieAhead, Owed, Answered
<1> QED
  BY <1>2, <1>3, <1>4, <1>5 DEF SearchInv

LEMMA SearchInvStep == SearchInv /\ [SearchNext]_searchVars => SearchInv'
<1> SUFFICES ASSUME SearchInv, [SearchNext]_searchVars
             PROVE  SearchInv'
  OBVIOUS
<1>1. CalendarSound'
  BY CalendarSoundStep DEF SearchInv
<1>2. SearchTypeOK' /\ ReceiptsHaveEnds' /\ KnownAreEntered'
  BY SearchTypesStep, ReceiptsHaveEndsStep, KnownAreEnteredStep DEF SearchInv
<1>3. OnlyAdminsNameUsers' /\ ItemsMatch' /\ TotalStands' /\ PageKeepsPromise'
  BY OnlyAdminsNameUsersStep, ItemsMatchStep, TotalStandsStep, PageKeepsPromiseStep
     DEF SearchInv
<1>4. OwedLieAhead'
  BY <1>1, OwedLieAheadStep
<1> QED
  BY <1>1, <1>2, <1>3, <1>4 DEF SearchInv

\* The strengthening behind the theorems below: at every await of a search, owed
\* rows lie ahead of its client and totals and pages stand.
THEOREM SearchInvariance == SearchSpec => []SearchInv
BY InitSearchInv, SearchInvStep, PTL DEF SearchSpec

\* The locals of the list handlers stay within their types.
THEOREM SearchTypes == SearchSpec => []SearchTypeOK
BY SearchInvariance, PTL DEF SearchInv

-----------------------------------------------------------------------------
(* What the lists say *)

\* A list shows only bookings that stand and that its client may see, and those
\* with a receipt with the end they were sold with.
THEOREM ListedItemsStand == SearchSpec => []ItemsStand
<1>1. SearchInv => ItemsStand
  <2> SUFFICES ASSUME SearchInv, NEW c \in Clients, NEW item \in walk[c].items
               PROVE  \E e \in calendar :
                        /\ item.id = e.id
                        /\ Wanted(c, e)
                        /\ e.id \in receipts => item.endAt = e.endAt
    BY DEF ItemsStand
  <2> USE DEF SearchInv
  <2>1. PICK e \in Matching(c) : item = Item(e)
    BY DEF ItemsMatch
  <2>2. e \in calendar /\ item.id = e.id
    BY <2>1 DEF Matching, Item
  <2>3. Wanted(c, e)
    BY <2>1, <2>2, MatchingIsWanted
  <2>4. ASSUME e.id \in receipts
        PROVE  item.endAt = e.endAt
    <3>1. PICK sold \in calendar : sold.id = e.id /\ sold.endAt # Null
      BY <2>4 DEF ReceiptsHaveEnds
    <3>2. sold = e
      BY <2>2, <3>1 DEF CalendarSound
    <3> QED
      BY <2>1, <3>1, <3>2 DEF Item
  <2> QED
    BY <2>2, <2>3, <2>4
<1> QED
  BY <1>1, SearchInvariance, PTL

\* The rows that a total announces for a page are on it.
THEOREM PagesKeepPromises == SearchSpec => []PageKeepsPromise
BY SearchInvariance, PTL DEF SearchInv

\* Whoever walks through the list of a room to its end misses nothing he asked
\* for that was known when he began, whatever is booked meanwhile.
THEOREM NothingIsMissed == SearchSpec => []NothingMissed
<1>1. SearchInv => NothingMissed
  BY DEF SearchInv, OwedLieAhead, Owed, NothingMissed
<1> QED
  BY <1>1, SearchInvariance, PTL
=============================================================================
