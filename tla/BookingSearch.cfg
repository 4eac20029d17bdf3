CONSTANTS
  Null = Null
  alice = alice
  bob = bob
  suite = suite
  loft = loft
  Clients = {carol}
  Entries <- MCEntries
  Instants <- MCInstants
  OwnerOf <- MCOwnerOf
  Users <- MCUsers
  Filters <- MCFilters
  PageSizes <- MCPageSizes
  MaxPageSize <- MCMaxPageSize
SPECIFICATION SearchSpec
INVARIANTS
  SearchInv
  SearchTypeOK
  ItemsStand
  PageKeepsPromise
  NothingMissed
