SPECIFICATION Spec
CONSTANTS
  Req = {r1, r2}
  Svc = svc
  Empty = empty
  Fixture = fixture
  a = a
  Corpora <- MCCorpora
  Feed <- FeedOrNone
  SeedJson = empty
  MaxCrashes = 1
SYMMETRY Requests
INVARIANTS TypeOK IndexedServed OnlyStoredServed OwnListServed
CHECK_DEADLOCK FALSE
