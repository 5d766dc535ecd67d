SPECIFICATION FairSpec
CONSTANTS
  Req = {r1}
  Svc = svc
  Empty = empty
  Fixture = fixture
  a = a
  Corpora <- MCCorpora
  Feed <- FeedOrJunk
  SeedJson = "none"
  MaxCrashes = 1
PROPERTIES RefreshAnswered UpdateHeals
CHECK_DEADLOCK FALSE
