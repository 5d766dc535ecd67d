SPECIFICATION MCSpec
CONSTANTS
  a = a
  Missing = Missing
  All = All
  Stem <- MCStem
  Record <- MCRecord
  Fit <- MCFit
  Sources <- MCSources
  Types <- MCTypes
  FeedSize = 3
  Limits = {1, 3}
  TopK = 2
  Unset = Unset
  Override = {Unset, 7, 31}
  Boot = {1704110370, 1709960400}
  Duration = {0, 82000}
  Late = {0, 5}
  Horizon = 1830000000
INVARIANTS
  HitIsItself LargerPageNotCleaner ExactBlocks BlockShowsExact
  OnTime EveryDayOnce CalendarAgrees
CHECK_DEADLOCK FALSE
