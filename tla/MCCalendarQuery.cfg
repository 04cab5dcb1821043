SPECIFICATION Spec
CONSTANTS
  None = None
  Day = 4
  Unit <- MCUnit
  Margin <- MCMargin
  Earliest <- MCEarliest
  Latest = 2
  MaxInstances = 11
  MaxSpanInstances = 5
  Horizon = 60
  Names = {1, 2, 3}
  Ids = {1, 2, 4, 5, 6}
  FirstId <- MCFirstId
  Objects <- MCObjects
  Starts <- MCStarts
  Questions <- MCQuestions
  PageSize = 2
  MaxResults = 2
  MaxWrites = 2
INVARIANTS
  NothingHidden
  ExpansionRight
  LeftOutTooLong
  QueryExplained
  FreshData
  BusyTimeRight
CHECK_DEADLOCK FALSE
