SPECIFICATION HistorySpec
CONSTANTS
  Names = {"a", "b"}
  Saves = {"s1", "s2", "s3"}
  Foreign = {"s3"}
  NoFile = NoFile
  Torn = Torn
  Nothing = Nothing
  Damaged = Damaged
INVARIANT PreviousSaveKept
